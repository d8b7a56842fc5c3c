---------------------------- MODULE MemoryProofs ----------------------------
(***************************************************************************)
(* The regions that build_mem_regions makes of a memory map are ordered    *)
(* and are the usable pages, for every memory map, section table and page  *)
(* size, wherever the loops over both tables stand.  The blocks that       *)
(* kmalloc gives out share no word, the lists of the pools lose no block   *)
(* and have none twice, kfree frees no page that is in use and the stacks  *)
(* of the threads are there, for every page size and set of pools and      *)
(* every order of calls.  The walk over the boot tags finds both tables.   *)
(***************************************************************************)
EXTENDS MemoryMap, Kmalloc, BootTags, FiniteSetTheorems,
        WellFoundedInduction, TLAPS

(* Arithmetic with multiples of a size d.                                  *)

\* A number is a multiple of d and a rest.
LEMMA Quotient ==
    ASSUME NEW d \in Nat \ {0}, NEW x \in Nat
    PROVE  \E k \in Nat, r \in 0 .. d - 1 :
              x = k * d + r /\ x % d = r /\ x \div d = k
<1>1. x % d \in 0 .. d - 1
  OBVIOUS
<1>2. x \div d \in Nat
  OBVIOUS
<1>3. ASSUME NEW k \in Nat, NEW r \in Nat, k = x \div d, r = x % d
      PROVE  x = k * d + r
  BY <1>3
<1> QED
  BY <1>1, <1>2, <1>3

\* Such a sum has that quotient and that rest.
LEMMA Multiple ==
    ASSUME NEW d \in Nat \ {0}, NEW k \in Nat, NEW r \in 0 .. d - 1
    PROVE  (k * d + r) % d = r /\ (k * d + r) \div d = k
  OBVIOUS

\* Different multiples of d are at least d apart.
LEMMA MultiplesApart ==
    ASSUME NEW d \in Nat \ {0}, NEW k \in Nat, NEW l \in Nat
    PROVE  /\ k < l <=> k * d < l * d
           /\ k * d < l * d => k * d + d <= l * d
  OBVIOUS

\* A multiple is a number without rest, and the next is d away.
LEMMA MultipleIsNat ==
    ASSUME NEW d \in Nat \ {0}, NEW k \in Nat
    PROVE  k * d \in Nat /\ (k * d) % d = 0 /\ (k + 1) * d = k * d + d
  OBVIOUS

\* The two ways of rounding m + r, m a multiple of d.
LEMMA Rounding ==
    ASSUME NEW d \in Nat \ {0}, NEW m \in Nat, NEW r \in 0 .. d - 1
    PROVE  /\ (IF r = 0 THEN m + r ELSE (m + r) - r) = m
           /\ m <= m + r /\ m + r < m + d
           /\ (IF r = 0 THEN m + r ELSE (m + r) + (d - r))
                 = IF r = 0 THEN m ELSE m + d
  OBVIOUS

\* align_pointer's two ways for an address x.
LEMMA RoundUp ==
    ASSUME NEW d \in Nat \ {0}, NEW x \in Nat
    PROVE  \E u \in Nat :
              /\ (IF x % d = 0 THEN x ELSE x + (d - (x % d))) = u * d
              /\ x <= u * d /\ u * d < x + d
<1>1. PICK k \in Nat, r \in 0 .. d - 1 : x = k * d + r /\ x % d = r
  BY Quotient
<1>2. PICK m \in Nat : m = k * d /\ m + d = (k + 1) * d
  BY MultipleIsNat
<1>3. (IF x % d = 0 THEN x ELSE x + (d - (x % d)))
         = IF r = 0 THEN m ELSE m + d
  <2>1. x = m + r /\ x % d = r
    BY <1>1, <1>2
  <2> QED
    BY <2>1, Rounding
<1>4. k + 1 \in Nat
  OBVIOUS
<1>5. CASE r = 0
  <2>1. m <= m + r /\ m <= x /\ m < x + d /\ x = m
    BY <1>1, <1>2, <1>5
  <2> QED
    BY <1>2, <1>3, <1>5, <2>1
<1>6. CASE r # 0
  <2>1. x <= m + d /\ m + d < x + d
    BY <1>1, <1>2, <1>6
  <2> QED
    BY <1>2, <1>3, <1>4, <1>6, <2>1
<1> QED
  BY <1>5, <1>6

\* And downwards.
LEMMA RoundDown ==
    ASSUME NEW d \in Nat \ {0}, NEW x \in Nat
    PROVE  \E u \in Nat : /\ (IF x % d = 0 THEN x ELSE x - (x % d)) = u * d
                          /\ u * d <= x /\ x < u * d + d
<1>1. PICK k \in Nat, r \in 0 .. d - 1 : x = k * d + r /\ x % d = r
  BY Quotient
<1>2. PICK m \in Nat : m = k * d
  BY MultipleIsNat
<1>3. (IF x % d = 0 THEN x ELSE x - (x % d)) = m
  <2>1. x = m + r /\ x % d = r
    BY <1>1, <1>2
  <2>2. (IF r = 0 THEN x ELSE x - r) = m
    BY <2>1
  <2> QED
    BY <2>1, <2>2
<1>4. m <= x /\ x < m + d
  BY <1>1, <1>2
<1> QED
  BY <1>2, <1>3, <1>4

-----------------------------------------------------------------------------
(* build_mem_regions.                                                      *)

P == MMU_PAGE_SIZE

\* The pages that lie between two addresses are those between the aligned
\* ones.
LEMMA AlignKeepsPages ==
    ASSUME NEW s \in Nat, NEW e \in Nat
    PROVE  LET first_ == align_pointer(s, TRUE)
               last_ == align_pointer(e, FALSE)
           IN  /\ first_ \in Nat /\ first_ % P = 0 /\ s <= first_
               /\ last_ \in Nat /\ last_ % P = 0 /\ last_ <= e
               /\ \A p \in Nat : (first_ <= p * P /\ p * P < last_)
                                  <=> (s <= p * P /\ p * P + P <= e)
<1> DEFINE f == align_pointer(s, TRUE)
           l == align_pointer(e, FALSE)
<1>1. P \in Nat \ {0}
  BY MemoryMapAssumption DEF P
<1>2. PICK u \in Nat : f = u * P /\ s <= f /\ f < s + P
  <2>1. f = IF s % P = 0 THEN s ELSE s + (P - (s % P))
    BY MemoryMapAssumption DEF align_pointer, P
  <2> HIDE DEF f
  <2> QED
    <3>1. \E u \in Nat :
             /\ (IF s % P = 0 THEN s ELSE s + (P - (s % P))) = u * P
             /\ s <= u * P /\ u * P < s + P
      BY <1>1, RoundUp
    <3> QED
      BY <2>1, <3>1
<1>3. PICK v \in Nat : l = v * P /\ l <= e /\ e < l + P
  <2>1. l = IF e % P = 0 THEN e ELSE e - (e % P)
    BY MemoryMapAssumption DEF align_pointer, P
  <2> HIDE DEF l
  <2> QED
    <3>1. \E w \in Nat : /\ (IF e % P = 0 THEN e ELSE e - (e % P)) = w * P
                         /\ w * P <= e /\ e < w * P + P
      BY <1>1, RoundDown
    <3> QED
      BY <2>1, <3>1
<1> HIDE DEF f, l, P
<1>4. /\ f \in Nat /\ f % P = 0 /\ l \in Nat /\ l % P = 0
  BY <1>1, <1>2, <1>3, MultipleIsNat
<1>5. ASSUME NEW p \in Nat
      PROVE  (f <= p * P /\ p * P < l) <=> (s <= p * P /\ p * P + P <= e)
  <2>1. PICK x \in Nat : x = p * P
    BY <1>1, MultipleIsNat
  <2>2. x < f => x + P <= f
    BY <1>1, <1>2, <2>1, MultiplesApart
  <2>3. /\ x < l => x + P <= l
        /\ l < x => l + P <= x
        /\ x = l \/ x < l \/ l < x
    BY <1>1, <1>3, <1>4, <2>1, MultiplesApart
  <2> QED
    BY <1>1, <1>2, <1>3, <1>4, <2>1, <2>2, <2>3
<1> QED
  BY <1>2, <1>3, <1>4, <1>5 DEF f, l

Interval == [type : Nat, start : Nat, end : Nat]
RegionType == [start : Nat, end : Nat]

\* A region has two bounds.
LEMMA RegionBounds ==
    ASSUME NEW q \in Seq(RegionType), NEW r \in 1 .. Len(q)
    PROVE  q[r].start \in Nat /\ q[r].end \in Nat
<1>1. q[r] \in RegionType
  OBVIOUS
<1> QED
  BY <1>1 DEF RegionType

\* An entry of the memory map or of the section table has two bounds.
LEMMA IntervalBounds ==
    ASSUME NEW q \in Seq(Interval), NEW e \in 1 .. Len(q)
    PROVE  q[e].start \in Nat /\ q[e].end \in Nat
<1>1. q[e] \in Interval
  OBVIOUS
<1> QED
  BY <1>1 DEF Interval

InEntry == pc \in {"before", "section", "rest"}

MapType ==
    /\ mem_entries \in Seq(Interval) /\ elf_entries \in Seq(Interval)
    /\ \A e \in 1 .. Len(mem_entries) :
          mem_entries[e].start < mem_entries[e].end
    /\ Disjoint(mem_entries)
    /\ \A k \in 1 .. Len(elf_entries) :
          elf_entries[k].start <= elf_entries[k].end
    /\ Sorted(elf_entries)
    /\ i \in Nat \ {0} /\ j \in Nat \ {0} /\ cur_start \in Nat
    /\ mem_regions \in Seq(RegionType)
    /\ pc \in {"entry", "before", "section", "rest", "exit"}
    /\ InEntry => i <= Len(mem_entries) /\ EntryStart <= cur_start

\* The regions so far end before what is left of the entry, and before the
\* entries to come.
Frontier ==
    /\ InEntry => \A r \in 1 .. Len(mem_regions) :
                     mem_regions[r].end <= cur_start
    /\ pc # "exit" =>
          \A r \in 1 .. Len(mem_regions), e \in 1 .. Len(mem_entries) :
             e > i \/ (pc = "entry" /\ e = i)
                => mem_regions[r].end <= mem_entries[e].start

MapInv == MapType /\ Frontier /\ Ordered

\* The entry under consideration.
LEMMA EntryFacts ==
    ASSUME MapType, i <= Len(mem_entries)
    PROVE  /\ Entry \in Interval /\ Entry.start < Entry.end
           /\ EntryStart \in Nat \ {0}
           /\ Entry.start <= EntryStart /\ EntryStart <= Entry.end
           /\ \A e \in 1 .. Len(mem_entries) :
                 e > i => Entry.end <= mem_entries[e].start
<1>1. i \in 1 .. Len(mem_entries)
  BY DEF MapType
<1>2. /\ Entry \in Interval /\ Entry.start < Entry.end
      /\ \A e \in 1 .. Len(mem_entries) :
            e > i => Entry.end <= mem_entries[e].start
  BY <1>1 DEF MapType, Entry, Disjoint
<1>3. Entry.start \in Nat /\ Entry.end \in Nat
  BY <1>2 DEF Interval
<1> QED
  BY <1>2, <1>3 DEF EntryStart

\* The section under consideration.
LEMMA SectionFacts ==
    ASSUME MapType, j <= Len(elf_entries)
    PROVE  /\ j \in 1 .. Len(elf_entries)
           /\ Section \in Interval /\ Section.start <= Section.end
           /\ Section.start \in Nat /\ Section.end \in Nat
           /\ \A k \in 1 .. Len(elf_entries) :
                 k >= j => Section.start <= elf_entries[k].start
<1>1. j \in 1 .. Len(elf_entries)
  BY DEF MapType
<1>2. Section \in Interval /\ Section.start <= Section.end
  BY <1>1 DEF MapType, Section
<1>3. Section.start \in Nat /\ Section.end \in Nat
  BY <1>2 DEF Interval
<1>4. ASSUME NEW k \in 1 .. Len(elf_entries), k >= j
      PROVE  Section.start <= elf_entries[k].start
  <2>1. k = j \/ j < k
    BY <1>4 DEF MapType
  <2> QED
    BY <1>1, <1>3, <2>1 DEF MapType, Sorted, Section
<1> QED
  BY <1>1, <1>2, <1>3, <1>4

\* add_region with the bounds s and e: the table keeps its order, and the
\* pages between s and e are added to those of the regions.
LEMMA RegionAdded ==
    ASSUME MapType, Ordered, NEW s \in Nat, NEW e \in Nat,
           \A r \in 1 .. Len(mem_regions) : mem_regions[r].end <= s,
           mem_regions' = Region(s, e)
    PROVE  /\ mem_regions' \in Seq(RegionType) /\ Ordered'
           /\ \A r \in 1 .. Len(mem_regions') :
                 \/ /\ r \in 1 .. Len(mem_regions)
                    /\ mem_regions'[r] = mem_regions[r]
                 \/ mem_regions'[r].end <= e
           /\ \A p \in Nat : InRegion(p)'
                 <=> InRegion(p) \/ (s <= p * P /\ p * P + P <= e)
<1> DEFINE f == align_pointer(s, TRUE)
           l == align_pointer(e, FALSE)
           x == [start |-> f, end |-> l]
<1>1. /\ f \in Nat /\ f % P = 0 /\ s <= f
      /\ l \in Nat /\ l % P = 0 /\ l <= e
  BY AlignKeepsPages
<1>2. \A p \in Nat : (f <= p * P /\ p * P < l)
                       <=> (s <= p * P /\ p * P + P <= e)
  BY AlignKeepsPages
<1>3. mem_regions' = IF f < l THEN Append(mem_regions, x) ELSE mem_regions
  BY DEF Region
<1> HIDE DEF f, l, P
<1>4. P \in Nat \ {0}
  BY MemoryMapAssumption DEF P
<1>5. CASE f < l
  <2>1. /\ x \in RegionType /\ x.start = f /\ x.end = l
        /\ mem_regions' = Append(mem_regions, x)
    BY <1>1, <1>3, <1>5 DEF RegionType
  <2> HIDE DEF x
  <2>2. /\ mem_regions' \in Seq(RegionType)
        /\ Len(mem_regions') = Len(mem_regions) + 1
        /\ Len(mem_regions) \in Nat
        /\ mem_regions'[Len(mem_regions) + 1] = x
        /\ \A r \in 1 .. Len(mem_regions) : mem_regions'[r] = mem_regions[r]
    BY <2>1 DEF MapType
  <2>3. \A r \in 1 .. Len(mem_regions') :
           r \in 1 .. Len(mem_regions) \/ r = Len(mem_regions) + 1
    BY <2>2
  <2>4. Disjoint(mem_regions')
    <3> SUFFICES ASSUME NEW a \in 1 .. Len(mem_regions'),
                        NEW b \in 1 .. Len(mem_regions'), a < b
                 PROVE  mem_regions'[a].end <= mem_regions'[b].start
      BY DEF Disjoint
    <3>1. a \in 1 .. Len(mem_regions)
      BY <2>2
    <3>2. CASE b \in 1 .. Len(mem_regions)
      BY <2>2, <3>1, <3>2 DEF Ordered, Disjoint
    <3>3. CASE b = Len(mem_regions) + 1
      <4>1. mem_regions[a].end \in Nat /\ mem_regions[a].end <= s
        BY <3>1, RegionBounds DEF MapType
      <4> QED
        BY <1>1, <2>1, <2>2, <3>1, <3>3, <4>1
    <3> QED
      BY <2>3, <3>2, <3>3
  <2>5. Ordered'
    BY <1>1, <1>5, <2>1, <2>2, <2>3, <2>4 DEF Ordered, P
  <2>6. \A r \in 1 .. Len(mem_regions') :
           \/ /\ r \in 1 .. Len(mem_regions)
              /\ mem_regions'[r] = mem_regions[r]
           \/ mem_regions'[r].end <= e
    BY <1>1, <2>1, <2>2, <2>3
  <2>7. ASSUME NEW p \in Nat
        PROVE  InRegion(p)'
                  <=> InRegion(p) \/ (s <= p * P /\ p * P + P <= e)
    <3>1. InRegion(p)' <=> InRegion(p) \/ (f <= p * P /\ p * P < l)
      <4>1. ASSUME InRegion(p)
            PROVE  InRegion(p)'
        <5>1. \A r \in 1 .. Len(mem_regions) : r \in 1 .. Len(mem_regions')
          BY <2>2
        <5> QED
          BY <2>2, <4>1, <5>1 DEF InRegion
      <4>2. ASSUME f <= p * P /\ p * P < l
            PROVE  InRegion(p)'
        <5>1. Len(mem_regions) + 1 \in 1 .. Len(mem_regions')
          BY <2>2
        <5> QED
          BY <2>1, <2>2, <4>2, <5>1 DEF InRegion, P
      <4>3. ASSUME InRegion(p)'
            PROVE  InRegion(p) \/ (f <= p * P /\ p * P < l)
        BY <2>1, <2>2, <2>3, <4>3 DEF InRegion, P
      <4> QED
        BY <4>1, <4>2, <4>3
    <3> QED
      BY <1>2, <3>1
  <2> QED
    BY <2>2, <2>5, <2>6, <2>7
<1>6. CASE ~(f < l)
  <2>1. mem_regions' = mem_regions
    BY <1>3, <1>6
  <2>2. \A p \in Nat : ~(f <= p * P /\ p * P < l)
    <3> SUFFICES ASSUME NEW p \in Nat, f <= p * P, p * P < l
                 PROVE  FALSE
      OBVIOUS
    <3>1. p * P \in Nat
      BY <1>4, MultipleIsNat
    <3> QED
      BY <1>1, <1>6, <3>1
  <2> QED
    BY <1>2, <2>1, <2>2 DEF InRegion, Ordered, MapType
<1> QED
  BY <1>5, <1>6

\* Each step of build_mem_regions keeps the order of the regions.
LEMMA MapStep ==
    ASSUME MapInv, [MapNext]_mapVars
    PROVE  MapInv'
<1> USE DEF MapInv
<1>1. MemoryMapAssumption
  BY MemoryMapAssumption
<1>2. CASE SkipReserved
  <2>1. /\ pc = "entry" /\ i' = i + 1 /\ i \in Nat \ {0}
        /\ UNCHANGED <<mem_entries, elf_entries, j, cur_start, mem_regions, pc>>
    BY <1>2 DEF SkipReserved, MapType
  <2>2. MapType'
    BY <2>1 DEF MapType, InEntry
  <2>3. Frontier'
    BY <2>1 DEF Frontier, InEntry, MapType
  <2>4. Ordered'
    BY <2>1 DEF Ordered
  <2> QED
    BY <2>2, <2>3, <2>4
<1>3. CASE TakeEntry
  <2>1. /\ pc = "entry" /\ i <= Len(mem_entries) /\ cur_start' = EntryStart
        /\ pc' = "before"
        /\ UNCHANGED <<mem_entries, elf_entries, i, j, mem_regions>>
    BY <1>3 DEF TakeEntry
  <2>2. i \in 1 .. Len(mem_entries) /\ Entry = mem_entries[i]
    BY <2>1 DEF MapType, Entry
  <2>3. MapType'
    BY <2>1, EntryFacts DEF MapType, InEntry, EntryStart, Entry
  <2>4. \A r \in 1 .. Len(mem_regions) : mem_regions[r].end <= EntryStart
    <3> SUFFICES ASSUME NEW r \in 1 .. Len(mem_regions)
                 PROVE  mem_regions[r].end <= EntryStart
      OBVIOUS
    <3>1. mem_regions[r].end <= Entry.start /\ mem_regions[r].end \in Nat
      BY <2>1, <2>2, RegionBounds DEF Frontier, MapType
    <3>2. Entry.start \in Nat
      BY <2>1, EntryFacts DEF Interval
    <3> QED
      BY <2>1, <3>1, <3>2, EntryFacts
  <2>5. Frontier'
    BY <2>1, <2>4 DEF Frontier, InEntry
  <2> QED
    BY <2>1, <2>3, <2>5 DEF Ordered
<1>4. CASE SkipSection
  BY <1>4 DEF SkipSection, MapType, InEntry, Entry, EntryStart, Frontier,
              Ordered
<1>5. CASE EndSkip
  BY <1>5 DEF EndSkip, MapType, InEntry, Entry, EntryStart, Frontier,
              Ordered
<1>6. CASE SplitAtSection
  <2>1. /\ pc = "section" /\ Inside /\ cur_start' = NextStart
        /\ pc' \in {"section", "rest", "exit"} /\ j' \in {j, j + 1}
        /\ \/ /\ Section.start > cur_start
              /\ mem_regions' = Region(cur_start,
                                       Smaller(Section.start, Entry.end))
           \/ mem_regions' = mem_regions
        /\ UNCHANGED <<mem_entries, elf_entries, i>>
    BY <1>6 DEF SplitAtSection, add_region
  <2>2. /\ i <= Len(mem_entries) /\ EntryStart <= cur_start
        /\ cur_start \in Nat /\ InEntry
    BY <2>1 DEF MapType, InEntry
  <2>3. /\ Section.start \in Nat /\ Section.end \in Nat
        /\ Section.start <= Section.end /\ Section.start < Entry.end
    BY <2>1, SectionFacts DEF Inside
  <2>4. Entry.end \in Nat /\ EntryStart \in Nat
    BY <2>2, EntryFacts DEF Interval
  <2>5. /\ Smaller(Section.start, Entry.end) = Section.start
        /\ NextStart \in Nat
        /\ cur_start <= NextStart /\ Section.end <= NextStart
    BY <2>2, <2>3, <2>4 DEF Smaller, NextStart, Larger
  <2>6. /\ mem_regions' \in Seq(RegionType) /\ Ordered'
        /\ \A r \in 1 .. Len(mem_regions') :
              \/ /\ r \in 1 .. Len(mem_regions)
                 /\ mem_regions'[r] = mem_regions[r]
              \/ mem_regions'[r].end <= Section.start
    <3>1. CASE mem_regions' = Region(cur_start, Section.start)
      BY <2>2, <2>3, <3>1, RegionAdded DEF Frontier
    <3>2. CASE mem_regions' = mem_regions
      BY <3>2 DEF MapType, Ordered
    <3> QED
      BY <2>1, <2>5, <3>1, <3>2
  <2>7. MapType'
    <3>1. EntryStart' = EntryStart /\ EntryStart <= NextStart
      BY <2>1, <2>2, <2>4, <2>5 DEF EntryStart, Entry
    <3>2. pc' \in {"entry", "before", "section", "rest", "exit"}
      BY <2>1
    <3>3. j' \in Nat \ {0}
      BY <2>1 DEF MapType
    <3> QED
      BY <2>1, <2>2, <2>5, <2>6, <3>1, <3>2, <3>3 DEF MapType, InEntry
  <2>8. \A r \in 1 .. Len(mem_regions') : mem_regions'[r].end \in Nat
    BY <2>6, RegionBounds
  <2>9. \A r \in 1 .. Len(mem_regions') : mem_regions'[r].end <= cur_start'
    <3> SUFFICES ASSUME NEW r \in 1 .. Len(mem_regions')
                 PROVE  mem_regions'[r].end <= cur_start'
      OBVIOUS
    <3>1. mem_regions'[r].end <= cur_start
             \/ mem_regions'[r].end <= Section.start
      BY <2>2, <2>6 DEF Frontier
    <3> QED
      BY <2>1, <2>2, <2>3, <2>5, <2>8, <3>1
  <2>10. ASSUME NEW r \in 1 .. Len(mem_regions'),
                NEW e \in 1 .. Len(mem_entries), e > i
         PROVE  mem_regions'[r].end <= mem_entries[e].start
    <3>1. Entry.end <= mem_entries[e].start /\ mem_entries[e].start \in Nat
      BY <2>2, <2>10, EntryFacts, IntervalBounds DEF MapType
    <3>2. mem_regions'[r].end <= mem_entries[e].start
             \/ mem_regions'[r].end <= Section.start
      BY <2>1, <2>6, <2>10 DEF Frontier
    <3> QED
      BY <2>3, <2>4, <2>8, <3>1, <3>2
  <2>11. Frontier'
    BY <2>1, <2>9, <2>10 DEF Frontier
  <2> QED
    BY <2>6, <2>7, <2>11
<1>7. CASE EndSections
  BY <1>7 DEF EndSections, MapType, InEntry, Entry, EntryStart, Frontier,
              Ordered
<1>8. CASE AddRest
  <2>1. /\ pc = "rest" /\ pc' \in {"entry", "exit"} /\ i' = i + 1
        /\ \/ /\ cur_start < Entry.end
              /\ mem_regions' = Region(cur_start, Entry.end)
           \/ mem_regions' = mem_regions
        /\ UNCHANGED <<mem_entries, elf_entries, j, cur_start>>
    BY <1>8 DEF AddRest, add_region
  <2>2. i <= Len(mem_entries) /\ cur_start \in Nat /\ InEntry
    BY <2>1 DEF MapType, InEntry
  <2>3. Entry.end \in Nat
    BY <2>2, EntryFacts DEF Interval
  <2>4. /\ mem_regions' \in Seq(RegionType) /\ Ordered'
        /\ \A r \in 1 .. Len(mem_regions') :
              \/ /\ r \in 1 .. Len(mem_regions)
                 /\ mem_regions'[r] = mem_regions[r]
              \/ mem_regions'[r].end <= Entry.end
    <3>1. CASE mem_regions' = Region(cur_start, Entry.end)
      BY <2>2, <2>3, <3>1, RegionAdded DEF Frontier
    <3>2. CASE mem_regions' = mem_regions
      BY <3>2 DEF MapType, Ordered
    <3> QED
      BY <2>1, <3>1, <3>2
  <2>5. MapType'
    <3>1. pc' \in {"entry", "before", "section", "rest", "exit"}
          /\ ~InEntry' /\ i' \in Nat \ {0}
      BY <2>1 DEF InEntry, MapType
    <3> QED
      BY <2>1, <2>4, <3>1 DEF MapType
  <2>6. ASSUME NEW r \in 1 .. Len(mem_regions'),
               NEW e \in 1 .. Len(mem_entries), e > i
        PROVE  mem_regions'[r].end <= mem_entries[e].start
    <3>1. Entry.end <= mem_entries[e].start /\ mem_entries[e].start \in Nat
      BY <2>2, <2>6, EntryFacts, IntervalBounds DEF MapType
    <3>2. mem_regions'[r].end <= mem_entries[e].start
             \/ mem_regions'[r].end <= Entry.end
      BY <2>1, <2>4, <2>6 DEF Frontier
    <3>3. mem_regions'[r].end \in Nat
      BY <2>4, RegionBounds
    <3> QED
      BY <2>3, <3>1, <3>2, <3>3
  <2>7. \A e \in 1 .. Len(mem_entries) :
           e > i + 1 \/ e = i + 1 => e > i
    BY DEF MapType
  <2>8. ~InEntry'
    BY <2>1 DEF InEntry
  <2>9. Frontier'
    BY <2>1, <2>6, <2>7, <2>8 DEF Frontier
  <2> QED
    BY <2>4, <2>5, <2>9
<1>9. CASE UNCHANGED mapVars
  BY <1>9 DEF mapVars, MapType, InEntry, Entry, EntryStart, Frontier, Ordered
<1> QED
  BY <1>2, <1>3, <1>4, <1>5, <1>6, <1>7, <1>8, <1>9 DEF MapNext

\* build_mem_regions starts in front of the first entry, without regions.
LEMMA MapStart ==
    ASSUME MapInit
    PROVE  MapInv
<1>1. MapType
  <2>1. /\ mem_entries \in Seq(Interval) /\ elf_entries \in Seq(Interval)
        /\ \A e \in 1 .. Len(mem_entries) :
              mem_entries[e].start < mem_entries[e].end
        /\ Disjoint(mem_entries)
        /\ \A k \in 1 .. Len(elf_entries) :
              elf_entries[k].start <= elf_entries[k].end
        /\ Sorted(elf_entries)
    BY MemoryMapAssumption DEF MapInit, Interval
  <2>2. <<>> \in Seq(RegionType)
    OBVIOUS
  <2> QED
    BY <2>1, <2>2 DEF MapInit, MapType, InEntry
<1>2. mem_regions = <<>> /\ Len(mem_regions) = 0 /\ pc = "entry"
  BY DEF MapInit
<1>3. Frontier /\ Ordered
  BY <1>2 DEF Frontier, Ordered, Disjoint, InEntry
<1> QED
  BY <1>1, <1>3 DEF MapInv

\* build_mem_regions: at every moment the regions are aligned, not empty and
\* in address order without overlap, for every memory map and every table of
\* sections that come in address order.
THEOREM RegionsOrdered == MapSpec => []Ordered
<1>1. MapInit => MapInv
  BY MapStart
<1>2. MapInv /\ [MapNext]_mapVars => MapInv'
  BY MapStep
<1>3. MapInv => Ordered
  BY DEF MapInv
<1> QED
  BY <1>1, <1>2, <1>3, PTL DEF MapSpec

\* No section reaches into page p, and entry e holds all of it.
Clear(p) ==
    /\ p > 0
    /\ \A k \in 1 .. Len(elf_entries) :
          elf_entries[k].end <= p * P \/ p * P + P <= elf_entries[k].start

Within(p, e) == /\ mem_entries[e].type = 1
                /\ mem_entries[e].start <= p * P
                /\ p * P + P <= mem_entries[e].end

Earlier(p) == \E e \in 1 .. Len(mem_entries) : e < i /\ Within(p, e)

\* The pages that are to be in a region by now.
Done(p) ==
    /\ Clear(p)
    /\ \/ Earlier(p)
       \/ InEntry /\ Within(p, i) /\ p * P + P <= cur_start

\* The sections already passed end before what is left to look at.
Behind ==
    \A k \in 1 .. Len(elf_entries) : k < j =>
       /\ InEntry => elf_entries[k].end <= cur_start
       /\ \A e \in 1 .. Len(mem_entries) :
             e > i \/ (pc = "entry" /\ e = i)
                => elf_entries[k].end <= mem_entries[e].start

\* The free memory of an entry goes on at its start or behind a section.
Position ==
    /\ pc = "before" => cur_start = EntryStart
    /\ InEntry => /\ Entry.type = 1
                  /\ \/ cur_start = EntryStart
                     \/ \E k \in 1 .. Len(elf_entries) :
                           cur_start = elf_entries[k].end
    /\ pc = "rest" => \/ cur_start >= Entry.end
                      \/ j > Len(elf_entries)
                      \/ Section.start >= Entry.end

NullEmpty == \A k \in 1 .. Len(elf_entries) :
                elf_entries[k].type = 0 => elf_entries[k].end = 0

UsableInv == /\ NullEmpty
             /\ pc # "exit" => /\ Behind /\ Position
                               /\ \A p \in Nat : InRegion(p) <=> Done(p)

\* A page with no byte of the kernel lies on one side of cur_start ...
LEMMA PageOnOneSide ==
    ASSUME MapInv, Position, InEntry, NEW p \in Nat, Clear(p), Within(p, i)
    PROVE  p * P + P <= cur_start \/ cur_start <= p * P
<1>1. P \in Nat \ {0}
  BY MemoryMapAssumption DEF P
<1>2. PICK x \in Nat : x = p * P
  BY <1>1, MultipleIsNat
<1>3. cur_start \in Nat /\ i <= Len(mem_entries) /\ MapType
  BY DEF MapInv, MapType
<1>4. CASE cur_start = EntryStart
  <2>1. x > 0
    <3>1. p >= 1
      BY DEF Clear
    <3> HIDE DEF P
    <3> QED
      BY <1>1, <1>2, <3>1
  <2>2. Entry.start <= x /\ Entry.start \in Nat
    BY <1>2, <1>3, EntryFacts DEF Within, Entry, Interval
  <2> QED
    BY <1>2, <1>4, <2>1, <2>2 DEF EntryStart
<1>5. ASSUME NEW k \in 1 .. Len(elf_entries), cur_start = elf_entries[k].end
      PROVE  p * P + P <= cur_start \/ cur_start <= p * P
  <2>1. x + P <= elf_entries[k].start \/ elf_entries[k].end <= x
    BY <1>2 DEF Clear
  <2>2. /\ elf_entries[k].start \in Nat
        /\ elf_entries[k].start <= elf_entries[k].end
    BY <1>3, IntervalBounds DEF MapType
  <2> HIDE DEF P
  <2> QED
    BY <1>1, <1>2, <1>3, <1>5, <2>1, <2>2
<1> QED
  BY <1>4, <1>5 DEF Position

\* ... and a page between cur_start and the next section has none.
LEMMA GapIsClear ==
    ASSUME MapInv, Behind, Position, InEntry, NEW p \in Nat, NEW y \in Nat,
           cur_start <= p * P, p * P + P <= y, y <= Entry.end,
           \A k \in 1 .. Len(elf_entries) : k >= j => y <= elf_entries[k].start
    PROVE  Clear(p) /\ Within(p, i)
<1>1. P \in Nat \ {0}
  BY MemoryMapAssumption DEF P
<1>2. PICK x \in Nat : x = p * P
  BY <1>1, MultipleIsNat
<1>3. /\ cur_start \in Nat /\ i <= Len(mem_entries) /\ MapType
      /\ EntryStart <= cur_start /\ j \in Nat
  BY DEF MapInv, MapType
<1>4. /\ Entry.start \in Nat /\ Entry.end \in Nat
      /\ EntryStart \in Nat \ {0} /\ Entry.start <= EntryStart
  BY <1>3, EntryFacts DEF Interval
<1>5. p > 0
  <2>1. x >= 1
    BY <1>2, <1>3, <1>4
  <2>2. 0 * P = 0
    BY <1>1
  <2> QED
    BY <1>2, <2>1, <2>2
<1>6. ASSUME NEW k \in 1 .. Len(elf_entries)
      PROVE  elf_entries[k].end <= x \/ x + P <= elf_entries[k].start
  <2>1. elf_entries[k].start \in Nat /\ elf_entries[k].end \in Nat
    BY <1>3, IntervalBounds DEF MapType
  <2>2. CASE k < j
    <3>1. elf_entries[k].end <= cur_start
      BY <2>2 DEF Behind
    <3> QED
      BY <1>2, <1>3, <2>1, <3>1
  <2>3. CASE k >= j
    <3>1. y <= elf_entries[k].start /\ x + P <= y
      BY <1>2, <2>3
    <3> HIDE DEF P
    <3> QED
      BY <1>1, <2>1, <3>1
  <2> QED
    BY <1>3, <2>2, <2>3
<1>7. Entry.start <= x /\ x + P <= Entry.end /\ Entry.type = 1
  <2>1. x + P <= y
    BY <1>2
  <2> HIDE DEF P
  <2> QED
    BY <1>1, <1>2, <1>3, <1>4, <2>1 DEF Position
<1> QED
  BY <1>2, <1>5, <1>6, <1>7 DEF Clear, Within, Entry

\* SplitAtSection: the pages that are done when it has passed the section.
LEMMA SectionPassed ==
    ASSUME MapInv, Behind, Position, pc = "section", Inside, NEW p \in Nat
    PROVE  (Clear(p) /\ Within(p, i) /\ p * P + P <= NextStart)
              <=> \/ Clear(p) /\ Within(p, i) /\ p * P + P <= cur_start
                  \/ cur_start <= p * P /\ p * P + P <= Section.start
<1>1. P \in Nat \ {0}
  BY MemoryMapAssumption DEF P
<1>2. PICK x \in Nat : x = p * P
  BY <1>1, MultipleIsNat
<1>3. /\ cur_start \in Nat /\ InEntry /\ MapType /\ i <= Len(mem_entries)
  BY DEF MapInv, MapType, InEntry
<1>4. /\ j \in 1 .. Len(elf_entries) /\ Section = elf_entries[j]
      /\ Section.start \in Nat /\ Section.end \in Nat
      /\ Section.start <= Section.end /\ Section.start < Entry.end
      /\ \A k \in 1 .. Len(elf_entries) :
            k >= j => Section.start <= elf_entries[k].start
  BY <1>3, SectionFacts DEF Inside, Section
<1>5. NextStart = IF cur_start > Section.end THEN cur_start ELSE Section.end
  BY DEF NextStart, Larger
<1>6. Entry.end \in Nat
  BY <1>3, EntryFacts DEF Interval
<1>7. ASSUME Clear(p), Within(p, i)
      PROVE  /\ x + P <= cur_start \/ cur_start <= x
             /\ Section.end <= x \/ x + P <= Section.start
  BY <1>2, <1>3, <1>4, <1>7, PageOnOneSide DEF Clear
<1>8. ASSUME cur_start <= x, x + P <= Section.start
      PROVE  Clear(p) /\ Within(p, i)
  BY <1>2, <1>3, <1>4, <1>6, <1>8, GapIsClear
<1> HIDE DEF P
<1>9. ASSUME Clear(p), Within(p, i), x + P <= NextStart
      PROVE  \/ x + P <= cur_start
             \/ cur_start <= x /\ x + P <= Section.start
  BY <1>1, <1>3, <1>4, <1>5, <1>7, <1>9
<1>10. x + P <= cur_start \/ x + P <= Section.start => x + P <= NextStart
  BY <1>1, <1>3, <1>4, <1>5
<1> QED
  BY <1>2, <1>8, <1>9, <1>10

\* AddRest: the pages of an entry that are done when it is left.
LEMMA EntryPassed ==
    ASSUME MapInv, Behind, Position, pc = "rest", NEW p \in Nat
    PROVE  (Clear(p) /\ Within(p, i))
              <=> \/ Clear(p) /\ Within(p, i) /\ p * P + P <= cur_start
                  \/ cur_start <= p * P /\ p * P + P <= Entry.end
<1>1. P \in Nat \ {0}
  BY MemoryMapAssumption DEF P
<1>2. PICK x \in Nat : x = p * P
  BY <1>1, MultipleIsNat
<1>3. /\ cur_start \in Nat /\ InEntry /\ MapType /\ i <= Len(mem_entries)
  BY DEF MapInv, MapType, InEntry
<1>4. Entry.end \in Nat /\ (Within(p, i) => x + P <= Entry.end)
  BY <1>2, <1>3, EntryFacts DEF Interval, Within, Entry
<1>5. ASSUME Clear(p), Within(p, i)
      PROVE  x + P <= cur_start \/ cur_start <= x
  BY <1>2, <1>3, <1>5, PageOnOneSide
<1>6. ASSUME cur_start <= x, x + P <= Entry.end
      PROVE  Clear(p) /\ Within(p, i)
  <2>1. ~(cur_start >= Entry.end)
    <3> HIDE DEF P
    <3> QED
      BY <1>1, <1>3, <1>4, <1>6
  <2>2. ASSUME NEW k \in 1 .. Len(elf_entries), k >= j
        PROVE  Entry.end <= elf_entries[k].start
    <3>1. j <= Len(elf_entries)
      BY <2>2 DEF MapInv, MapType
    <3>2. Section.start >= Entry.end
      BY <1>3, <2>1, <3>1, SectionFacts DEF Position
    <3>3. Section.start <= elf_entries[k].start /\ Section.start \in Nat
      BY <1>3, <2>2, <3>1, SectionFacts
    <3>4. elf_entries[k].start \in Nat
      BY <1>3, IntervalBounds DEF MapType
    <3> QED
      BY <1>4, <3>2, <3>3, <3>4
  <2> QED
    BY <1>2, <1>3, <1>4, <1>6, <2>2, GapIsClear
<1> QED
  BY <1>2, <1>4, <1>5, <1>6

\* Leaving the entry under consideration.
LEMMA EarlierGrows ==
    ASSUME MapType, i <= Len(mem_entries), i' = i + 1,
           mem_entries' = mem_entries, NEW p \in Nat
    PROVE  Earlier(p)' <=> Earlier(p) \/ Within(p, i)
<1>1. i \in 1 .. Len(mem_entries)
  BY DEF MapType
<1>2. \A e \in 1 .. Len(mem_entries) : e < i' <=> e < i \/ e = i
  BY <1>1 DEF MapType
<1> QED
  BY <1>1, <1>2 DEF Earlier, Within

\* Each step of build_mem_regions keeps the regions in line with the pages.
LEMMA UsableStep ==
    ASSUME MapInv, UsableInv, [MapNext]_mapVars
    PROVE  UsableInv'
<1>1. UNCHANGED <<mem_entries, elf_entries>>
  BY DEF MapNext, mapVars, SkipReserved, TakeEntry, SkipSection, EndSkip,
         SplitAtSection, EndSections, AddRest
<1>2. NullEmpty'
  BY <1>1 DEF UsableInv, NullEmpty
<1>3. \A p \in Nat : Clear(p)' <=> Clear(p)
  BY <1>1 DEF Clear
<1>4. MapType
  BY DEF MapInv
<1> SUFFICES ASSUME pc' # "exit"
             PROVE  /\ Behind' /\ Position'
                    /\ \A p \in Nat : InRegion(p)' <=> Done(p)'
  BY <1>2 DEF UsableInv
<1>5. CASE SkipReserved
  <2>1. /\ pc = "entry" /\ i <= Len(mem_entries) /\ Entry.type # 1
        /\ i' = i + 1 /\ UNCHANGED <<j, cur_start, mem_regions, pc>>
    BY <1>5 DEF SkipReserved
  <2>2. Behind /\ Position /\ ~InEntry /\ ~InEntry'
    BY <2>1 DEF UsableInv, InEntry
  <2>3. \A e \in 1 .. Len(mem_entries) : e > i + 1 \/ e = i + 1 => e > i
    BY <1>4 DEF MapType
  <2>4. Behind'
    BY <1>1, <2>1, <2>2, <2>3 DEF Behind
  <2>5. Position'
    BY <1>1, <2>1, <2>2 DEF Position
  <2>6. ASSUME NEW p \in Nat PROVE InRegion(p)' <=> Done(p)'
    <3>1. ~Within(p, i)
      BY <2>1 DEF Within, Entry
    <3>2. Earlier(p)' <=> Earlier(p)
      BY <1>1, <1>4, <2>1, <3>1, EarlierGrows
    <3>3. InRegion(p)' <=> InRegion(p)
      BY <2>1 DEF InRegion
    <3>4. InRegion(p) <=> Done(p)
      BY <2>1 DEF UsableInv
    <3> QED
      BY <1>3, <2>2, <3>2, <3>3, <3>4 DEF Done
  <2> QED
    BY <2>4, <2>5, <2>6
<1>6. CASE TakeEntry
  <2>1. /\ pc = "entry" /\ i <= Len(mem_entries) /\ Entry.type = 1
        /\ cur_start' = EntryStart /\ pc' = "before"
        /\ UNCHANGED <<i, j, mem_regions>>
    BY <1>6 DEF TakeEntry
  <2>2. Behind /\ Position /\ ~InEntry /\ InEntry'
    BY <2>1 DEF UsableInv, InEntry
  <2>3. /\ Entry.start \in Nat /\ EntryStart \in Nat
        /\ Entry.start <= EntryStart /\ i \in 1 .. Len(mem_entries)
    BY <1>4, <2>1, EntryFacts DEF Interval, MapType
  <2>4. ASSUME NEW k \in 1 .. Len(elf_entries), k < j
        PROVE  elf_entries[k].end <= EntryStart
    <3>1. elf_entries[k].end <= Entry.start /\ elf_entries[k].end \in Nat
      BY <1>4, <2>1, <2>2, <2>3, <2>4, IntervalBounds
      DEF Behind, Entry, MapType
    <3> QED
      BY <2>3, <3>1
  <2>5. Behind'
    BY <1>1, <2>1, <2>2, <2>4 DEF Behind
  <2>6. Position'
    BY <1>1, <2>1 DEF Position, Entry, EntryStart
  <2>7. ASSUME NEW p \in Nat PROVE InRegion(p)' <=> Done(p)'
    <3>1. ASSUME Clear(p), Within(p, i) PROVE ~(p * P + P <= EntryStart)
      <4>1. P \in Nat \ {0}
        BY MemoryMapAssumption DEF P
      <4>2. PICK x \in Nat : x = p * P
        BY <4>1, MultipleIsNat
      <4>3. Entry.start <= x /\ p >= 1
        BY <3>1, <4>2 DEF Within, Entry, Clear
      <4> HIDE DEF P
      <4>4. x >= 1
        BY <4>1, <4>2, <4>3
      <4>5. ~(x + P <= EntryStart)
        BY <2>3, <4>1, <4>3, <4>4 DEF EntryStart
      <4> QED
        BY <4>2, <4>5
    <3>2. Earlier(p)' <=> Earlier(p)
      BY <1>1, <2>1 DEF Earlier, Within
    <3>3. InRegion(p)' <=> InRegion(p)
      BY <2>1 DEF InRegion
    <3>4. InRegion(p) <=> Done(p)
      BY <2>1 DEF UsableInv
    <3>5. Within(p, i)' <=> Within(p, i)
      BY <1>1, <2>1 DEF Within
    <3> QED
      BY <1>3, <2>1, <2>2, <3>1, <3>2, <3>3, <3>4, <3>5 DEF Done
  <2> QED
    BY <2>5, <2>6, <2>7
<1>7. ASSUME InEntry, InEntry', UNCHANGED <<i, cur_start, mem_regions>>
      PROVE  \A p \in Nat : InRegion(p)' <=> Done(p)'
  <2>1. \A p \in Nat : InRegion(p) <=> Done(p)
    BY <1>7 DEF UsableInv, InEntry
  <2>2. \A p \in Nat : Done(p)' <=> Done(p)
    BY <1>1, <1>3, <1>7 DEF Done, Earlier, Within
  <2> QED
    BY <1>7, <2>1, <2>2 DEF InRegion
<1>8. CASE SkipSection
  <2>1. /\ pc = "before" /\ Before /\ j' = j + 1
        /\ UNCHANGED <<i, cur_start, mem_regions, pc>>
    BY <1>8 DEF SkipSection
  <2>2. Behind /\ Position /\ InEntry /\ InEntry' /\ cur_start = EntryStart
    BY <2>1 DEF UsableInv, InEntry, Position
  <2>3. /\ i <= Len(mem_entries) /\ j \in 1 .. Len(elf_entries)
        /\ Section = elf_entries[j]
    BY <1>4, <2>1, <2>2 DEF MapType, Before, Section
  <2>4. Section.end <= EntryStart
    BY <1>4, <2>1, <2>3, EntryFacts DEF Before, UsableInv, NullEmpty
  <2>5. ASSUME NEW e \in 1 .. Len(mem_entries), e > i
        PROVE  Section.end <= mem_entries[e].start
    <3>1. /\ EntryStart <= Entry.end /\ Entry.end <= mem_entries[e].start
          /\ EntryStart \in Nat /\ Entry.end \in Nat
          /\ mem_entries[e].start \in Nat
      BY <1>4, <2>3, <2>5, EntryFacts, IntervalBounds DEF MapType, Interval
    <3>2. Section.end \in Nat
      BY <1>4, <2>3, SectionFacts
    <3> QED
      BY <2>4, <3>1, <3>2
  <2>6. \A k \in 1 .. Len(elf_entries) : k < j + 1 => k < j \/ k = j
    BY <1>4 DEF MapType
  <2>7. Behind'
    BY <1>1, <2>1, <2>2, <2>3, <2>4, <2>5, <2>6 DEF Behind
  <2>8. Position'
    BY <1>1, <2>1, <2>2 DEF Position, Entry, EntryStart
  <2> QED
    BY <1>7, <2>1, <2>2, <2>7, <2>8
<1>9. CASE EndSkip
  <2>1. /\ pc = "before" /\ pc' = "section"
        /\ UNCHANGED <<i, j, cur_start, mem_regions>>
    BY <1>9 DEF EndSkip
  <2>2. Behind /\ Position /\ InEntry /\ InEntry'
    BY <2>1 DEF UsableInv, InEntry
  <2>3. Behind' /\ Position'
    BY <1>1, <2>1, <2>2 DEF Behind, Position, Entry, EntryStart
  <2> QED
    BY <1>7, <2>1, <2>2, <2>3
<1>10. CASE EndSections
  <2>1. /\ pc = "section" /\ pc' = "rest" /\ ~Inside
        /\ UNCHANGED <<i, j, cur_start, mem_regions>>
    BY <1>10 DEF EndSections
  <2>2. Behind /\ Position /\ InEntry /\ InEntry'
    BY <2>1 DEF UsableInv, InEntry
  <2>3. j > Len(elf_entries) \/ Section.start >= Entry.end
    <3>1. CASE j <= Len(elf_entries)
      <4>1. i <= Len(mem_entries)
        BY <1>4, <2>2 DEF MapType
      <4>2. Section.start \in Nat /\ Entry.end \in Nat
        BY <1>4, <3>1, <4>1, SectionFacts, EntryFacts DEF Interval
      <4> QED
        BY <2>1, <3>1, <4>2 DEF Inside
    <3>2. CASE ~(j <= Len(elf_entries))
      BY <1>4, <3>2 DEF MapType
    <3> QED
      BY <3>1, <3>2
  <2>4. Behind' /\ Position'
    BY <1>1, <2>1, <2>2, <2>3
    DEF Behind, Position, Entry, EntryStart, Section
  <2> QED
    BY <1>7, <2>1, <2>2, <2>4
<1>11. CASE SplitAtSection
  <2>1. /\ pc = "section" /\ Inside /\ cur_start' = NextStart
        /\ pc' = IF NextStart >= Entry.end THEN "rest" ELSE "section"
        /\ j' = IF NextStart >= Entry.end THEN j ELSE j + 1
        /\ \/ /\ Section.start > cur_start
              /\ mem_regions' = Region(cur_start,
                                       Smaller(Section.start, Entry.end))
           \/ Section.start <= cur_start /\ mem_regions' = mem_regions
        /\ i' = i
    BY <1>11 DEF SplitAtSection, add_region
  <2>2. Behind /\ Position /\ InEntry /\ InEntry'
    BY <2>1 DEF UsableInv, InEntry
  <2>3. /\ i <= Len(mem_entries) /\ cur_start \in Nat /\ j \in Nat
    BY <1>4, <2>2 DEF MapType
  <2>4. /\ j \in 1 .. Len(elf_entries) /\ Section = elf_entries[j]
        /\ Section.start \in Nat /\ Section.end \in Nat
        /\ Section.start <= Section.end /\ Section.start < Entry.end
    BY <1>4, <2>1, SectionFacts DEF Inside, Section
  <2>5. /\ Entry.end \in Nat
        /\ \A e \in 1 .. Len(mem_entries) :
              e > i => Entry.end <= mem_entries[e].start
    BY <1>4, <2>3, EntryFacts DEF Interval
  <2>6. /\ Smaller(Section.start, Entry.end) = Section.start
        /\ NextStart \in Nat /\ cur_start <= NextStart
        /\ Section.end <= NextStart
        /\ NextStart = cur_start \/ NextStart = Section.end
    BY <2>3, <2>4, <2>5 DEF Smaller, NextStart, Larger
  <2>7. Behind'
    <3> SUFFICES ASSUME NEW k \in 1 .. Len(elf_entries), k < j'
                 PROVE  /\ elf_entries[k].end <= NextStart
                        /\ \A e \in 1 .. Len(mem_entries) :
                              e > i => elf_entries[k].end
                                          <= mem_entries[e].start
      BY <1>1, <2>1, <2>2 DEF Behind
    <3>1. elf_entries[k].end \in Nat
      BY <1>4, IntervalBounds DEF MapType
    <3>2. CASE k < j
      <4>1. elf_entries[k].end <= cur_start
        BY <2>2, <3>2 DEF Behind
      <4> QED
        BY <2>2, <2>3, <2>6, <3>1, <3>2, <4>1 DEF Behind
    <3>3. CASE ~(k < j)
      <4>1. k = j /\ ~(NextStart >= Entry.end)
        BY <2>1, <2>3, <3>3
      <4>2. ASSUME NEW e \in 1 .. Len(mem_entries), e > i
            PROVE  Section.end <= mem_entries[e].start
        <5>1. mem_entries[e].start \in Nat
          BY <1>4, IntervalBounds DEF MapType
        <5>2. Entry.end <= mem_entries[e].start
          BY <2>5, <4>2
        <5> QED
          BY <2>4, <2>5, <2>6, <4>1, <5>1, <5>2
      <4> QED
        BY <2>4, <2>6, <4>1, <4>2
    <3> QED
      BY <3>2, <3>3
  <2>8. Position'
    <3>1. Entry' = Entry /\ EntryStart' = EntryStart
      BY <1>1, <2>1 DEF Entry, EntryStart
    <3>2. \/ NextStart = EntryStart
          \/ \E k \in 1 .. Len(elf_entries) : NextStart = elf_entries[k].end
      BY <2>2, <2>4, <2>6 DEF Position
    <3>3. Entry.type = 1
      BY <2>2 DEF Position
    <3> QED
      BY <1>1, <2>1, <3>1, <3>2, <3>3 DEF Position
  <2>9. ASSUME NEW p \in Nat PROVE InRegion(p)' <=> Done(p)'
    <3>1. InRegion(p) <=> Done(p)
      BY <2>1 DEF UsableInv
    <3>2. (Clear(p) /\ Within(p, i) /\ p * P + P <= NextStart)
             <=> \/ Clear(p) /\ Within(p, i) /\ p * P + P <= cur_start
                 \/ cur_start <= p * P /\ p * P + P <= Section.start
      BY <2>1, <2>2, SectionPassed
    <3>3. InRegion(p)' <=> \/ InRegion(p)
                           \/ cur_start <= p * P /\ p * P + P <= Section.start
      <4>1. CASE Section.start > cur_start
        <5>1. mem_regions' = Region(cur_start, Section.start)
          BY <2>1, <2>3, <2>4, <2>6, <4>1
        <5>2. \A r \in 1 .. Len(mem_regions) :
                 mem_regions[r].end <= cur_start
          BY <2>2 DEF MapInv, Frontier
        <5>3. Ordered
          BY DEF MapInv
        <5> QED
          BY <1>4, <2>3, <2>4, <5>1, <5>2, <5>3, RegionAdded
      <4>2. CASE ~(Section.start > cur_start)
        <5>1. mem_regions' = mem_regions
          BY <2>1, <4>2
        <5>2. ~(cur_start <= p * P /\ p * P + P <= Section.start)
          <6>1. P \in Nat \ {0}
            BY MemoryMapAssumption DEF P
          <6>2. p * P \in Nat
            BY <6>1, MultipleIsNat
          <6> HIDE DEF P
          <6> QED
            BY <2>3, <2>4, <4>2, <6>1, <6>2
        <5> QED
          BY <5>1, <5>2 DEF InRegion
      <4> QED
        BY <4>1, <4>2
    <3>4. Done(p)' <=> Clear(p) /\ (Earlier(p) \/
                           (Within(p, i) /\ p * P + P <= NextStart))
      BY <1>1, <1>3, <2>1, <2>2 DEF Done, Earlier, Within
    <3> QED
      BY <2>2, <3>1, <3>2, <3>3, <3>4 DEF Done
  <2> QED
    BY <2>7, <2>8, <2>9
<1>12. CASE AddRest
  <2>1. /\ pc = "rest" /\ pc' = "entry" /\ i' = i + 1
        /\ \/ /\ cur_start < Entry.end
              /\ mem_regions' = Region(cur_start, Entry.end)
           \/ cur_start >= Entry.end /\ mem_regions' = mem_regions
        /\ UNCHANGED <<j, cur_start>>
    BY <1>12 DEF AddRest, add_region
  <2>2. Behind /\ Position /\ InEntry /\ ~InEntry'
    BY <2>1 DEF UsableInv, InEntry
  <2>3. i <= Len(mem_entries) /\ cur_start \in Nat
    BY <1>4, <2>2 DEF MapType
  <2>4. Entry.end \in Nat
    BY <1>4, <2>3, EntryFacts DEF Interval
  <2>5. \A e \in 1 .. Len(mem_entries) : e > i + 1 \/ e = i + 1 => e > i
    BY <1>4 DEF MapType
  <2>6. Behind'
    BY <1>1, <2>1, <2>2, <2>5 DEF Behind
  <2>7. Position'
    BY <2>1, <2>2 DEF Position
  <2>8. ASSUME NEW p \in Nat PROVE InRegion(p)' <=> Done(p)'
    <3>1. InRegion(p) <=> Done(p)
      BY <2>1 DEF UsableInv
    <3>2. (Clear(p) /\ Within(p, i))
             <=> \/ Clear(p) /\ Within(p, i) /\ p * P + P <= cur_start
                 \/ cur_start <= p * P /\ p * P + P <= Entry.end
      BY <2>1, <2>2, EntryPassed
    <3>3. InRegion(p)' <=> \/ InRegion(p)
                           \/ cur_start <= p * P /\ p * P + P <= Entry.end
      <4>1. CASE cur_start < Entry.end
        <5>1. mem_regions' = Region(cur_start, Entry.end)
          BY <2>1, <2>3, <2>4, <4>1
        <5>2. \A r \in 1 .. Len(mem_regions) :
                 mem_regions[r].end <= cur_start
          BY <2>2 DEF MapInv, Frontier
        <5>3. Ordered
          BY DEF MapInv
        <5> QED
          BY <1>4, <2>3, <2>4, <5>1, <5>2, <5>3, RegionAdded
      <4>2. CASE ~(cur_start < Entry.end)
        <5>1. mem_regions' = mem_regions
          BY <2>1, <4>2
        <5>2. ~(cur_start <= p * P /\ p * P + P <= Entry.end)
          <6>1. P \in Nat \ {0}
            BY MemoryMapAssumption DEF P
          <6>2. p * P \in Nat
            BY <6>1, MultipleIsNat
          <6> HIDE DEF P
          <6> QED
            BY <2>3, <2>4, <4>2, <6>1, <6>2
        <5> QED
          BY <5>1, <5>2 DEF InRegion
      <4> QED
        BY <4>1, <4>2
    <3>4. Earlier(p)' <=> Earlier(p) \/ Within(p, i)
      BY <1>1, <1>4, <2>1, <2>3, EarlierGrows
    <3> QED
      BY <1>3, <2>2, <3>1, <3>2, <3>3, <3>4 DEF Done
  <2> QED
    BY <2>6, <2>7, <2>8
<1>13. CASE UNCHANGED mapVars
  BY <1>1, <1>3, <1>13
  DEF mapVars, UsableInv, Behind, Position, InEntry, Entry, EntryStart,
      Section, Done, Earlier, Within, InRegion
<1> QED
  BY <1>5, <1>6, <1>8, <1>9, <1>10, <1>11, <1>12, <1>13 DEF MapNext

\* build_mem_regions: when it is done, its regions are the usable pages, for
\* every memory map, page size and section table whose null sections are
\* empty.
THEOREM RegionsAreUsable ==
    ASSUME NullSections
    PROVE  MapSpec => []ExactlyUsable
<1>1. MapInit => MapInv /\ UsableInv
  <2> SUFFICES ASSUME MapInit PROVE UsableInv
    BY MapStart
  <2>1. NullEmpty
    BY NullSections DEF NullSections, NullEmpty, MapInit
  <2>2. /\ mem_regions = <<>> /\ Len(mem_regions) = 0 /\ pc = "entry"
        /\ i = 1 /\ j = 1 /\ MapType
    BY MapStart DEF MapInit, MapInv
  <2>3. \A k \in 1 .. Len(elf_entries) : ~(k < 1)
    BY <2>2 DEF MapType
  <2>4. \A e \in 1 .. Len(mem_entries) : ~(e < 1)
    BY <2>2 DEF MapType
  <2>5. Behind /\ Position
    BY <2>2, <2>3 DEF Behind, Position, InEntry
  <2>6. \A p \in Nat : ~InRegion(p) /\ ~Done(p)
    BY <2>2, <2>4 DEF InRegion, Done, Earlier, InEntry
  <2> QED
    BY <2>1, <2>5, <2>6 DEF UsableInv
<1>2. MapInv /\ UsableInv /\ [MapNext]_mapVars => (MapInv /\ UsableInv)'
  BY MapStep, UsableStep
<1>3. MapInv /\ UsableInv => ExactlyUsable
  <2> SUFFICES ASSUME MapInv, UsableInv, Finished,
                      NEW p \in 0 .. LastPage
               PROVE  InRegion(p) <=> Usable(p)
    BY DEF ExactlyUsable
  <2>1. MapType /\ pc = "entry" /\ ~InEntry
    BY DEF MapInv, Finished, InEntry
  <2>2. p \in Nat
    OBVIOUS
  <2>3. InRegion(p) <=> Done(p)
    BY <2>1, <2>2 DEF UsableInv
  <2>4. \A e \in 1 .. Len(mem_entries) : e < i
    BY <2>1 DEF Finished, MapType
  <2>5. Done(p) <=> Usable(p)
    BY <2>1, <2>4 DEF Done, Earlier, Clear, Within, Usable, P
  <2> QED
    BY <2>3, <2>5
<1> QED
  BY <1>1, <1>2, <1>3, PTL DEF MapSpec

-----------------------------------------------------------------------------
(* Quotients and least numbers.                                            *)

\* A quotient is below n when the number is below n times d.
LEMMA DivBounds ==
    ASSUME NEW d \in Nat \ {0}, NEW x \in Nat, NEW n \in Nat
    PROVE  /\ x < n * d => x \div d < n
           /\ n * d <= x => n <= x \div d
           /\ x \div d \in Nat
<1>1. PICK k \in Nat, r \in 0 .. d - 1 :
         x = k * d + r /\ x % d = r /\ x \div d = k
  BY Quotient
<1>2. PICK m \in Nat, y \in Nat : m = k * d /\ y = n * d
  BY MultipleIsNat
<1>3. /\ k < n \/ k = n \/ n < k
      /\ n < k => y + d <= m
      /\ k < n => m + d <= y
      /\ n = k => m = y
  BY <1>2, MultiplesApart
<1>4. x = m + r /\ x \div d = k
  BY <1>1, <1>2
<1>5. (x < y => k < n) /\ (y <= x => n <= k)
  BY <1>2, <1>3, <1>4
<1> QED
  BY <1>2, <1>4, <1>5

\* A set of numbers has a least one.
LEMMA LeastNat ==
    ASSUME NEW S \in SUBSET Nat, S # {}
    PROVE  \E m \in S : \A n \in S : m <= n
<1> DEFINE R == OpToRel(<, Nat)
<1>1. IsWellFoundedOn(R, Nat)
  BY NatLessThanWellFounded, Zenon
<1>2. \A x, y \in Nat : <<x, y>> \in R <=> x < y
  BY DEF OpToRel
<1> HIDE DEF R
<1>3. PICK m \in S : \A n \in S : ~(<<n, m>> \in R)
  BY <1>1, WFMin
<1>4. \A n \in S : n \in Nat /\ ~(n < m)
  BY <1>2, <1>3
<1> QED
  BY <1>4

-----------------------------------------------------------------------------
(* kmalloc and kfree.                                                      *)

\* A block of a pool has room for a header and a page is made of them.
LEMMA PoolFacts ==
    ASSUME NEW p \in Pool
    PROVE  /\ block_sizes[p] \in Nat \ {0} /\ HEADER < block_sizes[p]
           /\ \E m \in Nat \ {0} : PAGE = m * block_sizes[p]
           /\ block_sizes[p] <= PAGE /\ p # 0 /\ p \in Nat
<1>1. /\ block_sizes[p] \in Nat \ {0} /\ HEADER < block_sizes[p]
      /\ PAGE % block_sizes[p] = 0 /\ PAGE \in Nat \ {0} /\ HEADER \in Nat
      /\ p # 0 /\ p \in Nat
  <2>1. p \in 1 .. Len(block_sizes) /\ block_sizes \in Seq(Nat \ {0})
    BY KmallocAssumption DEF Pool
  <2>2. block_sizes[p] \in Nat \ {0} /\ p # 0 /\ p \in Nat
    BY <2>1
  <2> QED
    BY <2>2, KmallocAssumption
<1>2. PICK d \in Nat \ {0} : d = block_sizes[p]
  BY <1>1
<1>3. PICK k \in Nat, r \in 0 .. d - 1 : PAGE = k * d + r /\ PAGE % d = r
  <2>1. PAGE \in Nat
    BY <1>1
  <2> QED
    BY <2>1, Quotient
<1>4. PAGE = k * d + 0
  BY <1>1, <1>2, <1>3
<1>5. PAGE = k * d /\ k # 0
  BY <1>1, <1>2, <1>4
<1>6. d <= PAGE
  BY <1>1, <1>2, <1>5
<1> QED
  BY <1>1, <1>2, <1>5, <1>6

\* The block of the pool that kmalloc picks holds the header and the request.
LEMMA PoolForFits ==
    ASSUME NEW size \in Nat, Fitting(size) # {}
    PROVE  /\ PoolFor(size) \in Pool
           /\ size + HEADER <= block_sizes[PoolFor(size)]
<1>1. Fitting(size) \in SUBSET Nat
  BY PoolFacts DEF Fitting
<1>2. \E p \in Fitting(size) : \A q \in Fitting(size) : p <= q
  BY <1>1, LeastNat
<1>3. PoolFor(size) \in Fitting(size)
  BY <1>2 DEF PoolFor
<1>4. /\ PoolFor(size) \in Pool
      /\ size <= block_sizes[PoolFor(size)] - HEADER
  BY <1>3 DEF Fitting, max_size
<1> QED
  BY <1>4, PoolFacts, KmallocAssumption

\* The blocks of a page are m, each d behind the one before.
Spaced(p, k, d, m) ==
    /\ \A q \in Nat : q < m => k + q * d \in Blocks(p, k)
    /\ \A a \in Blocks(p, k) : \E q \in Nat : q < m /\ a = k + q * d

\* Blocks cuts a page that way.
LEMMA BlockIndex ==
    ASSUME NEW p \in Pool, NEW k \in Nat, NEW d, d = block_sizes[p],
           NEW m \in Nat \ {0}, PAGE = m * d
    PROVE  Spaced(p, k, d, m)
<1> DEFINE B == Blocks(p, k)
<1>1. /\ d \in Nat \ {0} /\ d <= PAGE /\ PAGE \in Nat \ {0}
  BY PoolFacts, KmallocAssumption
<1>2. PAGE = m * d
  OBVIOUS
<1>3. B = {a \in k .. k + PAGE - 1 : (a - k) % d = 0}
  BY DEF Blocks
<1> HIDE DEF B
<1>4. \A q \in Nat : q < m => k + q * d \in B
  <2> SUFFICES ASSUME NEW q \in Nat, q < m PROVE k + q * d \in B
    OBVIOUS
  <2>1. PICK x \in Nat : x = q * d /\ x % d = 0
    BY <1>1, MultipleIsNat
  <2>2. x < PAGE
    BY <1>1, <1>2, <2>1, MultiplesApart
  <2>3. (k + x) - k = x /\ k + x \in k .. k + PAGE - 1
    BY <1>1, <2>1, <2>2
  <2> QED
    BY <1>3, <2>1, <2>3
<1>5. \A a \in B : \E q \in Nat : q < m /\ a = k + q * d
  <2> SUFFICES ASSUME NEW a \in B PROVE \E q \in Nat : q < m /\ a = k + q * d
    OBVIOUS
  <2>1. a \in k .. k + PAGE - 1 /\ (a - k) % d = 0
    BY <1>3
  <2>2. PICK x \in Nat : x = a - k /\ x < PAGE /\ a = k + x
    BY <1>1, <2>1
  <2>3. PICK q \in Nat, r \in 0 .. d - 1 : x = q * d + r /\ x % d = r
    BY <1>1, Quotient
  <2>4. PICK y \in Nat : y = q * d
    BY <1>1, MultipleIsNat
  <2>5. x = y
    BY <2>1, <2>2, <2>3, <2>4
  <2>6. q < m
    BY <1>1, <1>2, <2>2, <2>4, <2>5, MultiplesApart
  <2> QED
    BY <2>2, <2>4, <2>5, <2>6
<1> QED
  BY <1>4, <1>5 DEF B, Spaced

\* The blocks that pool_allocate_page cuts a page into lie side by side and
\* end where the page ends.
LEMMA BlocksOfPage ==
    ASSUME NEW p \in Pool, NEW k \in Nat
    PROVE  LET d == block_sizes[p]
               B == Blocks(p, k)
           IN  /\ k \in B /\ B \subseteq Nat
               /\ \A a \in B : k <= a /\ a + d <= k + PAGE
               /\ \A a, b \in B : a < b => a + d <= b
               /\ \A a \in B : a # k => a - d \in B
               /\ LastBlock(p, k) \in B
               /\ \A a \in B : a <= LastBlock(p, k)
               /\ \A a \in B : a # LastBlock(p, k) => a + d \in B
<1> DEFINE d == block_sizes[p]
           B == Blocks(p, k)
<1>1. /\ d \in Nat \ {0} /\ d <= PAGE /\ PAGE \in Nat \ {0}
  BY PoolFacts, KmallocAssumption
<1>2. PICK m \in Nat \ {0} : PAGE = m * d
  BY PoolFacts
<1>3. B = {a \in k .. k + PAGE - 1 : (a - k) % d = 0}
  BY DEF Blocks
<1> HIDE DEF d, B
<1>4. Spaced(p, k, d, m)
  BY <1>2, BlockIndex DEF d
<1>5. /\ \A q \in Nat : q < m => k + q * d \in B
      /\ \A a \in B : \E q \in Nat : q < m /\ a = k + q * d
  BY <1>4 DEF Spaced, B
<1>6. k \in B
  <2>1. k + 0 * d = k
    BY <1>1
  <2> QED
    BY <1>5, <2>1
<1>7. \A a \in B : a \in Nat /\ k <= a /\ a + d <= k + PAGE
  <2> SUFFICES ASSUME NEW a \in B
               PROVE  a \in Nat /\ k <= a /\ a + d <= k + PAGE
    OBVIOUS
  <2>1. PICK q \in Nat : q < m /\ a = k + q * d
    BY <1>5
  <2>2. PICK x \in Nat : x = q * d
    BY <1>1, MultipleIsNat
  <2>3. x + d <= PAGE
    BY <1>1, <1>2, <2>1, <2>2, MultiplesApart
  <2> QED
    BY <1>1, <2>1, <2>2, <2>3
<1>8. \A a, b \in B : a < b => a + d <= b
  <2> SUFFICES ASSUME NEW a \in B, NEW b \in B, a < b PROVE a + d <= b
    OBVIOUS
  <2>1. PICK q \in Nat : a = k + q * d
    BY <1>5
  <2>2. PICK r \in Nat : b = k + r * d
    BY <1>5
  <2>3. PICK x \in Nat, y \in Nat : x = q * d /\ y = r * d
    BY <1>1, MultipleIsNat
  <2>4. x < y
    BY <2>1, <2>2, <2>3
  <2>5. x + d <= y
    BY <1>1, <2>3, <2>4, MultiplesApart
  <2> QED
    BY <1>1, <2>1, <2>2, <2>3, <2>5
<1>9. \A a \in B : a # k => a - d \in B
  <2> SUFFICES ASSUME NEW a \in B, a # k PROVE a - d \in B
    OBVIOUS
  <2>1. PICK q \in Nat : q < m /\ a = k + q * d
    BY <1>5
  <2>2. q # 0
    BY <1>1, <2>1
  <2>3. PICK r \in Nat : q = r + 1
    BY <2>2
  <2>4. PICK x \in Nat : x = r * d /\ q * d = x + d
    BY <1>1, <2>3, MultipleIsNat
  <2>5. k + x \in B
    BY <1>5, <2>1, <2>3, <2>4
  <2>6. a - d = k + x
    BY <1>1, <2>1, <2>4
  <2> QED
    BY <2>5, <2>6
<1>10. \E a \in B : \A b \in B : b <= a
  <2>1. PICK r \in Nat : m = r + 1
    OBVIOUS
  <2>2. PICK x \in Nat : x = r * d /\ m * d = x + d
    BY <1>1, <2>1, MultipleIsNat
  <2>3. k + x \in B
    BY <1>5, <2>1, <2>2
  <2>4. ASSUME NEW b \in B PROVE b <= k + x
    BY <1>1, <1>2, <1>7, <2>2
  <2> QED
    BY <2>3, <2>4
<1>11. LastBlock(p, k) \in B /\ \A a \in B : a <= LastBlock(p, k)
  BY <1>10 DEF LastBlock, B
<1>12. ASSUME NEW a \in B, a # LastBlock(p, k) PROVE a + d \in B
  <2>1. PICK q \in Nat : q < m /\ a = k + q * d
    BY <1>5
  <2>2. PICK r \in Nat : r < m /\ LastBlock(p, k) = k + r * d
    BY <1>5, <1>11
  <2>3. PICK x \in Nat, y \in Nat :
           x = q * d /\ y = r * d /\ (q + 1) * d = x + d
    BY <1>1, MultipleIsNat
  <2>4. x < y
    <3>1. a \in Nat /\ a <= LastBlock(p, k)
      BY <1>7, <1>11
    <3> QED
      BY <1>12, <2>1, <2>2, <2>3, <3>1
  <2>5. q < r
    BY <1>1, <2>3, <2>4, MultiplesApart
  <2>6. q + 1 \in Nat /\ q + 1 < m
    BY <2>2, <2>5
  <2>7. k + (q + 1) * d \in B
    BY <1>5, <2>6
  <2>8. k + (x + d) = a + d
    BY <1>1, <2>1, <2>3
  <2> QED
    BY <2>3, <2>7, <2>8
<1> QED
  BY <1>6, <1>7, <1>8, <1>9, <1>11, <1>12 DEF d, B

\* The heap is cut into parts: o gives the pool of a part, or NULL if it is a
\* large block, and w its words; F are the parts on a free list.  The parts
\* lie side by side below k.
Layout(f, k, o, w) ==
    /\ DOMAIN f \subseteq Nat
    /\ o \in [DOMAIN f -> Pool \cup {NULL}] /\ w \in [DOMAIN f -> Nat \ {0}]
    /\ \A a \in DOMAIN f : PAGE <= a /\ a + w[a] <= k
    /\ \A a \in DOMAIN f : o[a] # NULL => w[a] = block_sizes[o[a]]
    /\ \A a, b \in DOMAIN f : a < b => a + w[a] <= b

\* The links: the list of a pool stays among its own free parts, no part is
\* behind two others and none is behind a head that is taken next.
Lists(f, h, o, F) ==
    /\ F \subseteq DOMAIN f /\ h \in [Pool -> F \cup {NULL}]
    /\ \A a \in DOMAIN f \ F : f[a].pool = o[a]
    /\ \A a \in F : /\ o[a] # NULL /\ f[a].next \in F \cup {NULL}
                    /\ f[a].next # NULL => o[f[a].next] = o[a]
    /\ \A a, b \in F : f[a].next = f[b].next /\ f[a].next # NULL => a = b
    /\ \A p \in Pool : h[p] # NULL => /\ o[h[p]] = p
                                      /\ \A a \in F : f[a].next # h[p]

\* A large block is made of whole pages.
LargePages(f, o, w) ==
    \A a \in DOMAIN f : o[a] = NULL =>
       \E n, m \in Nat : /\ a = n * PAGE /\ w[a] = m * PAGE
                         /\ num_pages(f[a].size) = m

\* What callers hold: parts that are on no list, each held once.
Owned(f, w, F, L) ==
    /\ \A b \in L : /\ b.addr \in Nat /\ b.size \in Nat
                    /\ b.addr - HEADER \in DOMAIN f \ F
                    /\ b.size + HEADER <= w[b.addr - HEADER]
    /\ \A b, c \in L : b.addr = c.addr => b = c

\* A page is freed with the large block it was part of.
FreedPages(f, o, w, L, fr) ==
    \A x \in fr : /\ x \in Nat
                  /\ \E a \in DOMAIN f : /\ o[a] = NULL
                                         /\ \A b \in L : b.addr - HEADER # a
                                         /\ a <= x * PAGE
                                         /\ x * PAGE < a + w[a]

Shape(f, h, k, L, fr, o, w, F) ==
    /\ Layout(f, k, o, w) /\ Lists(f, h, o, F) /\ LargePages(f, o, w)
    /\ Owned(f, w, F, L) /\ FreedPages(f, o, w, L, fr)

\* The word that kmalloc writes in front of a block.
HeaderAt(a, p, z) == [x \in {a} |-> [pool |-> p, size |-> z]]

\* kmalloc takes the block at the head of a list.
LEMMA TakeTop ==
    ASSUME NEW f, NEW h, NEW k \in Nat, NEW L, NEW fr, NEW o, NEW w, NEW F,
           Shape(f, h, k, L, fr, o, w, F), NEW p \in Pool, h[p] # NULL,
           NEW size \in Nat, size + HEADER <= block_sizes[p], NEW z
    PROVE  Shape(Over(f, HeaderAt(h[p], p, z)),
                 [h EXCEPT ![p] = f[h[p]].next], k,
                 L \cup {Held(h[p] + HEADER, size, FALSE)}, fr,
                 o, w, F \ {h[p]})
<1> DEFINE top == h[p]
           g == Over(f, HeaderAt(top, p, z))
           e == [h EXCEPT ![p] = f[top].next]
           b1 == Held(top + HEADER, size, FALSE)
           M == L \cup {b1}
           G == F \ {top}
<1>1. /\ Layout(f, k, o, w) /\ Lists(f, h, o, F) /\ LargePages(f, o, w)
      /\ Owned(f, w, F, L) /\ FreedPages(f, o, w, L, fr)
  BY DEF Shape
<1>2. /\ top \in F /\ top \in DOMAIN f /\ F \subseteq DOMAIN f /\ o[top] = p
      /\ top \in Nat /\ w[top] = block_sizes[p] /\ p # NULL
  BY <1>1, PoolFacts DEF Lists, Layout, NULL
<1>3. /\ DOMAIN g = DOMAIN f /\ g[top].pool = p
      /\ \A a \in DOMAIN f : a # top => g[a] = f[a]
  BY <1>2 DEF Over, HeaderAt
<1>4. /\ f[top].next \in F \cup {NULL}
      /\ e \in [Pool -> F \cup {NULL}] /\ e[p] = f[top].next
      /\ \A q \in Pool : q # p => e[q] = h[q]
  BY <1>1, <1>2 DEF Lists
<1>5. HEADER \in Nat \ {0}
  BY KmallocAssumption
<1>6. b1.addr = top + HEADER /\ b1.size = size
  BY DEF Held
<1> HIDE DEF top, g, e, b1
<1>7. Layout(g, k, o, w)
  BY <1>1, <1>3 DEF Layout
<1>8. Lists(g, e, o, G)
  <2>1. G \subseteq DOMAIN g
    BY <1>2, <1>3
  <2>2. \A a \in G : a \in F /\ a # top /\ g[a] = f[a] /\ f[a].next # top
    BY <1>1, <1>2, <1>3 DEF Lists, top
  <2>3. \A q \in Pool : e[q] # top
    <3>1. e[p] # top
      BY <1>1, <1>2, <1>4 DEF Lists, top
    <3>2. ASSUME NEW q \in Pool, q # p PROVE e[q] # top
      <4>1. e[q] = h[q]
        BY <1>4, <3>2
      <4>2. h[q] # NULL => o[h[q]] = q
        BY <1>1 DEF Lists
      <4>3. top # NULL
        BY DEF top
      <4> QED
        BY <1>2, <3>2, <4>1, <4>2, <4>3
    <3> QED
      BY <3>1, <3>2
  <2>4. e \in [Pool -> G \cup {NULL}]
    BY <1>4, <2>3
  <2>5. \A a \in DOMAIN g \ G : g[a].pool = o[a]
    BY <1>1, <1>2, <1>3 DEF Lists
  <2>6. \A a \in G : /\ o[a] # NULL /\ g[a].next \in G \cup {NULL}
                     /\ g[a].next # NULL => o[g[a].next] = o[a]
    BY <1>1, <2>2 DEF Lists
  <2>7. \A a, b \in G : g[a].next = g[b].next /\ g[a].next # NULL => a = b
    BY <1>1, <2>2 DEF Lists
  <2>8. ASSUME NEW q \in Pool, e[q] # NULL
        PROVE  o[e[q]] = q /\ \A a \in G : g[a].next # e[q]
    <3>1. CASE q = p
      <4>1. e[q] = f[top].next
        BY <1>4, <3>1
      <4>2. o[e[q]] = p
        BY <1>1, <1>2, <2>8, <4>1 DEF Lists
      <4>3. \A a \in G : f[a].next # f[top].next
        BY <1>1, <1>2, <2>2, <2>8, <4>1 DEF Lists
      <4> QED
        BY <2>2, <3>1, <4>1, <4>2, <4>3
    <3>2. CASE q # p
      <4>1. e[q] = h[q] /\ h[q] # NULL
        BY <1>4, <2>8, <3>2
      <4>2. o[h[q]] = q /\ \A a \in F : f[a].next # h[q]
        BY <1>1, <4>1 DEF Lists
      <4> QED
        BY <2>2, <4>1, <4>2
    <3> QED
      BY <3>1, <3>2
  <2> QED
    BY <2>1, <2>4, <2>5, <2>6, <2>7, <2>8 DEF Lists
<1>9. LargePages(g, o, w)
  BY <1>1, <1>2, <1>3 DEF LargePages
<1>10. Owned(g, w, G, M)
  <2>1. /\ b1.addr \in Nat /\ b1.addr - HEADER = top
        /\ b1.size \in Nat /\ b1.size + HEADER <= w[top]
    BY <1>2, <1>5, <1>6
  <2>2. \A b \in L : b.addr \in Nat /\ b.addr - HEADER # top
    BY <1>1, <1>2 DEF Owned
  <2>3. \A b \in L : b.addr # b1.addr
    BY <2>1, <2>2
  <2>4. ASSUME NEW b \in M
        PROVE  /\ b.addr \in Nat /\ b.size \in Nat
               /\ b.addr - HEADER \in DOMAIN g \ G
               /\ b.size + HEADER <= w[b.addr - HEADER]
    <3>1. CASE b \in L
      BY <1>1, <1>3, <3>1 DEF Owned
    <3>2. CASE b = b1
      BY <1>2, <1>3, <2>1, <3>2
    <3> QED
      BY <3>1, <3>2
  <2>5. \A b, c \in M : b.addr = c.addr => b = c
    BY <1>1, <2>3 DEF Owned
  <2> QED
    BY <2>4, <2>5 DEF Owned
<1>11. FreedPages(g, o, w, M, fr)
  <2>1. b1.addr - HEADER = top
    BY <1>2, <1>5, <1>6
  <2>2. \A a \in DOMAIN f : o[a] = NULL => a # top
    BY <1>2
  <2> QED
    BY <1>1, <1>3, <2>1, <2>2 DEF FreedPages
<1> QED
  BY <1>7, <1>8, <1>9, <1>10, <1>11 DEF Shape, top, g, e, b1

\* kfree puts a block back at the head of the list it came from.
LEMMA PutBack ==
    ASSUME NEW f, NEW h, NEW k \in Nat, NEW L, NEW fr, NEW o, NEW w, NEW F,
           Shape(f, h, k, L, fr, o, w, F), NEW b \in L,
           NEW blk, blk = b.addr - HEADER, f[blk].pool # NULL
    PROVE  Shape([f EXCEPT ![blk] = [next |-> h[f[blk].pool]]],
                 [h EXCEPT ![f[blk].pool] = blk], k, L \ {b}, fr,
                 o, w, F \cup {blk})
<1> DEFINE p == f[blk].pool
           g == [f EXCEPT ![blk] = [next |-> h[p]]]
           e == [h EXCEPT ![p] = blk]
           M == L \ {b}
           G == F \cup {blk}
<1>1. /\ Layout(f, k, o, w) /\ Lists(f, h, o, F) /\ LargePages(f, o, w)
      /\ Owned(f, w, F, L) /\ FreedPages(f, o, w, L, fr)
  BY DEF Shape
<1>2. blk \in DOMAIN f /\ blk \notin F /\ F \subseteq DOMAIN f
  BY <1>1 DEF Owned, Lists
<1>3. p = o[blk] /\ p \in Pool /\ p # NULL
  BY <1>1, <1>2 DEF Lists, Layout
<1>4. blk # NULL
  BY <1>1, <1>2, KmallocAssumption DEF Layout, NULL
<1>5. /\ DOMAIN g = DOMAIN f
      /\ \A a \in DOMAIN f : a # blk => g[a] = f[a]
  OBVIOUS
<1>6. g[blk].next = h[p]
  BY <1>2
<1>7. /\ h \in [Pool -> F \cup {NULL}] /\ e \in [Pool -> G \cup {NULL}]
      /\ e[p] = blk /\ \A q \in Pool : q # p => e[q] = h[q]
  BY <1>1, <1>3 DEF Lists
<1> HIDE DEF p, g, e
<1>8. Layout(g, k, o, w)
  BY <1>1, <1>5 DEF Layout
<1>9. Lists(g, e, o, G)
  <2>1. G \subseteq DOMAIN g
    BY <1>2, <1>5
  <2>2. \A a \in F : a \in DOMAIN f /\ a # blk /\ g[a] = f[a]
    BY <1>2, <1>5
  <2>3. \A a \in DOMAIN g \ G : g[a].pool = o[a]
    BY <1>1, <1>5 DEF Lists
  <2>4. ASSUME NEW a \in G
        PROVE  /\ o[a] # NULL /\ g[a].next \in F \cup {NULL}
               /\ g[a].next # NULL => o[g[a].next] = o[a]
    <3>1. CASE a = blk
      BY <1>1, <1>3, <1>6, <1>7, <3>1 DEF Lists
    <3>2. CASE a \in F
      BY <1>1, <2>2, <3>2 DEF Lists
    <3> QED
      BY <3>1, <3>2
  <2>5. ASSUME NEW a \in F, h[p] # NULL PROVE g[a].next # h[p]
    BY <1>1, <1>3, <2>2, <2>5 DEF Lists
  <2>6. ASSUME NEW a \in G, NEW c \in G, g[a].next = g[c].next,
               g[a].next # NULL
        PROVE  a = c
    <3>1. CASE a \in F /\ c \in F
      BY <1>1, <2>2, <2>6, <3>1 DEF Lists
    <3>2. CASE a = blk \/ c = blk
      BY <1>6, <2>5, <2>6, <3>2
    <3> QED
      BY <3>1, <3>2
  <2>7. ASSUME NEW q \in Pool, e[q] # NULL
        PROVE  o[e[q]] = q /\ \A a \in G : g[a].next # e[q]
    <3>1. CASE q = p
      BY <1>2, <1>3, <1>4, <1>7, <2>4, <3>1
    <3>2. CASE q # p
      <4>1. e[q] = h[q] /\ h[q] # NULL
        BY <1>7, <2>7, <3>2
      <4>2. o[h[q]] = q /\ \A a \in F : f[a].next # h[q]
        BY <1>1, <4>1 DEF Lists
      <4>3. h[p] # h[q]
        BY <1>1, <1>3, <3>2, <4>1, <4>2 DEF Lists
      <4> QED
        BY <1>6, <2>2, <4>1, <4>2, <4>3
    <3> QED
      BY <3>1, <3>2
  <2> QED
    BY <1>7, <2>1, <2>3, <2>4, <2>6, <2>7 DEF Lists
<1>10. LargePages(g, o, w)
  BY <1>1, <1>3, <1>5 DEF LargePages
<1>11. Owned(g, w, G, M)
  <2>1. \A c \in M : c \in L /\ c.addr \in Nat /\ c.addr - HEADER # blk
    <3>1. \A c \in M : c \in L /\ c.addr \in Nat /\ c.addr # b.addr
      BY <1>1 DEF Owned
    <3>2. b.addr \in Nat /\ HEADER \in Nat
      BY <1>1, KmallocAssumption DEF Owned
    <3> QED
      BY <3>1, <3>2
  <2> QED
    BY <1>1, <1>5, <2>1 DEF Owned
<1>12. FreedPages(g, o, w, M, fr)
  BY <1>1, <1>5 DEF FreedPages
<1> QED
  BY <1>8, <1>9, <1>10, <1>11, <1>12 DEF Shape, p, g, e

Extend(g, S, v) == [a \in DOMAIN g \cup S |-> IF a \in S THEN v ELSE g[a]]

\* pool_allocate_page cuts the page at k into blocks for a pool whose list is
\* empty.
LEMMA NewPage ==
    ASSUME NEW f, NEW h, NEW k \in Nat, NEW L, NEW fr, NEW o, NEW w, NEW F,
           Shape(f, h, k, L, fr, o, w, F), NEW p \in Pool, h[p] = NULL,
           PAGE <= k
    PROVE  Shape(Over(f, Chain(p, k)), [h EXCEPT ![p] = LastBlock(p, k)],
                 k + PAGE, L, fr, Extend(o, Blocks(p, k), p),
                 Extend(w, Blocks(p, k), block_sizes[p]),
                 F \cup Blocks(p, k))
<1> DEFINE d == block_sizes[p]
           B == Blocks(p, k)
           last == LastBlock(p, k)
           g == Over(f, Chain(p, k))
           e == [h EXCEPT ![p] = last]
           o2 == Extend(o, B, p)
           w2 == Extend(w, B, d)
           G == F \cup B
<1>1. /\ Layout(f, k, o, w) /\ Lists(f, h, o, F) /\ LargePages(f, o, w)
      /\ Owned(f, w, F, L) /\ FreedPages(f, o, w, L, fr)
  BY DEF Shape
<1>2. /\ k \in B /\ B \subseteq Nat
      /\ \A a \in B : a \in Nat /\ k <= a /\ a + d <= k + PAGE
      /\ \A a, b \in B : a < b => a + d <= b
      /\ \A a \in B : a # k => a - d \in B
      /\ last \in B /\ \A a \in B : a <= last
  BY BlocksOfPage
<1>3. /\ d \in Nat \ {0} /\ PAGE \in Nat \ {0} /\ p # NULL /\ p \in Nat
  BY PoolFacts, KmallocAssumption DEF NULL
<1>4. /\ DOMAIN f \subseteq Nat /\ F \subseteq DOMAIN f
      /\ \A a \in DOMAIN f : /\ a \in Nat /\ w[a] \in Nat \ {0}
                              /\ PAGE <= a /\ a + w[a] <= k
  BY <1>1 DEF Layout, Lists
<1>5. \A a \in DOMAIN f : a < k
  BY <1>4
<1>6. \A a \in DOMAIN f : a \notin B
  BY <1>2, <1>4, <1>5
<1>7. /\ DOMAIN g = DOMAIN f \cup B
      /\ \A a \in DOMAIN f : g[a] = f[a]
      /\ \A a \in B : g[a].next = IF a = k THEN NULL ELSE a - d
  BY <1>6 DEF Over, Chain
<1>8. /\ DOMAIN o = DOMAIN f /\ DOMAIN w = DOMAIN f
      /\ o \in [DOMAIN f -> Pool \cup {NULL}]
      /\ w \in [DOMAIN f -> Nat \ {0}]
  BY <1>1 DEF Layout
<1>9. /\ o2 \in [DOMAIN f \cup B -> Pool \cup {NULL}]
      /\ \A a \in DOMAIN f : o2[a] = o[a]
      /\ \A a \in B : o2[a] = p
  BY <1>6, <1>8 DEF Extend
<1>10. /\ w2 \in [DOMAIN f \cup B -> Nat \ {0}]
       /\ \A a \in DOMAIN f : w2[a] = w[a]
       /\ \A a \in B : w2[a] = d
  BY <1>3, <1>6, <1>8 DEF Extend
<1>11. /\ h \in [Pool -> F \cup {NULL}] /\ e[p] = last
       /\ e \in [Pool -> G \cup {NULL}]
       /\ \A q \in Pool : q # p => e[q] = h[q]
  BY <1>1, <1>2 DEF Lists
<1>12. 0 \notin B /\ 0 \notin DOMAIN f
  BY <1>2, <1>3, <1>4
<1> HIDE DEF d, B, last, g, e, o2, w2
<1>13. Layout(g, k + PAGE, o2, w2)
  <2>1. DOMAIN g \subseteq Nat
    BY <1>2, <1>4, <1>7
  <2>2. ASSUME NEW a \in DOMAIN g
        PROVE  PAGE <= a /\ a + w2[a] <= k + PAGE
    <3>1. CASE a \in DOMAIN f
      BY <1>3, <1>4, <1>10, <3>1
    <3>2. CASE a \in B
      <4>1. a \in Nat /\ k <= a /\ a + d <= k + PAGE /\ w2[a] = d
        BY <1>2, <1>10, <3>2
      <4> QED
        BY <1>3, <4>1
    <3> QED
      BY <1>7, <3>1, <3>2
  <2>3. \A a \in DOMAIN g : o2[a] # NULL => w2[a] = block_sizes[o2[a]]
    BY <1>1, <1>7, <1>9, <1>10 DEF Layout, d
  <2>4. ASSUME NEW a \in DOMAIN g, NEW b \in DOMAIN g, a < b
        PROVE  a + w2[a] <= b
    <3>1. CASE a \in DOMAIN f /\ b \in DOMAIN f
      BY <1>1, <1>10, <2>4, <3>1 DEF Layout
    <3>2. CASE a \in DOMAIN f /\ b \in B
      <4>1. /\ a \in Nat /\ w[a] \in Nat /\ a + w[a] <= k /\ w2[a] = w[a]
            /\ b \in Nat /\ k <= b
        BY <1>2, <1>4, <1>10, <3>2
      <4> QED
        BY <4>1
    <3>3. CASE a \in B /\ b \in DOMAIN f
      <4>1. a \in Nat /\ k <= a /\ b \in Nat /\ b < k
        BY <1>2, <1>4, <1>5, <3>3
      <4> QED
        BY <2>4, <4>1
    <3>4. CASE a \in B /\ b \in B
      BY <1>2, <1>10, <2>4, <3>4
    <3> QED
      BY <1>7, <3>1, <3>2, <3>3, <3>4
  <2> QED
    BY <1>7, <1>9, <1>10, <2>1, <2>2, <2>3, <2>4 DEF Layout
<1>14. Lists(g, e, o2, G)
  <2>1. G \subseteq DOMAIN g
    BY <1>4, <1>7
  <2>2. \A a \in DOMAIN g \ G : g[a].pool = o2[a]
    BY <1>1, <1>7, <1>9 DEF Lists
  <2>3. \A a \in F : /\ a \in DOMAIN f /\ a \notin B /\ g[a] = f[a]
                     /\ o2[a] = o[a] /\ f[a].next \in F \cup {NULL}
    BY <1>1, <1>4, <1>6, <1>7, <1>9 DEF Lists
  <2>4. \A a \in F : f[a].next \notin B
    BY <1>12, <2>3 DEF NULL
  <2>5. ASSUME NEW a \in G
        PROVE  /\ o2[a] # NULL /\ g[a].next \in G \cup {NULL}
               /\ g[a].next # NULL => o2[g[a].next] = o2[a]
    <3>1. CASE a \in F
      BY <1>1, <2>3, <3>1 DEF Lists
    <3>2. CASE a \in B
      <4>1. g[a].next = NULL \/ g[a].next \in B
        BY <1>2, <1>7, <3>2
      <4> QED
        BY <1>3, <1>9, <3>2, <4>1
    <3> QED
      BY <3>1, <3>2
  <2>6. ASSUME NEW a \in G, NEW b \in G, g[a].next = g[b].next,
               g[a].next # NULL
        PROVE  a = b
    <3>1. CASE a \in F /\ b \in F
      BY <1>1, <2>3, <2>6, <3>1 DEF Lists
    <3>2. CASE a \in B /\ b \in B
      <4>1. g[a].next = a - d /\ g[b].next = b - d
        BY <1>7, <2>6, <3>2
      <4>2. a \in Nat /\ b \in Nat
        BY <1>2, <3>2
      <4>3. a - d = b - d
        BY <2>6, <4>1
      <4> QED
        BY <1>3, <4>2, <4>3
    <3>3. \A x \in B : g[x].next # NULL => g[x].next \in B
      BY <1>2, <1>7
    <3>4. CASE (a \in F /\ b \in B) \/ (a \in B /\ b \in F)
      BY <2>3, <2>4, <2>6, <3>3, <3>4
    <3> QED
      BY <3>1, <3>2, <3>4
  <2>7. ASSUME NEW q \in Pool, e[q] # NULL
        PROVE  o2[e[q]] = q /\ \A a \in G : g[a].next # e[q]
    <3>1. CASE q = p
      <4>1. e[q] = last /\ last \in B
        BY <1>2, <1>11, <3>1
      <4>2. \A a \in B : a \in Nat /\ a <= last
        BY <1>2
      <4>3. ASSUME NEW a \in B, a # k PROVE a - d # last
        BY <1>3, <4>1, <4>2, <4>3
      <4>4. \A a \in B : g[a].next # last
        BY <1>7, <1>11, <2>7, <3>1, <4>1, <4>3
      <4> QED
        BY <1>9, <2>3, <2>4, <3>1, <4>1, <4>4
    <3>2. CASE q # p
      <4>1. e[q] = h[q] /\ h[q] # NULL /\ h[q] \in F
        BY <1>11, <2>7, <3>2
      <4>2. o[h[q]] = q /\ \A a \in F : f[a].next # h[q]
        BY <1>1, <4>1 DEF Lists
      <4>3. \A a \in B : g[a].next # h[q]
        BY <1>2, <1>7, <2>3, <4>1
      <4> QED
        BY <2>3, <4>1, <4>2, <4>3
    <3> QED
      BY <3>1, <3>2
  <2> QED
    BY <1>11, <2>1, <2>2, <2>5, <2>6, <2>7 DEF Lists
<1>15. LargePages(g, o2, w2)
  BY <1>1, <1>3, <1>7, <1>9, <1>10 DEF LargePages
<1>16. Owned(g, w2, G, L)
  <2>1. \A b \in L : b.addr - HEADER \in DOMAIN f
    BY <1>1 DEF Owned
  <2>2. \A b \in L : b.addr - HEADER \notin B
    BY <1>6, <2>1
  <2> QED
    BY <1>1, <1>7, <1>10, <2>1, <2>2 DEF Owned
<1>17. FreedPages(g, o2, w2, L, fr)
  BY <1>1, <1>7, <1>9, <1>10 DEF FreedPages
<1> QED
  BY <1>13, <1>14, <1>15, <1>16, <1>17 DEF Shape, d, B, last, g, e, o2, w2

\* kmalloc rounds a large block up to whole pages.
LEMMA NumPages ==
    ASSUME NEW x \in Nat \ {0}
    PROVE  num_pages(x) \in Nat \ {0} /\ x <= num_pages(x) * PAGE
<1>1. PAGE \in Nat \ {0}
  BY KmallocAssumption
<1>2. PICK k \in Nat, r \in 0 .. PAGE - 1 :
         x = k * PAGE + r /\ x % PAGE = r /\ x \div PAGE = k
  BY <1>1, Quotient
<1>3. PICK m \in Nat : m = k * PAGE /\ (k + 1) * PAGE = m + PAGE
  BY <1>1, MultipleIsNat
<1>4. num_pages(x) = IF r = 0 THEN k + 0 ELSE k + 1
  BY <1>2 DEF num_pages
<1>5. x = m + r
  BY <1>2, <1>3
<1>6. CASE r = 0
  <2>1. num_pages(x) = k /\ x = m
    BY <1>4, <1>5, <1>6
  <2>2. k # 0
    BY <1>1, <1>3, <2>1
  <2> QED
    BY <1>3, <2>1, <2>2
<1>7. CASE r # 0
  <2>1. num_pages(x) = k + 1 /\ x <= m + PAGE
    BY <1>1, <1>4, <1>5, <1>7
  <2> QED
    BY <1>3, <2>1
<1> QED
  BY <1>6, <1>7

\* kmalloc of more than the largest pool gives new pages to one block.
LEMMA NewLarge ==
    ASSUME NEW f, NEW h, NEW k \in Nat, NEW L, NEW fr, NEW o, NEW w, NEW F,
           Shape(f, h, k, L, fr, o, w, F), NEW n \in Nat \ {0}, k = n * PAGE,
           NEW size \in Nat, NEW st, NEW m \in Nat \ {0},
           m = num_pages(size + HEADER), size + HEADER <= m * PAGE
    PROVE  Shape(Over(f, HeaderAt(k, NULL, size + HEADER)),
                 h, k + m * PAGE, L \cup {Held(k + HEADER, size, st)}, fr,
                 Extend(o, {k}, NULL), Extend(w, {k}, m * PAGE), F)
<1> DEFINE d == m * PAGE
           g == Over(f, HeaderAt(k, NULL, size + HEADER))
           o2 == Extend(o, {k}, NULL)
           w2 == Extend(w, {k}, d)
           b1 == Held(k + HEADER, size, st)
           M == L \cup {b1}
<1>1. /\ Layout(f, k, o, w) /\ Lists(f, h, o, F) /\ LargePages(f, o, w)
      /\ Owned(f, w, F, L) /\ FreedPages(f, o, w, L, fr)
  BY DEF Shape
<1>2. PAGE \in Nat \ {0} /\ HEADER \in Nat \ {0}
  BY KmallocAssumption
<1>3. d \in Nat \ {0} /\ PAGE <= k
  <2>1. PICK y \in Nat : n = y + 1
    OBVIOUS
  <2>2. y * PAGE \in Nat /\ n * PAGE = y * PAGE + PAGE
    BY <1>2, <2>1, MultipleIsNat
  <2>3. PICK z \in Nat : m = z + 1
    OBVIOUS
  <2>4. z * PAGE \in Nat /\ m * PAGE = z * PAGE + PAGE
    BY <1>2, <2>3, MultipleIsNat
  <2> QED
    BY <1>2, <2>2, <2>4
<1>4. /\ DOMAIN f \subseteq Nat /\ F \subseteq DOMAIN f
      /\ \A a \in DOMAIN f : /\ a \in Nat /\ w[a] \in Nat \ {0}
                             /\ PAGE <= a /\ a + w[a] <= k
  BY <1>1 DEF Layout, Lists
<1>5. \A a \in DOMAIN f : a < k
  BY <1>4
<1>6. k \notin DOMAIN f
  BY <1>5
<1>7. /\ DOMAIN g = DOMAIN f \cup {k}
      /\ \A a \in DOMAIN f : g[a] = f[a]
      /\ g[k].pool = NULL /\ g[k].size = size + HEADER
  BY <1>6 DEF Over, HeaderAt
<1>8. /\ DOMAIN o = DOMAIN f /\ DOMAIN w = DOMAIN f
      /\ o \in [DOMAIN f -> Pool \cup {NULL}]
      /\ w \in [DOMAIN f -> Nat \ {0}]
  BY <1>1 DEF Layout
<1>9. /\ o2 \in [DOMAIN f \cup {k} -> Pool \cup {NULL}]
      /\ \A a \in DOMAIN f : o2[a] = o[a]
      /\ o2[k] = NULL
  BY <1>6, <1>8 DEF Extend
<1>10. b1.addr = k + HEADER /\ b1.size = size
  BY DEF Held
<1> HIDE DEF d, g, o2, b1
<1>11. /\ w2 \in [DOMAIN f \cup {k} -> Nat \ {0}]
       /\ \A a \in DOMAIN f : w2[a] = w[a]
       /\ w2[k] = d
  BY <1>3, <1>6, <1>8 DEF Extend
<1> HIDE DEF w2
<1>12. Layout(g, k + d, o2, w2)
  <2>1. DOMAIN g \subseteq Nat
    BY <1>4, <1>7
  <2>2. ASSUME NEW a \in DOMAIN g
        PROVE  PAGE <= a /\ a + w2[a] <= k + d
    <3>1. CASE a \in DOMAIN f
      <4>1. /\ a \in Nat /\ w[a] \in Nat /\ PAGE <= a /\ a + w[a] <= k
            /\ w2[a] = w[a]
        BY <1>4, <1>11, <3>1
      <4> QED
        BY <1>3, <4>1
    <3>2. CASE a = k
      BY <1>3, <1>11, <3>2
    <3> QED
      BY <1>7, <3>1, <3>2
  <2>3. \A a \in DOMAIN g : o2[a] # NULL => w2[a] = block_sizes[o2[a]]
    BY <1>1, <1>7, <1>9, <1>11 DEF Layout
  <2>4. ASSUME NEW a \in DOMAIN g, NEW b \in DOMAIN g, a < b
        PROVE  a + w2[a] <= b
    <3>1. CASE a \in DOMAIN f /\ b \in DOMAIN f
      BY <1>1, <1>11, <2>4, <3>1 DEF Layout
    <3>2. CASE a \in DOMAIN f /\ b = k
      BY <1>4, <1>11, <3>2
    <3>3. CASE a = k
      <4>1. b \in Nat /\ (b < k \/ b = k)
        BY <1>4, <1>5, <1>7
      <4> QED
        BY <2>4, <3>3, <4>1
    <3> QED
      BY <1>7, <3>1, <3>2, <3>3
  <2> QED
    BY <1>7, <1>9, <1>11, <2>1, <2>2, <2>3, <2>4 DEF Layout
<1>13. Lists(g, h, o2, F)
  <2>1. \A a \in F : a \in DOMAIN f /\ g[a] = f[a] /\ o2[a] = o[a] /\ a # k
    BY <1>4, <1>6, <1>7, <1>9
  <2>2. F \subseteq DOMAIN g
    BY <1>4, <1>7
  <2>3. \A a \in DOMAIN g \ F : g[a].pool = o2[a]
    BY <1>1, <1>7, <1>9 DEF Lists
  <2>4. h \in [Pool -> F \cup {NULL}]
    BY <1>1 DEF Lists
  <2>5. \A a \in F : /\ o2[a] # NULL /\ g[a].next \in F \cup {NULL}
                     /\ g[a].next # NULL => o2[g[a].next] = o2[a]
    BY <1>1, <2>1 DEF Lists
  <2>6. \A a, b \in F : g[a].next = g[b].next /\ g[a].next # NULL => a = b
    BY <1>1, <2>1 DEF Lists
  <2>7. \A p \in Pool : h[p] # NULL => /\ o2[h[p]] = p
                                       /\ \A a \in F : g[a].next # h[p]
    BY <1>1, <2>1, <2>4 DEF Lists
  <2> QED
    BY <2>2, <2>3, <2>4, <2>5, <2>6, <2>7 DEF Lists
<1>14. LargePages(g, o2, w2)
  <2> SUFFICES ASSUME NEW a \in DOMAIN g, o2[a] = NULL
               PROVE  \E x, y \in Nat : /\ a = x * PAGE /\ w2[a] = y * PAGE
                                        /\ num_pages(g[a].size) = y
    BY DEF LargePages
  <2>1. CASE a \in DOMAIN f
    <3>1. o[a] = NULL /\ w2[a] = w[a] /\ g[a] = f[a]
      BY <1>7, <1>9, <1>11, <2>1
    <3>2. PICK x \in Nat, y \in Nat : /\ a = x * PAGE /\ w[a] = y * PAGE
                                      /\ num_pages(f[a].size) = y
      BY <1>1, <2>1, <3>1 DEF LargePages
    <3> QED
      BY <3>1, <3>2
  <2>2. CASE a = k
    <3>1. a = n * PAGE /\ w2[a] = m * PAGE /\ num_pages(g[a].size) = m
      BY <1>7, <1>11, <2>2 DEF d
    <3> QED
      BY <3>1
  <2> QED
    BY <1>7, <2>1, <2>2
<1>15. Owned(g, w2, F, M)
  <2>1. /\ b1.addr \in Nat /\ b1.addr - HEADER = k /\ k \in DOMAIN g \ F
        /\ b1.size \in Nat /\ b1.size + HEADER <= w2[k]
    <3>1. b1.size + HEADER <= d
      BY <1>10 DEF d
    <3>2. k \in DOMAIN g \ F
      BY <1>4, <1>6, <1>7
    <3> QED
      BY <1>2, <1>10, <1>11, <3>1, <3>2
  <2>2. \A b \in L : /\ b.addr \in Nat /\ b.addr - HEADER \in DOMAIN f
                     /\ b.addr - HEADER # k
    BY <1>1, <1>6 DEF Owned
  <2>3. \A b \in L : b.addr # b1.addr
    BY <2>1, <2>2
  <2>4. ASSUME NEW b \in M
        PROVE  /\ b.addr \in Nat /\ b.size \in Nat
               /\ b.addr - HEADER \in DOMAIN g \ F
               /\ b.size + HEADER <= w2[b.addr - HEADER]
    <3>1. CASE b \in L
      BY <1>1, <1>7, <1>11, <2>2, <3>1 DEF Owned
    <3>2. CASE b = b1
      BY <2>1, <3>2
    <3> QED
      BY <3>1, <3>2
  <2>5. \A b, c \in M : b.addr = c.addr => b = c
    BY <1>1, <2>3 DEF Owned
  <2> QED
    BY <2>4, <2>5 DEF Owned
<1>16. FreedPages(g, o2, w2, M, fr)
  <2>1. b1.addr - HEADER = k
    BY <1>2, <1>10
  <2>2. \A a \in DOMAIN f : a # k
    BY <1>6
  <2> QED
    BY <1>1, <1>7, <1>9, <1>11, <2>1, <2>2 DEF FreedPages
<1> QED
  BY <1>12, <1>13, <1>14, <1>15, <1>16 DEF Shape, d, g, o2, w2, b1

\* kfree of a large block frees the pages it is made of.
LEMMA FreeLarge ==
    ASSUME NEW f, NEW h, NEW k \in Nat, NEW L, NEW fr, NEW o, NEW w, NEW F,
           Shape(f, h, k, L, fr, o, w, F), NEW b \in L,
           NEW blk, blk = b.addr - HEADER, f[blk].pool = NULL
    PROVE  Shape(f, h, k, L \ {b},
                 fr \cup PagesFrom(b.addr, num_pages(f[blk].size)), o, w, F)
<1> DEFINE M == L \ {b}
           S == PagesFrom(b.addr, num_pages(f[blk].size))
<1>1. /\ Layout(f, k, o, w) /\ Lists(f, h, o, F) /\ LargePages(f, o, w)
      /\ Owned(f, w, F, L) /\ FreedPages(f, o, w, L, fr)
  BY DEF Shape
<1>2. /\ blk \in DOMAIN f \ F /\ b.addr \in Nat /\ o[blk] = NULL
  BY <1>1 DEF Owned, Lists
<1>3. PICK n \in Nat, m \in Nat : /\ blk = n * PAGE /\ w[blk] = m * PAGE
                                  /\ num_pages(f[blk].size) = m
  BY <1>1, <1>2 DEF LargePages
<1>4. PAGE \in Nat \ {0} /\ HEADER \in 1 .. PAGE - 1
  BY KmallocAssumption
<1>5. b.addr \div PAGE = n
  <2>1. n * PAGE \in Nat
    BY <1>4, MultipleIsNat
  <2>2. b.addr = n * PAGE + HEADER /\ HEADER \in 0 .. PAGE - 1
    BY <1>2, <1>3, <1>4, <2>1
  <2> QED
    BY <1>4, <2>2, Multiple
<1>6. S = n .. n + m - 1
  BY <1>3, <1>5 DEF PagesFrom
<1>7. \A c \in M : c \in L /\ c.addr - HEADER # blk
  <2>1. \A c \in M : c \in L /\ c.addr \in Nat /\ c.addr # b.addr
    BY <1>1 DEF Owned
  <2> QED
    BY <1>2, <1>4, <2>1
<1>8. ASSUME NEW x \in S
      PROVE  x \in Nat /\ blk <= x * PAGE /\ x * PAGE < blk + w[blk]
  <2>1. x \in Nat /\ n <= x /\ x < n + m
    BY <1>6
  <2>2. PICK y \in Nat, z \in Nat, v \in Nat :
           y = n * PAGE /\ z = x * PAGE /\ v = m * PAGE
    BY <1>4, <2>1, MultipleIsNat
  <2>3. (n + m) * PAGE = y + v
    BY <1>4, <2>2
  <2>4. z < y + v
    BY <1>4, <2>1, <2>2, <2>3, MultiplesApart
  <2>5. n = x \/ n < x
    BY <2>1
  <2>6. y <= z
    BY <1>4, <2>1, <2>2, <2>5, MultiplesApart
  <2> QED
    BY <1>3, <2>1, <2>2, <2>4, <2>6
<1>9. FreedPages(f, o, w, M, fr \cup S)
  <2> SUFFICES ASSUME NEW x \in fr \cup S
               PROVE  /\ x \in Nat
                      /\ \E a \in DOMAIN f :
                            /\ o[a] = NULL
                            /\ \A c \in M : c.addr - HEADER # a
                            /\ a <= x * PAGE /\ x * PAGE < a + w[a]
    BY DEF FreedPages
  <2>1. CASE x \in fr
    BY <1>1, <2>1 DEF FreedPages
  <2>2. CASE x \in S
    BY <1>2, <1>7, <1>8, <2>2
  <2> QED
    BY <2>1, <2>2
<1>10. Owned(f, w, F, M)
  BY <1>1 DEF Owned
<1> QED
  BY <1>1, <1>9, <1>10 DEF Shape

\* The first word of a part says whether it is on a list.
Tagged(f, F) ==
    \A a \in DOMAIN f : /\ a \in F <=> "next" \in DOMAIN f[a]
                        /\ a \in F <=> "pool" \notin DOMAIN f[a]

\* A page that is cut up for a pool is cut up to its end.
Cut(f, o) ==
    \A a \in DOMAIN f : o[a] # NULL =>
       \E n \in Nat : /\ a \in Blocks(o[a], n * PAGE)
                      /\ \A b \in Blocks(o[a], n * PAGE) :
                            b \in DOMAIN f /\ o[b] = o[a]

\* Every part on a list is the head or behind another one, and not in a
\* circle.
Ranked(f, h, o, F) ==
    \E rank \in [F -> Nat] : \A a \in F :
       \/ h[o[a]] = a
       \/ \E b \in F : f[b].next = a /\ rank[b] < rank[a]

Complete(f, h, o, F) == Tagged(f, F) /\ Cut(f, o) /\ Ranked(f, h, o, F)

\* What the two kinds of first word have for fields.
LEMMA Tags ==
    /\ \A p, z : /\ "next" \notin DOMAIN [pool |-> p, size |-> z]
                 /\ "pool" \in DOMAIN [pool |-> p, size |-> z]
    /\ \A x : /\ "next" \in DOMAIN [next |-> x]
              /\ "pool" \notin DOMAIN [next |-> x]
  OBVIOUS

\* No part has the address NULL.
LEMMA PartNotNull ==
    ASSUME NEW f, NEW h, NEW k, NEW o, NEW w, NEW F,
           Layout(f, k, o, w), Lists(f, h, o, F), NEW a \in F
    PROVE  a # NULL
<1>1. a \in DOMAIN f /\ a \in Nat /\ PAGE <= a
  BY DEF Lists, Layout
<1> QED
  BY <1>1, KmallocAssumption DEF NULL

\* kmalloc takes the block at the head: the one behind it is the new head.
LEMMA TakeTopComplete ==
    ASSUME NEW f, NEW h, NEW k, NEW o, NEW w, NEW F,
           Layout(f, k, o, w), Lists(f, h, o, F), Complete(f, h, o, F),
           NEW p \in Pool, h[p] # NULL, NEW z
    PROVE  Complete(Over(f, HeaderAt(h[p], p, z)),
                    [h EXCEPT ![p] = f[h[p]].next], o, F \ {h[p]})
<1> DEFINE top == h[p]
           g == Over(f, HeaderAt(top, p, z))
           e == [h EXCEPT ![p] = f[top].next]
           G == F \ {top}
<1>1. Tagged(f, F) /\ Cut(f, o) /\ Ranked(f, h, o, F)
  BY DEF Complete
<1>2. top \in F /\ top \in DOMAIN f /\ F \subseteq DOMAIN f /\ o[top] = p
  BY DEF Lists
<1>3. /\ DOMAIN g = DOMAIN f /\ g[top] = [pool |-> p, size |-> z]
      /\ \A a \in DOMAIN f : a # top => g[a] = f[a]
  BY <1>2 DEF Over, HeaderAt
<1>4. /\ DOMAIN h = Pool /\ e[p] = f[top].next
      /\ \A q \in Pool : q # p => e[q] = h[q]
  BY DEF Lists
<1> HIDE DEF top, g, e
<1>5. Tagged(g, G)
  <2>1. "next" \notin DOMAIN g[top] /\ "pool" \in DOMAIN g[top]
    BY <1>3, Tags
  <2> QED
    BY <1>1, <1>3, <2>1 DEF Tagged
<1>6. Cut(g, o)
  BY <1>1, <1>3 DEF Cut
<1>7. Ranked(g, e, o, G)
  <2>1. PICK rank \in [F -> Nat] : \A a \in F :
           \/ h[o[a]] = a
           \/ \E b \in F : f[b].next = a /\ rank[b] < rank[a]
    BY <1>1 DEF Ranked
  <2> DEFINE r == [a \in G |-> rank[a]]
  <2>2. r \in [G -> Nat]
    OBVIOUS
  <2>3. ASSUME NEW a \in G
        PROVE  \/ e[o[a]] = a
               \/ \E b \in G : g[b].next = a /\ r[b] < r[a]
    <3>1. a \in F /\ a # top /\ o[a] \in Pool
      BY <1>2 DEF Lists, Layout
    <3>2. CASE h[o[a]] = a
      <4>1. o[a] # p
        BY <3>1, <3>2 DEF top
      <4> QED
        BY <1>4, <3>1, <3>2, <4>1
    <3>3. ASSUME NEW b \in F, f[b].next = a, rank[b] < rank[a]
          PROVE  \/ e[o[a]] = a
                 \/ \E x \in G : g[x].next = a /\ r[x] < r[a]
      <4>1. CASE b = top
        <5>1. a # NULL
          BY <3>1, PartNotNull
        <5>2. o[a] = p
          BY <1>2, <3>3, <4>1, <5>1 DEF Lists
        <5> QED
          BY <1>4, <3>3, <4>1, <5>2
      <4>2. CASE b # top
        BY <1>2, <1>3, <3>3, <4>2
      <4> QED
        BY <4>1, <4>2
    <3> QED
      BY <2>1, <3>1, <3>2, <3>3
  <2> QED
    BY <2>2, <2>3 DEF Ranked
<1> QED
  BY <1>5, <1>6, <1>7 DEF Complete, top, g, e

\* kfree puts a block in front of the list of its pool.
LEMMA PutBackComplete ==
    ASSUME NEW f, NEW h, NEW k, NEW o, NEW w, NEW F,
           Layout(f, k, o, w), Lists(f, h, o, F), Complete(f, h, o, F),
           NEW blk \in DOMAIN f \ F, f[blk].pool # NULL
    PROVE  Complete([f EXCEPT ![blk] = [next |-> h[f[blk].pool]]],
                    [h EXCEPT ![f[blk].pool] = blk], o, F \cup {blk})
<1> DEFINE p == f[blk].pool
           g == [f EXCEPT ![blk] = [next |-> h[p]]]
           e == [h EXCEPT ![p] = blk]
           G == F \cup {blk}
<1>1. Tagged(f, F) /\ Cut(f, o) /\ Ranked(f, h, o, F)
  BY DEF Complete
<1>2. p = o[blk] /\ p \in Pool /\ F \subseteq DOMAIN f
  BY DEF Lists, Layout
<1>3. /\ DOMAIN g = DOMAIN f /\ g[blk] = [next |-> h[p]]
      /\ \A a \in DOMAIN f : a # blk => g[a] = f[a]
  OBVIOUS
<1>4. /\ DOMAIN h = Pool /\ e[p] = blk
      /\ \A q \in Pool : q # p => e[q] = h[q]
  BY <1>2 DEF Lists
<1> HIDE DEF p, g, e
<1>5. Tagged(g, G)
  <2>1. "next" \in DOMAIN g[blk] /\ "pool" \notin DOMAIN g[blk]
    BY <1>3, Tags
  <2> QED
    BY <1>1, <1>3, <2>1 DEF Tagged
<1>6. Cut(g, o)
  BY <1>1, <1>3 DEF Cut
<1>7. Ranked(g, e, o, G)
  <2>1. PICK rank \in [F -> Nat] : \A a \in F :
           \/ h[o[a]] = a
           \/ \E b \in F : f[b].next = a /\ rank[b] < rank[a]
    BY <1>1 DEF Ranked
  <2> DEFINE r == [a \in G |-> IF a = blk THEN 0 ELSE rank[a] + 1]
  <2>2. r \in [G -> Nat]
    OBVIOUS
  <2>3. ASSUME NEW a \in G
        PROVE  \/ e[o[a]] = a
               \/ \E b \in G : g[b].next = a /\ r[b] < r[a]
    <3>1. CASE a = blk
      BY <1>2, <1>4, <3>1
    <3>2. CASE a # blk
      <4>1. a \in F /\ rank[a] \in Nat /\ r[a] = rank[a] + 1 /\ o[a] \in Pool
        BY <3>2 DEF Lists, Layout
      <4>2. CASE h[o[a]] = a /\ o[a] # p
        BY <1>4, <4>1, <4>2
      <4>3. CASE h[o[a]] = a /\ o[a] = p
        <5>1. g[blk].next = a /\ r[blk] = 0
          BY <1>3, <4>3
        <5>2. r[blk] < r[a]
          BY <4>1, <5>1
        <5> QED
          BY <5>1, <5>2
      <4>4. ASSUME NEW b \in F, f[b].next = a, rank[b] < rank[a]
            PROVE  \E x \in G : g[x].next = a /\ r[x] < r[a]
        <5>1. b # blk /\ g[b] = f[b] /\ r[b] = rank[b] + 1 /\ rank[b] \in Nat
          BY <1>2, <1>3
        <5>2. r[b] < r[a]
          BY <4>1, <4>4, <5>1
        <5> QED
          BY <4>4, <5>1, <5>2
      <4> QED
        BY <2>1, <4>1, <4>2, <4>3, <4>4
    <3> QED
      BY <3>1, <3>2
  <2> QED
    BY <2>2, <2>3 DEF Ranked
<1> QED
  BY <1>5, <1>6, <1>7 DEF Complete, p, g, e

\* A list without a head is empty.
LEMMA NoHeadNoList ==
    ASSUME NEW f, NEW h, NEW k, NEW o, NEW w, NEW F,
           Layout(f, k, o, w), Lists(f, h, o, F), Ranked(f, h, o, F),
           NEW p \in Pool, h[p] = NULL
    PROVE  \A a \in F : o[a] # p
<1> SUFFICES ASSUME NEW c \in F, o[c] = p PROVE FALSE
  OBVIOUS
<1>1. PICK rank \in [F -> Nat] : \A a \in F :
         \/ h[o[a]] = a
         \/ \E b \in F : f[b].next = a /\ rank[b] < rank[a]
  BY DEF Ranked
<1> DEFINE R == {rank[a] : a \in {x \in F : o[x] = p}}
<1>2. PICK m \in R : \A n \in R : m <= n
  <2>1. R \in SUBSET Nat /\ R # {}
    OBVIOUS
  <2> HIDE DEF R
  <2> QED
    BY <2>1, LeastNat
<1>3. PICK a \in F : o[a] = p /\ rank[a] = m
  BY <1>2
<1>4. a # NULL
  BY PartNotNull
<1>5. PICK b \in F : f[b].next = a /\ rank[b] < rank[a]
  BY <1>1, <1>3, <1>4
<1>6. o[b] = p
  BY <1>3, <1>4, <1>5 DEF Lists
<1>7. rank[b] \in R
  BY <1>6
<1>8. m <= rank[b] /\ rank[b] \in Nat /\ m \in Nat
  BY <1>2, <1>3, <1>7
<1> QED
  BY <1>3, <1>5, <1>8

\* pool_allocate_page links all the blocks of a page, the highest first.
LEMMA NewPageComplete ==
    ASSUME NEW f, NEW h, NEW k \in Nat, NEW o, NEW w, NEW F,
           Layout(f, k, o, w), Lists(f, h, o, F), Complete(f, h, o, F),
           NEW p \in Pool, h[p] = NULL, NEW n \in Nat, k = n * PAGE
    PROVE  Complete(Over(f, Chain(p, k)), [h EXCEPT ![p] = LastBlock(p, k)],
                    Extend(o, Blocks(p, k), p), F \cup Blocks(p, k))
<1> DEFINE d == block_sizes[p]
           B == Blocks(p, k)
           last == LastBlock(p, k)
           g == Over(f, Chain(p, k))
           e == [h EXCEPT ![p] = last]
           o2 == Extend(o, B, p)
           G == F \cup B
<1>1. Tagged(f, F) /\ Cut(f, o) /\ Ranked(f, h, o, F)
  BY DEF Complete
<1>2. /\ k \in B /\ B \subseteq Nat /\ last \in B
      /\ \A a \in B : k <= a /\ a <= last
      /\ \A a \in B : a # last => a + d \in B
  BY BlocksOfPage
<1>3. /\ d \in Nat \ {0} /\ PAGE \in Nat \ {0} /\ p # NULL
  BY PoolFacts, KmallocAssumption DEF NULL
<1>4. /\ F \subseteq DOMAIN f
      /\ \A a \in DOMAIN f : a \in Nat /\ a < k
  <2>1. \A a \in DOMAIN f : a \in Nat /\ w[a] \in Nat \ {0} /\ a + w[a] <= k
    BY DEF Layout
  <2> QED
    BY <2>1 DEF Lists
<1>5. \A a \in DOMAIN f : a \notin B
  BY <1>2, <1>4
<1>6. /\ DOMAIN g = DOMAIN f \cup B
      /\ \A a \in DOMAIN f : g[a] = f[a]
      /\ \A a \in B : g[a] = [next |-> IF a = k THEN NULL ELSE a - d]
  BY <1>5 DEF Over, Chain
<1>7. /\ \A a \in DOMAIN f : o2[a] = o[a] /\ o[a] \in Pool \cup {NULL}
      /\ \A a \in B : o2[a] = p
  <2>1. DOMAIN o = DOMAIN f /\ \A a \in DOMAIN f : o[a] \in Pool \cup {NULL}
    BY DEF Layout
  <2> QED
    BY <1>5, <2>1 DEF Extend
<1>8. /\ DOMAIN h = Pool /\ e[p] = last
      /\ \A q \in Pool : q # p => e[q] = h[q]
  BY DEF Lists
<1>9. \A a \in F : o[a] # p /\ o[a] \in Pool
  BY <1>1, <1>4, <1>7, NoHeadNoList DEF Lists
<1> HIDE DEF d, B, last, g, e, o2
<1>10. Tagged(g, G)
  <2>1. \A a \in B : /\ "next" \in DOMAIN g[a]
                     /\ "pool" \notin DOMAIN g[a]
    BY <1>6, Tags
  <2> QED
    BY <1>1, <1>5, <1>6, <2>1 DEF Tagged
<1>11. Cut(g, o2)
  <2> SUFFICES ASSUME NEW a \in DOMAIN g, o2[a] # NULL
               PROVE  \E l \in Nat : /\ a \in Blocks(o2[a], l * PAGE)
                                     /\ \A b \in Blocks(o2[a], l * PAGE) :
                                          b \in DOMAIN g /\ o2[b] = o2[a]
    BY DEF Cut
  <2>1. CASE a \in DOMAIN f
    <3>1. PICK l \in Nat : /\ a \in Blocks(o[a], l * PAGE)
                           /\ \A b \in Blocks(o[a], l * PAGE) :
                                b \in DOMAIN f /\ o[b] = o[a]
      BY <1>1, <1>7, <2>1 DEF Cut
    <3> QED
      BY <1>6, <1>7, <2>1, <3>1
  <2>2. CASE a \in B
    <3>1. Blocks(o2[a], n * PAGE) = B
      BY <1>7, <2>2 DEF B
    <3> QED
      BY <1>6, <1>7, <2>2, <3>1
  <2> QED
    BY <1>6, <2>1, <2>2
<1>12. Ranked(g, e, o2, G)
  <2>1. PICK rank \in [F -> Nat] : \A a \in F :
           \/ h[o[a]] = a
           \/ \E b \in F : f[b].next = a /\ rank[b] < rank[a]
    BY <1>1 DEF Ranked
  <2> DEFINE r == [a \in G |-> IF a \in B THEN last - a ELSE rank[a]]
  <2>2. r \in [G -> Nat]
    <3>1. \A a \in B : last - a \in Nat
      BY <1>2
    <3> QED
      BY <3>1
  <2>3. ASSUME NEW a \in G
        PROVE  \/ e[o2[a]] = a
               \/ \E b \in G : g[b].next = a /\ r[b] < r[a]
    <3>1. CASE a \in F
      <4>1. a \in DOMAIN f /\ o2[a] = o[a] /\ r[a] = rank[a]
        BY <1>4, <1>5, <1>7, <3>1
      <4>2. CASE h[o[a]] = a
        BY <1>8, <1>9, <3>1, <4>1, <4>2
      <4>3. ASSUME NEW b \in F, f[b].next = a, rank[b] < rank[a]
            PROVE  \E x \in G : g[x].next = a /\ r[x] < r[a]
        <5>1. g[b] = f[b] /\ r[b] = rank[b]
          BY <1>4, <1>5, <1>6
        <5> QED
          BY <4>1, <4>3, <5>1
      <4> QED
        BY <2>1, <3>1, <4>2, <4>3
    <3>2. CASE a \in B /\ a = last
      BY <1>7, <1>8, <3>2
    <3>3. CASE a \in B /\ a # last
      <4>1. a + d \in B /\ a \in Nat /\ last \in Nat /\ k <= a
        BY <1>2, <3>3
      <4>2. a + d # k /\ (a + d) - d = a
        BY <1>3, <4>1
      <4>3. g[a + d].next = a
        BY <1>6, <4>1, <4>2
      <4>4. r[a + d] = last - (a + d) /\ r[a] = last - a
        BY <3>3, <4>1
      <4>5. r[a + d] < r[a]
        BY <1>3, <4>1, <4>4
      <4> QED
        BY <4>1, <4>3, <4>5
    <3> QED
      BY <3>1, <3>2, <3>3
  <2> QED
    BY <2>2, <2>3 DEF Ranked
<1> QED
  BY <1>10, <1>11, <1>12 DEF Complete, d, B, last, g, e, o2

\* A large block is on no list.
LEMMA NewLargeComplete ==
    ASSUME NEW f, NEW h, NEW k \in Nat, NEW o, NEW w, NEW F,
           Layout(f, k, o, w), Lists(f, h, o, F), Complete(f, h, o, F),
           NEW z
    PROVE  Complete(Over(f, HeaderAt(k, NULL, z)), h, Extend(o, {k}, NULL), F)
<1> DEFINE g == Over(f, HeaderAt(k, NULL, z))
           o2 == Extend(o, {k}, NULL)
<1>1. Tagged(f, F) /\ Cut(f, o) /\ Ranked(f, h, o, F)
  BY DEF Complete
<1>2. /\ F \subseteq DOMAIN f
      /\ \A a \in DOMAIN f : a \in Nat /\ a < k
  <2>1. \A a \in DOMAIN f : a \in Nat /\ w[a] \in Nat \ {0} /\ a + w[a] <= k
    BY DEF Layout
  <2> QED
    BY <2>1 DEF Lists
<1>3. k \notin DOMAIN f
  BY <1>2
<1>4. /\ DOMAIN g = DOMAIN f \cup {k}
      /\ \A a \in DOMAIN f : g[a] = f[a]
      /\ g[k] = [pool |-> NULL, size |-> z]
  BY <1>3 DEF Over, HeaderAt
<1>5. /\ \A a \in DOMAIN f : o2[a] = o[a]
      /\ o2[k] = NULL
  <2>1. DOMAIN o = DOMAIN f
    BY DEF Layout
  <2> QED
    BY <1>3, <2>1 DEF Extend
<1> HIDE DEF g, o2
<1>6. Tagged(g, F)
  <2>1. "next" \notin DOMAIN g[k] /\ "pool" \in DOMAIN g[k]
    BY <1>4, Tags
  <2> QED
    BY <1>1, <1>2, <1>3, <1>4, <2>1 DEF Tagged
<1>7. Cut(g, o2)
  <2> SUFFICES ASSUME NEW a \in DOMAIN g, o2[a] # NULL
               PROVE  \E l \in Nat : /\ a \in Blocks(o2[a], l * PAGE)
                                     /\ \A b \in Blocks(o2[a], l * PAGE) :
                                          b \in DOMAIN g /\ o2[b] = o2[a]
    BY DEF Cut
  <2>1. a \in DOMAIN f /\ o2[a] = o[a]
    BY <1>4, <1>5
  <2>2. PICK l \in Nat : /\ a \in Blocks(o[a], l * PAGE)
                         /\ \A b \in Blocks(o[a], l * PAGE) :
                              b \in DOMAIN f /\ o[b] = o[a]
    BY <1>1, <2>1 DEF Cut
  <2> QED
    BY <1>4, <1>5, <2>1, <2>2
<1>8. Ranked(g, h, o2, F)
  <2>1. \A a \in F : g[a] = f[a] /\ o2[a] = o[a]
    BY <1>2, <1>4, <1>5
  <2> QED
    BY <1>1, <2>1 DEF Ranked
<1> QED
  BY <1>6, <1>7, <1>8 DEF Complete, g, o2

\* The heap is made of whole pages and has a shape.
HeapInv == /\ \E n \in Nat \ {0} : brk = n * PAGE
           /\ \E o, w, F : /\ Shape(first, head, brk, live, freed, o, w, F)
                           /\ Complete(first, head, o, F)

\* Every call of kmalloc and kfree keeps the shape of the heap.
LEMMA HeapSteps ==
    HeapInv /\ [Next]_vars => HeapInv'
<1> SUFFICES ASSUME HeapInv, [Next]_vars PROVE HeapInv'
  OBVIOUS
<1>1. PICK n \in Nat \ {0} : brk = n * PAGE
  BY DEF HeapInv
<1>2. PICK o, w, F : /\ Shape(first, head, brk, live, freed, o, w, F)
                     /\ Complete(first, head, o, F)
  BY DEF HeapInv
<1>3. Layout(first, brk, o, w) /\ Lists(first, head, o, F)
  BY <1>2 DEF Shape
<1>4. PAGE \in Nat \ {0} /\ HEADER \in Nat \ {0}
  BY KmallocAssumption
<1>5. /\ brk \in Nat /\ PAGE <= brk /\ brk + PAGE = (n + 1) * PAGE
  <2>1. PICK y \in Nat : n = y + 1
    OBVIOUS
  <2>2. /\ y * PAGE \in Nat /\ n * PAGE = y * PAGE + PAGE
        /\ (n + 1) * PAGE = n * PAGE + PAGE
    BY <1>4, <2>1, MultipleIsNat
  <2> QED
    BY <1>1, <1>4, <2>2
<1>6. ASSUME NEW size \in Sizes, kmalloc_pool(size) PROVE HeapInv'
  <2>1. PICK p \in Pool : /\ p = PoolFor(size)
                          /\ size + HEADER <= block_sizes[p]
    BY <1>6, PoolForFits, KmallocAssumption DEF kmalloc_pool
  <2>2. size \in Nat
    BY KmallocAssumption
  <2>3. freed' = freed
    BY <1>6 DEF kmalloc_pool
  <2>4. CASE head[p] # NULL /\ Take(p, first, head[p], size) /\ brk' = brk
    <3>1. /\ first' = Over(first, HeaderAt(head[p], p, 0))
          /\ head' = [head EXCEPT ![p] = first[head[p]].next]
          /\ live' = live \cup {Held(head[p] + HEADER, size, FALSE)}
      BY <2>4 DEF Take, HeaderAt
    <3>2. Shape(Over(first, HeaderAt(head[p], p, 0)),
                [head EXCEPT ![p] = first[head[p]].next], brk,
                live \cup {Held(head[p] + HEADER, size, FALSE)}, freed,
                o, w, F \ {head[p]})
      BY <1>2, <1>5, <2>1, <2>2, <2>4, TakeTop
    <3>3. Shape(first', head', brk', live', freed', o, w, F \ {head[p]})
      BY <2>3, <2>4, <3>1, <3>2
    <3>4. Complete(Over(first, HeaderAt(head[p], p, 0)),
                   [head EXCEPT ![p] = first[head[p]].next],
                   o, F \ {head[p]})
      BY <1>2, <1>3, <2>4, TakeTopComplete
    <3>5. Complete(first', head', o, F \ {head[p]})
      BY <3>1, <3>4
    <3> QED
      BY <1>1, <2>4, <3>3, <3>5 DEF HeapInv
  <2>5. CASE /\ head[p] = NULL /\ brk' = brk + PAGE
             /\ Take(p, Over(first, Chain(p, brk)), LastBlock(p, brk), size)
    <3> DEFINE f == Over(first, Chain(p, brk))
               h == [head EXCEPT ![p] = LastBlock(p, brk)]
               o2 == Extend(o, Blocks(p, brk), p)
               w2 == Extend(w, Blocks(p, brk), block_sizes[p])
               G == F \cup Blocks(p, brk)
    <3>1. Shape(f, h, brk + PAGE, live, freed, o2, w2, G)
      BY <1>2, <1>5, <2>1, <2>5, NewPage
    <3>2. Complete(f, h, o2, G)
      BY <1>1, <1>2, <1>5, <1>3, <2>5, NewPageComplete
    <3>3. /\ DOMAIN head = Pool /\ h[p] = LastBlock(p, brk)
          /\ LastBlock(p, brk) # NULL
      <4>1. DOMAIN head = Pool
        BY <1>2 DEF Shape, Lists
      <4>2. LastBlock(p, brk) \in Nat /\ brk <= LastBlock(p, brk)
        BY <1>5, BlocksOfPage
      <4> QED
        BY <1>4, <1>5, <4>1, <4>2 DEF NULL
    <3>4. /\ first' = Over(f, HeaderAt(h[p], p, 0))
          /\ head' = [head EXCEPT ![p] = f[h[p]].next]
          /\ live' = live \cup {Held(h[p] + HEADER, size, FALSE)}
      BY <2>5, <3>3 DEF Take, HeaderAt
    <3>5. head' = [h EXCEPT ![p] = f[h[p]].next]
      BY <3>3, <3>4
    <3> HIDE DEF f, h, o2, w2, G
    <3>6. brk + PAGE \in Nat
      BY <1>4, <1>5
    <3>7. Shape(Over(f, HeaderAt(h[p], p, 0)),
                [h EXCEPT ![p] = f[h[p]].next], brk + PAGE,
                live \cup {Held(h[p] + HEADER, size, FALSE)}, freed,
                o2, w2, G \ {h[p]})
      BY <2>1, <2>2, <3>1, <3>3, <3>6, TakeTop
    <3>8. Shape(first', head', brk', live', freed', o2, w2, G \ {h[p]})
      BY <2>3, <2>5, <3>4, <3>5, <3>7
    <3>9. brk' = (n + 1) * PAGE /\ n + 1 \in Nat \ {0}
      BY <1>5, <2>5
    <3>10. Layout(f, brk + PAGE, o2, w2) /\ Lists(f, h, o2, G)
      BY <3>1 DEF Shape
    <3>11. Complete(Over(f, HeaderAt(h[p], p, 0)),
                    [h EXCEPT ![p] = f[h[p]].next], o2, G \ {h[p]})
      BY <3>3, <3>2, <3>10, TakeTopComplete
    <3>12. Complete(first', head', o2, G \ {h[p]})
      BY <3>4, <3>5, <3>11
    <3> QED
      BY <3>8, <3>9, <3>12 DEF HeapInv
  <2> QED
    BY <1>6, <2>1, <2>4, <2>5 DEF kmalloc_pool
<1>7. ASSUME NEW size \in Nat, NEW st, NEW more, Large(size, st, more)
      PROVE  HeapInv'
  <2>1. /\ brk' = brk + num_pages(size + HEADER) * PAGE
        /\ first' = Over(first, HeaderAt(brk, NULL, size + HEADER))
        /\ live' = live \cup {Held(brk + HEADER, size, st)}
        /\ head' = head /\ freed' = freed
    BY <1>7 DEF Large, HeaderAt
  <2>2. PICK m \in Nat \ {0} : /\ m = num_pages(size + HEADER)
                               /\ size + HEADER <= m * PAGE
    <3>1. size + HEADER \in Nat \ {0}
      BY <1>4
    <3> QED
      BY <3>1, NumPages
  <2>3. brk' = brk + m * PAGE
    BY <2>1, <2>2
  <2>4. Shape(Over(first, HeaderAt(brk, NULL, size + HEADER)),
              head, brk + m * PAGE,
              live \cup {Held(brk + HEADER, size, st)}, freed,
              Extend(o, {brk}, NULL), Extend(w, {brk}, m * PAGE), F)
    BY <1>1, <1>2, <1>5, <2>2, NewLarge
  <2>5. Shape(first', head', brk', live', freed',
              Extend(o, {brk}, NULL), Extend(w, {brk}, m * PAGE), F)
    BY <2>1, <2>3, <2>4
  <2>6. n * PAGE + m * PAGE = (n + m) * PAGE /\ n + m \in Nat \ {0}
    BY <1>4
  <2>7. \E l \in Nat \ {0} : brk' = l * PAGE
    BY <1>1, <2>3, <2>6
  <2>8. Complete(Over(first, HeaderAt(brk, NULL, size + HEADER)), head,
                 Extend(o, {brk}, NULL), F)
    BY <1>2, <1>5, <1>3, NewLargeComplete
  <2>9. Complete(first', head', Extend(o, {brk}, NULL), F)
    BY <2>1, <2>8
  <2> QED
    BY <2>5, <2>7, <2>9 DEF HeapInv
<1>8. ASSUME NEW b \in live, kfree_pool(b) PROVE HeapInv'
  <2>1. PICK blk : blk = b.addr - HEADER
    OBVIOUS
  <2>2. /\ first[blk].pool # NULL /\ brk' = brk /\ freed' = freed
        /\ first' = [first EXCEPT ![blk] = [next |-> head[first[blk].pool]]]
        /\ head' = [head EXCEPT ![first[blk].pool] = blk]
        /\ live' = live \ {b}
    BY <1>8, <2>1 DEF kfree_pool
  <2>3. Shape(first', head', brk, live', freed, o, w, F \cup {blk})
    BY <1>2, <1>5, <2>1, <2>2, PutBack
  <2>4. Shape(first', head', brk', live', freed', o, w, F \cup {blk})
    BY <2>2, <2>3
  <2>5. blk \in DOMAIN first \ F
    BY <1>2, <2>1 DEF Shape, Owned
  <2>6. Complete([first EXCEPT ![blk] = [next |-> head[first[blk].pool]]],
                 [head EXCEPT ![first[blk].pool] = blk], o, F \cup {blk})
    BY <1>2, <1>3, <2>2, <2>5, PutBackComplete
  <2>7. Complete(first', head', o, F \cup {blk})
    BY <2>2, <2>6
  <2> QED
    BY <1>1, <2>2, <2>4, <2>7 DEF HeapInv
<1>9. ASSUME NEW b \in live, kfree_large(b) PROVE HeapInv'
  <2>1. PICK blk : blk = b.addr - HEADER
    OBVIOUS
  <2>2. /\ first[blk].pool = NULL /\ brk' = brk
        /\ first' = first /\ head' = head /\ live' = live \ {b}
        /\ freed' = freed \cup
                       PagesFrom(b.addr, num_pages(first[blk].size))
    BY <1>9, <2>1 DEF kfree_large
  <2>3. Shape(first, head, brk, live', freed', o, w, F)
    BY <1>2, <1>5, <2>1, <2>2, FreeLarge
  <2>4. Shape(first', head', brk', live', freed', o, w, F)
    BY <2>2, <2>3
  <2>5. Complete(first', head', o, F)
    BY <1>2, <2>2
  <2> QED
    BY <1>1, <2>2, <2>4, <2>5 DEF HeapInv
<1>10. CASE UNCHANGED <<brk, head, first, freed, live>>
  <2>1. /\ Shape(first', head', brk', live', freed', o, w, F)
        /\ Complete(first', head', o, F) /\ brk' = n * PAGE
    BY <1>1, <1>2, <1>10
  <2> QED
    BY <2>1 DEF HeapInv
<1>11. CASE UNCHANGED vars
  BY <1>10, <1>11 DEF vars
<1>12. ASSUME NEW b \in live, Use(b) PROVE HeapInv'
  BY <1>10, <1>12 DEF Use
<1>13. \A size \in Sizes : kmalloc_large(size) => HeapInv'
  BY <1>7, KmallocAssumption DEF kmalloc_large
<1>14. AllocStack => HeapInv'
  BY <1>7, KmallocAssumption DEF AllocStack
<1> QED
  BY <1>6, <1>8, <1>9, <1>11, <1>12, <1>13, <1>14 DEF Next

\* The heap is empty at first.
LEMMA HeapStart ==
    Init => HeapInv
<1> SUFFICES ASSUME Init PROVE HeapInv
  OBVIOUS
<1>1. PAGE \in Nat \ {0}
  BY KmallocAssumption
<1>2. brk = 1 * PAGE
  BY <1>1 DEF Init, HeapBase
<1> DEFINE e == [a \in {} |-> NULL]
<1>3. DOMAIN first = {} /\ live = {} /\ freed = {}
  BY DEF Init
<1>4. head \in [Pool -> {} \cup {NULL}] /\ \A p \in Pool : head[p] = NULL
  BY DEF Init
<1>5. Layout(first, brk, e, e)
  BY <1>3 DEF Layout
<1>6. Lists(first, head, e, {})
  BY <1>3, <1>4 DEF Lists
<1>7. /\ LargePages(first, e, e) /\ Owned(first, e, {}, live)
      /\ FreedPages(first, e, e, live, freed)
  BY <1>3 DEF LargePages, Owned, FreedPages
<1>8. Shape(first, head, brk, live, freed, e, e, {})
  BY <1>5, <1>6, <1>7 DEF Shape
<1>9. Complete(first, head, e, {})
  <2>1. e \in [{} -> Nat]
    OBVIOUS
  <2>2. Tagged(first, {}) /\ Cut(first, e)
    BY <1>3 DEF Tagged, Cut
  <2>3. Ranked(first, head, e, {})
    BY <2>1 DEF Ranked
  <2> QED
    BY <2>2, <2>3 DEF Complete
<1> QED
  BY <1>2, <1>8, <1>9 DEF HeapInv

\* The heap keeps its shape in every reachable state.
LEMMA HeapInvariant ==
    Spec => []HeapInv
  BY HeapStart, HeapSteps, PTL DEF Spec

\* For every page size, every set of pools and every order of kmalloc and
\* kfree, the blocks that callers hold share no word with each other or with
\* a header, and none reaches behind the break.
THEOREM HeldBlocksDisjoint ==
    Spec => []BlocksDisjoint
<1>1. HeapInv => BlocksDisjoint
  <2> SUFFICES ASSUME HeapInv PROVE BlocksDisjoint
    OBVIOUS
  <2>1. PICK o, w, F : Shape(first, head, brk, live, freed, o, w, F)
    BY DEF HeapInv
  <2>2. /\ Layout(first, brk, o, w) /\ Owned(first, w, F, live)
    BY <2>1 DEF Shape
  <2>3. PICK n \in Nat \ {0} : brk = n * PAGE
    BY DEF HeapInv
  <2>4. brk \in Nat /\ HEADER \in Nat \ {0} /\ PAGE \in Nat \ {0}
    BY <2>3, MultipleIsNat, KmallocAssumption
  <2>5. ASSUME NEW b \in live
        PROVE  /\ b.addr \in Nat /\ b.size \in Nat
               /\ b.addr - HEADER \in DOMAIN first
               /\ b.addr - HEADER \in Nat /\ w[b.addr - HEADER] \in Nat
               /\ b.size + HEADER <= w[b.addr - HEADER]
               /\ PAGE <= b.addr - HEADER
               /\ (b.addr - HEADER) + w[b.addr - HEADER] <= brk
    <3>1. /\ b.addr \in Nat /\ b.size \in Nat
          /\ b.addr - HEADER \in DOMAIN first
          /\ b.size + HEADER <= w[b.addr - HEADER]
      BY <2>2 DEF Owned
    <3> QED
      BY <2>2, <3>1 DEF Layout
  <2>6. ASSUME NEW b \in live
        PROVE  b.addr - HEADER >= HeapBase /\ b.addr + b.size <= brk
    <3>1. PICK a \in Nat, s \in Nat, x \in Nat :
             a = b.addr /\ s = b.size /\ x = w[b.addr - HEADER]
      BY <2>5
    <3>2. s + HEADER <= x /\ PAGE <= a - HEADER /\ (a - HEADER) + x <= brk
      BY <2>5, <3>1
    <3>3. a - HEADER >= PAGE /\ a + s <= brk
      BY <2>4, <3>2
    <3> QED
      BY <3>1, <3>3 DEF HeapBase
  <2>7. ASSUME NEW b \in live, NEW c \in live, b # c
        PROVE  \/ b.addr + b.size <= c.addr - HEADER
               \/ c.addr + c.size <= b.addr - HEADER
    <3>1. PICK a \in Nat, s \in Nat, x \in Nat :
             a = b.addr /\ s = b.size /\ x = w[b.addr - HEADER]
      BY <2>5
    <3>2. PICK a2 \in Nat, s2 \in Nat, x2 \in Nat :
             a2 = c.addr /\ s2 = c.size /\ x2 = w[c.addr - HEADER]
      BY <2>5
    <3>3. s + HEADER <= x /\ s2 + HEADER <= x2
      BY <2>5, <3>1, <3>2
    <3>4. a # a2
      BY <2>2, <2>7, <3>1, <3>2 DEF Owned
    <3>5. /\ a - HEADER < a2 - HEADER => (a - HEADER) + x <= a2 - HEADER
          /\ a2 - HEADER < a - HEADER => (a2 - HEADER) + x2 <= a - HEADER
      BY <2>2, <2>5, <3>1, <3>2 DEF Layout
    <3>6. a + s <= a2 - HEADER \/ a2 + s2 <= a - HEADER
      BY <2>4, <3>3, <3>4, <3>5
    <3> QED
      BY <3>1, <3>2, <3>6
  <2> QED
    BY <2>6, <2>7 DEF BlocksDisjoint
<1> QED
  BY <1>1, HeapInvariant, PTL

\* For every page and stack size with the initial frame no further away than
\* the second page, the header that kmalloc writes and the initial frame that
\* PROC_create_kthread writes have touched the whole stack of every thread.
THEOREM StacksPresent ==
    ASSUME StackInTwoPages
    PROVE  Spec => []StackPresent
<1>1. Init => StackPresent
  BY DEF Init, StackPresent
<1>2. HeapInv /\ StackPresent /\ [Next]_vars => StackPresent'
  <2> SUFFICES ASSUME HeapInv, StackPresent, [Next]_vars PROVE StackPresent'
    OBVIOUS
  <2>1. ASSUME touched \subseteq touched', NEW size, NEW a,
               live' = live \cup {Held(a, size, FALSE)}
        PROVE  StackPresent'
    <3>1. Held(a, size, FALSE).stack = FALSE
      BY DEF Held
    <3> SUFFICES ASSUME NEW b \in live', b.stack
                 PROVE  PagesOf(b.addr, b.size) \subseteq touched'
      BY DEF StackPresent, PagesOf
    <3>2. b \in live
      BY <2>1, <3>1
    <3> QED
      BY <2>1, <3>2 DEF StackPresent
  <2>2. ASSUME touched \subseteq touched', live' \subseteq live
        PROVE  StackPresent'
    <3> SUFFICES ASSUME NEW b \in live', b.stack
                 PROVE  PagesOf(b.addr, b.size) \subseteq touched'
      BY DEF StackPresent, PagesOf
    <3> QED
      BY <2>2 DEF StackPresent
  <2>3. ASSUME NEW size \in Sizes, kmalloc_pool(size) PROVE StackPresent'
    <3>1. touched \subseteq touched'
      BY <2>3 DEF kmalloc_pool
    <3>2. \E a : live' = live \cup {Held(a, size, FALSE)}
      BY <2>3 DEF kmalloc_pool, Take
    <3> QED
      BY <2>1, <3>1, <3>2
  <2>4. ASSUME NEW size \in Sizes, kmalloc_large(size) PROVE StackPresent'
    <3>1. /\ touched \subseteq touched'
          /\ live' = live \cup {Held(brk + HEADER, size, FALSE)}
      BY <2>4 DEF kmalloc_large, Large
    <3> QED
      BY <2>1, <3>1
  <2>5. CASE AllocStack
    <3>1. /\ touched' = (touched \cup {brk \div PAGE})
                           \cup StackFrame(brk + HEADER)
          /\ live' = live \cup {Held(brk + HEADER, PROC_STACK_SIZE, TRUE)}
      BY <2>5 DEF AllocStack, Large
    <3>2. PICK n \in Nat \ {0} : brk = n * PAGE
      BY DEF HeapInv
    <3>3. /\ PAGE \in Nat \ {0} /\ HEADER \in 1 .. PAGE - 1
          /\ PROC_STACK_SIZE \in Nat /\ INITIAL \in Nat \ {0}
          /\ INITIAL <= PROC_STACK_SIZE
          /\ HEADER + PROC_STACK_SIZE - INITIAL < 2 * PAGE
      BY KmallocAssumption, StackInTwoPages DEF StackInTwoPages
    <3>4. PICK y \in Nat : y = n * PAGE /\ (n + 2) * PAGE = y + 2 * PAGE
      BY <3>3, MultipleIsNat
    <3>5. /\ brk \div PAGE = n /\ (brk + HEADER) \div PAGE = n
      <4>1. n * PAGE + 0 = brk /\ n * PAGE + HEADER = brk + HEADER
        BY <3>2, <3>3, <3>4
      <4>2. 0 \in 0 .. PAGE - 1 /\ HEADER \in 0 .. PAGE - 1 /\ n \in Nat
        BY <3>3
      <4> QED
        BY <3>3, <4>1, <4>2, Multiple
    <3>6. PICK s \in Nat, t \in Nat :
             /\ s = (brk + HEADER) + PROC_STACK_SIZE - INITIAL
             /\ t = (brk + HEADER) + PROC_STACK_SIZE - 1
             /\ t = s + INITIAL - 1 /\ s < y + 2 * PAGE
      BY <3>2, <3>3, <3>4
    <3>7. s \div PAGE \in Nat /\ s \div PAGE < n + 2 /\ t \div PAGE \in Nat
      <4>1. n + 2 \in Nat /\ s < (n + 2) * PAGE
        BY <3>4, <3>6
      <4> QED
        BY <3>3, <4>1, DivBounds
    <3>8. /\ StackFrame(brk + HEADER) = (s \div PAGE) .. (t \div PAGE)
          /\ PagesOf(brk + HEADER, PROC_STACK_SIZE) = n .. (t \div PAGE)
      BY <3>5, <3>6 DEF StackFrame, PagesOf
    <3>9. PagesOf(brk + HEADER, PROC_STACK_SIZE) \subseteq touched'
      <4> SUFFICES ASSUME NEW x \in n .. (t \div PAGE)
                   PROVE  x = n \/ x \in (s \div PAGE) .. (t \div PAGE)
        BY <3>1, <3>5, <3>8
      <4> QED
        BY <3>7
    <3> SUFFICES ASSUME NEW b \in live', b.stack
                 PROVE  PagesOf(b.addr, b.size) \subseteq touched'
      BY DEF StackPresent, PagesOf
    <3>10. CASE b \in live
      BY <3>1, <3>10 DEF StackPresent
    <3>11. CASE b = Held(brk + HEADER, PROC_STACK_SIZE, TRUE)
      BY <3>9, <3>11 DEF Held
    <3> QED
      BY <3>1, <3>10, <3>11
  <2>6. ASSUME NEW b \in live, Use(b) \/ kfree_pool(b) \/ kfree_large(b)
        PROVE  StackPresent'
    <3>1. touched \subseteq touched' /\ live' \subseteq live
      BY <2>6 DEF Use, kfree_pool, kfree_large
    <3> QED
      BY <2>2, <3>1
  <2>7. CASE UNCHANGED vars
    BY <2>2, <2>7 DEF vars
  <2> QED
    BY <2>3, <2>4, <2>5, <2>6, <2>7 DEF Next
<1> QED
  BY <1>1, <1>2, HeapInvariant, PTL DEF Spec

\* No part but a large block that is dead lies in a page that was freed.
LEMMA FreedApart ==
    ASSUME NEW f, NEW k \in Nat, NEW L, NEW fr, NEW o, NEW w,
           Layout(f, k, o, w), LargePages(f, o, w),
           FreedPages(f, o, w, L, fr), NEW x \in fr,
           NEW a \in DOMAIN f, NEW words \in Nat \ {0}, words <= w[a],
           o[a] # NULL \/ \E b \in L : b.addr - HEADER = a
    PROVE  x \notin PagesOf(a, words) /\ x # a \div PAGE
<1>1. PICK c \in DOMAIN f : /\ o[c] = NULL
                            /\ \A b \in L : b.addr - HEADER # c
                            /\ c <= x * PAGE /\ x * PAGE < c + w[c]
  BY DEF FreedPages
<1>2. c # a
  BY <1>1
<1>3. PICK n \in Nat, m \in Nat : c = n * PAGE /\ w[c] = m * PAGE
  BY <1>1 DEF LargePages
<1>4. /\ PAGE \in Nat \ {0} /\ x \in Nat /\ a \in Nat /\ c \in Nat
      /\ w[a] \in Nat /\ w[c] \in Nat
  BY <1>1, KmallocAssumption DEF FreedPages, Layout
<1>5. a + w[a] <= c \/ c + w[c] <= a
  BY <1>1, <1>2, <1>4 DEF Layout
<1>6. PICK y \in Nat : y = x * PAGE
  BY <1>4, MultipleIsNat
<1>7. c + w[c] = (n + m) * PAGE /\ n + m \in Nat
  BY <1>3, <1>4
<1>8. PICK t \in Nat : t = a + words - 1 /\ t < a + w[a] /\ a <= t
  BY <1>4
<1>9. n <= x /\ x < n + m
  <2>1. y \div PAGE = x
    <3>1. y = x * PAGE + 0 /\ 0 \in 0 .. PAGE - 1
      BY <1>4, <1>6
    <3> QED
      BY <1>4, <3>1, Multiple
  <2>2. n * PAGE <= y /\ y < (n + m) * PAGE
    BY <1>1, <1>3, <1>6, <1>7
  <2> QED
    BY <1>4, <1>7, <2>1, <2>2, DivBounds
<1>10. PagesOf(a, words) = (a \div PAGE) .. (t \div PAGE)
  BY <1>8 DEF PagesOf
<1>11. a \div PAGE \in Nat /\ t \div PAGE \in Nat
  BY <1>4, <1>8, DivBounds
<1>12. CASE a + w[a] <= c
  <2>1. a < n * PAGE /\ t < n * PAGE
    BY <1>3, <1>4, <1>8, <1>12
  <2>2. t \div PAGE < n /\ a \div PAGE < n
    BY <1>4, <2>1, DivBounds
  <2> QED
    BY <1>4, <1>9, <1>10, <1>11, <2>2
<1>13. CASE c + w[c] <= a
  <2>1. n + m <= a \div PAGE
    BY <1>4, <1>7, <1>13, DivBounds
  <2> QED
    BY <1>4, <1>7, <1>9, <1>10, <1>11, <2>1
<1> QED
  BY <1>5, <1>12, <1>13

\* What lies behind a on a list, and g is a walk of N steps from s.
After(f, a) == IF a = NULL THEN NULL ELSE f[a].next

Walk(f, s, N, g) ==
    g = [n \in 0 .. N |-> IF n = 0 THEN s ELSE After(f, g[n - 1])]

Closed(f, F) == \A a \in F : f[a].next \in F \cup {NULL}

\* There is a walk of every length.
LEMMA WalkExists ==
    ASSUME NEW f, NEW s, NEW N \in Nat
    PROVE  \E g : Walk(f, s, N, g)
<1> DEFINE Bad == {m \in Nat : ~(\E g : Walk(f, s, m, g))}
<1> SUFFICES ASSUME Bad # {} PROVE FALSE
  OBVIOUS
<1>1. PICK m \in Bad : \A n \in Bad : m <= n
  BY LeastNat
<1>2. m # 0
  <2>1. Walk(f, s, 0, [n \in 0 .. 0 |-> s])
    BY DEF Walk
  <2> QED
    BY <2>1
<1>3. PICK l \in Nat : m = l + 1
  BY <1>2
<1>4. l \notin Bad
  BY <1>1, <1>3
<1>5. PICK g : Walk(f, s, l, g)
  BY <1>4
<1> DEFINE e == [n \in 0 .. m |-> IF n = m THEN After(f, g[l]) ELSE g[n]]
<1>6. ASSUME NEW n \in 0 .. m
      PROVE  e[n] = IF n = 0 THEN s ELSE After(f, e[n - 1])
  <2>1. CASE n = m
    <3>1. n # 0 /\ n - 1 = l /\ l \in 0 .. m /\ l # m
      BY <1>3, <2>1
    <3>2. e[n] = After(f, g[l]) /\ e[l] = g[l]
      BY <2>1, <3>1
    <3> QED
      BY <3>1, <3>2
  <2>2. CASE n # m
    <3>1. n \in 0 .. l /\ (n # 0 => n - 1 \in 0 .. m /\ n - 1 # m)
      BY <1>3, <2>2
    <3>2. g[n] = IF n = 0 THEN s ELSE After(f, g[n - 1])
      BY <1>5, <3>1 DEF Walk
    <3>3. e[n] = g[n] /\ (n # 0 => e[n - 1] = g[n - 1])
      BY <2>2, <3>1
    <3> QED
      BY <3>2, <3>3
  <2> QED
    BY <2>1, <2>2
<1>7. e = [n \in 0 .. m |-> e[n]]
  OBVIOUS
<1> HIDE DEF e
<1>8. Walk(f, s, m, e)
  BY <1>6, <1>7 DEF Walk
<1> QED
  BY <1>8

\* A walk along a list stays on it.
LEMMA WalkStays ==
    ASSUME NEW f, NEW s, NEW N \in Nat, NEW g, Walk(f, s, N, g), NEW F,
           s \in F \cup {NULL}, Closed(f, F)
    PROVE  DOMAIN g = 0 .. N /\ \A n \in 0 .. N : g[n] \in F \cup {NULL}
<1>1. /\ DOMAIN g = 0 .. N
      /\ \A n \in 0 .. N : g[n] = IF n = 0 THEN s ELSE After(f, g[n - 1])
  BY DEF Walk
<1> DEFINE Bad == {n \in 0 .. N : g[n] \notin F \cup {NULL}}
<1> SUFFICES ASSUME Bad # {} PROVE FALSE
  BY <1>1
<1>2. PICK m \in Bad : \A n \in Bad : m <= n
  <2>1. Bad \in SUBSET Nat
    OBVIOUS
  <2> HIDE DEF Bad
  <2> QED
    BY <2>1, LeastNat
<1>3. m # 0
  BY <1>1
<1>4. m - 1 \in 0 .. N /\ m - 1 \notin Bad
  BY <1>2, <1>3
<1>5. g[m - 1] \in F \cup {NULL} /\ g[m] = After(f, g[m - 1])
  BY <1>1, <1>3, <1>4
<1> QED
  BY <1>5 DEF After, Closed

\* The list of a pool is a walk from its head.
LEMMA ListIsWalk ==
    ASSUME NEW N \in Nat, N = Cardinality(DOMAIN first), NEW p \in Pool
    PROVE  \E g : /\ Walk(first, head[p], N, g)
                  /\ OnList(p) = {<<g[n], n>> : n \in DOMAIN g}
                                    \ ({NULL} \X DOMAIN g)
<1> DEFINE node[n \in 0 .. Cardinality(DOMAIN first)] ==
              IF n = 0 THEN head[p]
              ELSE LET last == node[n - 1]
                   IN  IF last = NULL THEN NULL ELSE first[last].next
<1>1. \E g : Walk(first, head[p], N, g)
  BY WalkExists
<1>2. \E g : g = [n \in 0 .. Cardinality(DOMAIN first) |->
                    IF n = 0 THEN head[p]
                    ELSE LET last == g[n - 1]
                         IN  IF last = NULL THEN NULL ELSE first[last].next]
  BY <1>1 DEF Walk, After
<1>3. node = [n \in 0 .. Cardinality(DOMAIN first) |->
                    IF n = 0 THEN head[p]
                    ELSE LET last == node[n - 1]
                         IN  IF last = NULL THEN NULL ELSE first[last].next]
  BY <1>2
<1>4. OnList(p) = {<<node[n], n>> : n \in DOMAIN node}
                     \ ({NULL} \X DOMAIN node)
  BY DEF OnList
<1>5. PICK g : g = node
  OBVIOUS
<1>6. Walk(first, head[p], N, g)
  BY <1>3, <1>5 DEF Walk, After
<1>7. OnList(p) = {<<g[n], n>> : n \in DOMAIN g} \ ({NULL} \X DOMAIN g)
  BY <1>4, <1>5
<1> QED
  BY <1>6, <1>7

\* The nodes that a walk passes.
Passed(g) == {n \in DOMAIN g : g[n] # NULL}

\* What Free makes of the list of a pool.
LEMMA FreeIsWalk ==
    ASSUME NEW N \in Nat, N = Cardinality(DOMAIN first), NEW p \in Pool
    PROVE  \E g : /\ Walk(first, head[p], N, g)
                  /\ OnList(p) = {<<g[n], n>> : n \in Passed(g)}
                  /\ Free(p) = {g[n] : n \in Passed(g)}
<1>1. PICK g : /\ Walk(first, head[p], N, g)
               /\ OnList(p) = {<<g[n], n>> : n \in DOMAIN g}
                                 \ ({NULL} \X DOMAIN g)
  BY ListIsWalk
<1>2. OnList(p) = {<<g[n], n>> : n \in Passed(g)}
  BY <1>1 DEF Passed
<1>3. Free(p) = {g[n] : n \in Passed(g)}
  <2>1. Free(p) = {x[1] : x \in OnList(p)}
    BY DEF Free
  <2>2. ASSUME NEW a \in Free(p) PROVE a \in {g[n] : n \in Passed(g)}
    <3>1. PICK x \in OnList(p) : a = x[1]
      BY <2>1
    <3>2. PICK n \in Passed(g) : x = <<g[n], n>>
      BY <1>2
    <3> QED
      BY <3>1, <3>2
  <2>3. ASSUME NEW n \in Passed(g) PROVE g[n] \in Free(p)
    <3>1. <<g[n], n>> \in OnList(p) /\ <<g[n], n>>[1] = g[n]
      BY <1>2
    <3> QED
      BY <2>1, <3>1
  <2> QED
    BY <2>2, <2>3
<1> QED
  BY <1>1, <1>2, <1>3

\* What is on the list of a pool was put there.
LEMMA FreeOnLists ==
    ASSUME NEW N \in Nat, N = Cardinality(DOMAIN first), NEW p \in Pool,
           NEW F, head[p] \in F \cup {NULL}, Closed(first, F)
    PROVE  Free(p) \subseteq F
<1>1. PICK g : /\ Walk(first, head[p], N, g)
               /\ OnList(p) = {<<g[n], n>> : n \in Passed(g)}
               /\ Free(p) = {g[n] : n \in Passed(g)}
  BY FreeIsWalk
<1>2. DOMAIN g = 0 .. N /\ \A n \in 0 .. N : g[n] \in F \cup {NULL}
  BY <1>1, WalkStays
<1> QED
  BY <1>1, <1>2 DEF Passed

\* The heap has finitely many parts.
LEMMA PartsFinite ==
    ASSUME NEW f, NEW k \in Nat, NEW o, NEW w, Layout(f, k, o, w)
    PROVE  IsFiniteSet(DOMAIN f)
<1>1. ASSUME NEW x \in DOMAIN f PROVE x \in 0 .. k
  <2>1. x \in Nat /\ w[x] \in Nat /\ x + w[x] <= k
    BY DEF Layout
  <2> QED
    BY <2>1
<1>2. DOMAIN f \in SUBSET (0 .. k) /\ IsFiniteSet(0 .. k)
  BY <1>1, FS_Interval
<1> QED
  BY <1>2, FS_Subset

\* For every page size, every set of pools and every order of calls, the pages
\* that kfree hands to MMU_free_pages hold no word of another block, be it
\* held or on a pool's list.
THEOREM FreesOnlyItsPages ==
    Spec => []FreesOwnPages
<1>1. HeapInv => FreesOwnPages
  <2> SUFFICES ASSUME HeapInv PROVE FreesOwnPages
    OBVIOUS
  <2>1. PICK o, w, F : Shape(first, head, brk, live, freed, o, w, F)
    BY DEF HeapInv
  <2>2. PICK n \in Nat \ {0} : brk = n * PAGE
    BY DEF HeapInv
  <2>3. brk \in Nat /\ HEADER \in Nat \ {0}
    BY <2>2, MultipleIsNat, KmallocAssumption
  <2>4. /\ Layout(first, brk, o, w) /\ LargePages(first, o, w)
        /\ FreedPages(first, o, w, live, freed)
        /\ Owned(first, w, F, live) /\ Lists(first, head, o, F)
    BY <2>1 DEF Shape
  <2>5. ASSUME NEW b \in live
        PROVE  PagesOf(b.addr - HEADER, b.size + HEADER) \cap freed = {}
    <3>1. /\ b.addr - HEADER \in DOMAIN first /\ b.size \in Nat
          /\ b.size + HEADER <= w[b.addr - HEADER]
      BY <2>4 DEF Owned
    <3>2. b.size + HEADER \in Nat \ {0}
      BY <2>3, <3>1
    <3>3. ASSUME NEW x \in freed
          PROVE  x \notin PagesOf(b.addr - HEADER, b.size + HEADER)
      BY <2>3, <2>4, <3>1, <3>2, FreedApart
    <3> QED
      BY <3>3
  <2>6. ASSUME NEW p \in Pool, NEW a \in DOMAIN first, a \in Free(p)
        PROVE  (a \div PAGE) \notin freed
    <3>1. PICK N \in Nat : N = Cardinality(DOMAIN first)
      <4>1. IsFiniteSet(DOMAIN first)
        BY <2>3, <2>4, PartsFinite
      <4> QED
        BY <4>1, FS_CardinalityType
    <3>2. Free(p) \subseteq F
      BY <2>4, <3>1, FreeOnLists DEF Lists, Closed
    <3>3. o[a] # NULL /\ w[a] \in Nat \ {0}
      BY <2>4, <2>6, <3>2 DEF Lists, Layout
    <3>4. ASSUME NEW x \in freed PROVE x # a \div PAGE
      <4>1. w[a] <= w[a]
        BY <3>3
      <4> QED
        BY <2>3, <2>4, <3>3, <4>1, FreedApart
    <3> QED
      BY <3>4
  <2> QED
    BY <2>5, <2>6 DEF FreesOwnPages
<1> QED
  BY <1>1, HeapInvariant, PTL

\* No two nodes point at the same one, and none at the head.
Chained(f, s, F) ==
    /\ \A a, b \in F : f[a].next = f[b].next /\ f[a].next # NULL => a = b
    /\ s # NULL => \A a \in F : f[a].next # s

\* A walk along a list comes to no node twice.
LEMMA WalkOnce ==
    ASSUME NEW f, NEW s, NEW N \in Nat, NEW g, Walk(f, s, N, g), NEW F,
           s \in F \cup {NULL}, Closed(f, F), Chained(f, s, F)
    PROVE  \A x1, y1 \in 0 .. N : g[x1] = g[y1] /\ g[x1] # NULL => x1 = y1
<1> DEFINE Bad == {x \in 0 .. N : \E y \in 0 .. N :
                                     x < y /\ g[x] = g[y] /\ g[x] # NULL}
<1>1. \A x \in 0 .. N : g[x] \in F \cup {NULL}
  BY WalkStays
<1>2. \A x \in 0 .. N : g[x] = IF x = 0 THEN s ELSE After(f, g[x - 1])
  BY DEF Walk
<1>3. ASSUME NEW x \in 1 .. N, g[x] # NULL
      PROVE  /\ x - 1 \in 0 .. N /\ g[x - 1] \in F
             /\ g[x] = f[g[x - 1]].next
  <2>1. x \in 0 .. N /\ x # 0 /\ x - 1 \in 0 .. N
    OBVIOUS
  <2>2. g[x] = After(f, g[x - 1])
    BY <1>2, <2>1
  <2> QED
    BY <1>1, <1>3, <2>1, <2>2 DEF After
<1>4. Bad = {}
  <2> SUFFICES ASSUME Bad # {} PROVE FALSE
    OBVIOUS
  <2>1. PICK m \in Bad : \A n \in Bad : m <= n
    <3>1. Bad \in SUBSET Nat
      OBVIOUS
    <3> HIDE DEF Bad
    <3> QED
      BY <3>1, LeastNat
  <2>2. PICK y \in 0 .. N : m < y /\ g[m] = g[y] /\ g[m] # NULL
    OBVIOUS
  <2>3. m \in 0 .. N /\ y \in 1 .. N
    BY <2>2
  <2>4. y - 1 \in 0 .. N /\ g[y - 1] \in F /\ g[y] = f[g[y - 1]].next
    BY <1>3, <2>2, <2>3
  <2>5. CASE m = 0
    <3>1. s = g[y] /\ s # NULL
      BY <1>2, <2>2, <2>3, <2>5
    <3> QED
      BY <2>4, <3>1 DEF Chained
  <2>6. CASE m # 0
    <3>1. m \in 1 .. N
      BY <2>3, <2>6
    <3>2. m - 1 \in 0 .. N /\ g[m - 1] \in F /\ g[m] = f[g[m - 1]].next
      BY <1>3, <2>2, <3>1
    <3>3. g[m - 1] = g[y - 1]
      BY <2>2, <2>4, <3>2 DEF Chained
    <3>4. g[m - 1] # NULL
      <4>1. g[m - 1] = NULL => g[m] = NULL
        BY <1>2, <2>3, <2>6 DEF After
      <4> QED
        BY <2>2, <4>1
    <3>5. m - 1 < y - 1
      BY <2>2, <2>3
    <3>6. m - 1 \in Bad
      BY <2>4, <3>2, <3>3, <3>4, <3>5
    <3> QED
      BY <2>1, <2>3, <3>6
  <2> QED
    BY <2>5, <2>6
<1> SUFFICES ASSUME NEW x1 \in 0 .. N, NEW y1 \in 0 .. N, g[x1] = g[y1],
                    g[x1] # NULL, x1 # y1
             PROVE  FALSE
  OBVIOUS
<1>5. x1 < y1 \/ y1 < x1
  OBVIOUS
<1>6. x1 \in Bad \/ y1 \in Bad
  BY <1>5
<1> QED
  BY <1>4, <1>6

\* A walk as long as the heap has parts reaches the whole list of pool p.
LEMMA WalkReaches ==
    ASSUME NEW f, NEW h, NEW k, NEW o, NEW w, NEW F,
           Layout(f, k, o, w), Lists(f, h, o, F), Ranked(f, h, o, F),
           IsFiniteSet(DOMAIN f), NEW N \in Nat, N = Cardinality(DOMAIN f),
           NEW p \in Pool, NEW g, Walk(f, h[p], N, g),
           NEW c \in F, o[c] = p
    PROVE  \E n \in 0 .. N : g[n] = c
<1>1. PICK rank \in [F -> Nat] : \A a \in F :
         \/ h[o[a]] = a
         \/ \E b \in F : f[b].next = a /\ rank[b] < rank[a]
  BY DEF Ranked
<1>2. PICK s : s = h[p]
  OBVIOUS
<1>3. s \in F \cup {NULL} /\ F \subseteq DOMAIN f
  BY <1>2 DEF Lists
<1>4. Closed(f, F)
  BY DEF Lists, Closed
<1>5. Chained(f, s, F)
  BY <1>2 DEF Lists, Chained
<1>6. Walk(f, s, N, g)
  BY <1>2
<1>7. \A x1, y1 \in 0 .. N : g[x1] = g[y1] /\ g[x1] # NULL => x1 = y1
  BY <1>3, <1>4, <1>5, <1>6, WalkOnce
<1>8. DOMAIN g = 0 .. N /\ \A x1 \in 0 .. N : g[x1] \in F \cup {NULL}
  BY <1>3, <1>4, <1>6, WalkStays
<1>9. \A x1 \in 0 .. N : g[x1] = IF x1 = 0 THEN h[p] ELSE After(f, g[x1 - 1])
  BY DEF Walk
<1>10. g[N] = NULL
  <2> SUFFICES ASSUME g[N] # NULL PROVE FALSE
    OBVIOUS
  <2>1. \A x1 \in 0 .. N : g[x1] # NULL
    <3> DEFINE Bad == {x \in Nat : x <= N /\ g[N - x] = NULL}
    <3> SUFFICES ASSUME Bad # {} PROVE FALSE
      <4>1. ASSUME NEW x1 \in 0 .. N, g[x1] = NULL PROVE N - x1 \in Bad
        <5>1. N - x1 \in Nat /\ N - x1 <= N /\ N - (N - x1) = x1
          OBVIOUS
        <5> QED
          BY <4>1, <5>1
      <4> QED
        BY <4>1
    <3>1. PICK m \in Bad : \A x \in Bad : m <= x
      <4>1. Bad \in SUBSET Nat
        OBVIOUS
      <4> HIDE DEF Bad
      <4> QED
        BY <4>1, LeastNat
    <3>2. m \in Nat /\ m <= N /\ g[N - m] = NULL
      OBVIOUS
    <3>3. m # 0
      BY <3>2
    <3>4. PICK l \in Nat : m = l + 1
      BY <3>2, <3>3
    <3>5. /\ N - l \in 0 .. N /\ N - l # 0 /\ (N - l) - 1 = N - m
          /\ l <= N /\ ~(m <= l)
      BY <3>2, <3>4
    <3>6. g[N - l] = NULL
      BY <1>9, <3>2, <3>5 DEF After
    <3> QED
      BY <3>1, <3>5, <3>6
  <2>2. g \in [0 .. N -> DOMAIN f]
    <3>1. \A x1 \in 0 .. N : g[x1] \in DOMAIN f
      BY <1>3, <1>8, <2>1
    <3>2. g = [x1 \in 0 .. N |-> g[x1]]
      BY <1>8 DEF Walk
    <3> QED
      BY <3>1, <3>2
  <2>3. g \in Injection(0 .. N, DOMAIN f)
    BY <1>7, <2>1, <2>2 DEF Injection, IsInjective
  <2>4. Cardinality(0 .. N) <= N
    BY <2>3, FS_Injection
  <2>5. Cardinality(0 .. N) = N + 1
    <3>1. 0 \in Int /\ N \in Int /\ ~(0 > N) /\ N - 0 + 1 = N + 1
      OBVIOUS
    <3> QED
      BY <3>1, FS_Interval
  <2> QED
    BY <2>4, <2>5
<1> DEFINE Lost == {a \in F : o[a] = p /\ \A n \in 0 .. N : g[n] # a}
<1> SUFFICES ASSUME Lost # {} PROVE FALSE
  OBVIOUS
<1>11. PICK a \in Lost : \A b \in Lost : rank[a] <= rank[b]
  <2> DEFINE R == {rank[b] : b \in Lost}
  <2>1. R \in SUBSET Nat /\ R # {}
    OBVIOUS
  <2>2. PICK m \in R : \A x \in R : m <= x
    <3> HIDE DEF R
    <3> QED
      BY <2>1, LeastNat
  <2> QED
    BY <2>2
<1>12. a \in F /\ o[a] = p /\ \A n \in 0 .. N : g[n] # a
  OBVIOUS
<1>13. a # NULL
  BY <1>12, PartNotNull
<1>14. h[o[a]] # a
  <2>1. 0 \in 0 .. N /\ g[0] = h[p]
    BY <1>9
  <2> QED
    BY <1>12, <2>1
<1>15. PICK b \in F : f[b].next = a /\ rank[b] < rank[a]
  BY <1>1, <1>12, <1>14
<1>16. o[b] = p
  BY <1>12, <1>13, <1>15 DEF Lists
<1>17. rank[a] \in Nat /\ rank[b] \in Nat
  BY <1>12
<1>18. b \notin Lost
  BY <1>11, <1>15, <1>17
<1>19. PICK n \in 0 .. N : g[n] = b
  BY <1>16, <1>18
<1>20. b # NULL
  BY PartNotNull
<1>21. n # N
  BY <1>10, <1>19, <1>20
<1>22. n + 1 \in 0 .. N /\ n + 1 # 0 /\ (n + 1) - 1 = n
  BY <1>21
<1>23. g[n + 1] = a
  BY <1>9, <1>15, <1>19, <1>20, <1>22 DEF After
<1> QED
  BY <1>12, <1>22, <1>23

\* A function that takes no value twice has as many values as arguments.
LEMMA ImageSize ==
    ASSUME NEW I, IsFiniteSet(I), NEW e, DOMAIN e = I,
           e = [x \in I |-> e[x]],
           \A x, y \in I : e[x] = e[y] => x = y
    PROVE  Cardinality({e[x] : x \in I}) = Cardinality(I)
<1> DEFINE T == {e[x] : x \in I}
<1>1. e \in [I -> T]
  OBVIOUS
<1>2. \A t \in T : \E x \in I : e[x] = t
  OBVIOUS
<1> HIDE DEF T
<1>3. e \in Injection(I, T) /\ e \in Surjection(I, T)
  BY <1>1, <1>2 DEF Injection, IsInjective, Surjection
<1>4. Cardinality(T) = Cardinality(I)
  BY <1>3, FS_Surjection
<1> QED
  BY <1>4 DEF T

\* The list of a pool has no node twice, and its nodes are the parts of the
\* pool that are free.
LEMMA ListOfPool ==
    ASSUME NEW o, NEW w, NEW F, Layout(first, brk, o, w),
           Lists(first, head, o, F), Ranked(first, head, o, F),
           IsFiniteSet(DOMAIN first), NEW p \in Pool
    PROVE  /\ Free(p) = {a \in F : o[a] = p}
           /\ Cardinality(Free(p)) = Cardinality(OnList(p))
<1> DEFINE S == {a \in F : o[a] = p}
<1>1. PICK N \in Nat : N = Cardinality(DOMAIN first)
  BY FS_CardinalityType
<1>2. PICK g : /\ Walk(first, head[p], N, g)
               /\ OnList(p) = {<<g[n], n>> : n \in Passed(g)}
               /\ Free(p) = {g[n] : n \in Passed(g)}
  BY <1>1, FreeIsWalk
<1>3. PICK s : s = head[p]
  OBVIOUS
<1>4. PICK f : f = first
  OBVIOUS
<1>5. s \in S \cup {NULL}
  BY <1>3 DEF Lists
<1>6. Closed(f, S)
  BY <1>4 DEF Lists, Closed
<1>7. Chained(f, s, S)
  BY <1>3, <1>4 DEF Lists, Chained
<1>8. Walk(f, s, N, g)
  BY <1>2, <1>3, <1>4
<1> HIDE DEF S
<1>9. DOMAIN g = 0 .. N /\ \A n \in 0 .. N : g[n] \in S \cup {NULL}
  BY <1>5, <1>6, <1>8, WalkStays
<1>10. \A x, y \in 0 .. N : g[x] = g[y] /\ g[x] # NULL => x = y
  BY <1>5, <1>6, <1>7, <1>8, WalkOnce
<1>11. Free(p) \subseteq S
  BY <1>2, <1>9 DEF Passed
<1>12. S \subseteq Free(p)
  <2> SUFFICES ASSUME NEW c \in S PROVE c \in Free(p)
    OBVIOUS
  <2>1. c \in F /\ o[c] = p
    BY DEF S
  <2>2. PICK n \in 0 .. N : g[n] = c
    BY <1>1, <1>2, <2>1, WalkReaches
  <2>3. c # NULL
    BY <2>1, PartNotNull
  <2> QED
    BY <1>2, <1>9, <2>2, <2>3 DEF Passed
<1>13. Cardinality(Free(p)) = Cardinality(OnList(p))
  <2>1. PICK I : I = Passed(g)
    OBVIOUS
  <2>2. I \in SUBSET (0 .. N) /\ IsFiniteSet(0 .. N)
    BY <1>9, <2>1, FS_Interval DEF Passed
  <2>3. IsFiniteSet(I)
    BY <2>2, FS_Subset
  <2>4. \A x, y \in I : g[x] = g[y] => x = y
    BY <1>9, <1>10, <2>1 DEF Passed
  <2> DEFINE e1 == [x \in I |-> g[x]]
             e2 == [x \in I |-> <<g[x], x>>]
  <2>5. /\ DOMAIN e1 = I /\ e1 = [x \in I |-> e1[x]]
        /\ \A x, y \in I : e1[x] = e1[y] => x = y
        /\ {e1[x] : x \in I} = Free(p)
    BY <1>2, <2>1, <2>4
  <2>6. /\ DOMAIN e2 = I /\ e2 = [x \in I |-> e2[x]]
        /\ \A x, y \in I : e2[x] = e2[y] => x = y
        /\ {e2[x] : x \in I} = OnList(p)
    BY <1>2, <2>1
  <2> HIDE DEF e1, e2
  <2>7. Cardinality({e1[x] : x \in I}) = Cardinality(I)
    BY <2>3, <2>5, ImageSize
  <2>8. Cardinality({e2[x] : x \in I}) = Cardinality(I)
    BY <2>3, <2>6, ImageSize
  <2> QED
    BY <2>5, <2>6, <2>7, <2>8
<1> QED
  BY <1>11, <1>12, <1>13 DEF S

\* A page is cut into as many blocks as fit.
LEMMA BlockCount ==
    ASSUME NEW p \in Pool, NEW k \in Nat
    PROVE  Cardinality(Blocks(p, k)) = PAGE \div block_sizes[p]
<1>1. PICK d \in Nat \ {0} : d = block_sizes[p]
  BY PoolFacts
<1>2. PICK m \in Nat \ {0} : PAGE = m * d
  BY <1>1, PoolFacts
<1>3. /\ \A q \in Nat : q < m => k + q * d \in Blocks(p, k)
      /\ \A a \in Blocks(p, k) : \E q \in Nat : q < m /\ a = k + q * d
  <2>1. Spaced(p, k, d, m)
    BY <1>1, <1>2, BlockIndex
  <2> QED
    BY <2>1 DEF Spaced
<1> DEFINE I == 0 .. m - 1
           e == [q \in I |-> k + q * d]
<1>4. \A q \in Nat : q \in I <=> q < m
  OBVIOUS
<1>5. IsFiniteSet(I) /\ Cardinality(I) = m
  <2>1. 0 \in Int /\ m - 1 \in Int /\ ~(0 > m - 1) /\ (m - 1) - 0 + 1 = m
    OBVIOUS
  <2> QED
    BY <2>1, FS_Interval
<1>6. DOMAIN e = I /\ e = [q \in I |-> e[q]]
  OBVIOUS
<1>7. {e[q] : q \in I} = Blocks(p, k)
  <2>1. ASSUME NEW q \in I PROVE e[q] \in Blocks(p, k)
    BY <1>3, <1>4
  <2>2. ASSUME NEW a \in Blocks(p, k) PROVE \E q \in I : a = e[q]
    <3>1. PICK q \in Nat : q < m /\ a = k + q * d
      BY <1>3
    <3>2. q \in I /\ e[q] = a
      BY <1>4, <3>1
    <3> QED
      BY <3>2
  <2> QED
    BY <2>1, <2>2
<1>8. ASSUME NEW x \in I, NEW y \in I, e[x] = e[y] PROVE x = y
  <2>1. x \in Nat /\ y \in Nat /\ k + x * d = k + y * d
    BY <1>8
  <2>2. PICK u \in Nat, v \in Nat : u = x * d /\ v = y * d
    BY <2>1, MultipleIsNat
  <2>3. u = v
    BY <2>1, <2>2
  <2>4. ~(x < y) /\ ~(y < x)
    BY <2>1, <2>2, <2>3, MultiplesApart
  <2> QED
    BY <2>1, <2>4
<1> HIDE DEF I, e
<1>9. Cardinality({e[q] : q \in I}) = Cardinality(I)
  BY <1>5, <1>6, <1>8, ImageSize
<1>10. PAGE \div d = m
  <2>1. m * d + 0 = PAGE /\ 0 \in 0 .. d - 1 /\ m \in Nat
    BY <1>2, MultipleIsNat
  <2> QED
    BY <2>1, Multiple
<1> QED
  BY <1>1, <1>5, <1>7, <1>9, <1>10

\* The parts that lie in a page with a part of pool p are the blocks that the
\* page was cut into.
LEMMA PageOfPart ==
    ASSUME NEW f, NEW k, NEW o, NEW w, Layout(f, k, o, w), Cut(f, o),
           NEW p \in Pool, NEW a \in DOMAIN f, o[a] = p
    PROVE  /\ a % block_sizes[p] = 0
           /\ \E l \in Nat : {b \in DOMAIN f : b \div PAGE = a \div PAGE}
                                = Blocks(p, l)
<1>1. PICK d \in Nat \ {0} : d = block_sizes[p]
  BY PoolFacts
<1>2. PICK m \in Nat \ {0} : PAGE = m * d
  BY <1>1, PoolFacts
<1>3. PAGE \in Nat \ {0} /\ p # NULL
  BY PoolFacts, KmallocAssumption DEF NULL
<1>4. PICK n \in Nat :
         /\ a \in Blocks(p, n * PAGE)
         /\ \A b \in Blocks(p, n * PAGE) : b \in DOMAIN f /\ o[b] = p
  BY <1>3 DEF Cut
<1>5. PICK l \in Nat : l = n * PAGE /\ (n + 1) * PAGE = l + PAGE
  BY <1>3, MultipleIsNat
<1>6. /\ \A q \in Nat : q < m => l + q * d \in Blocks(p, l)
      /\ \A b \in Blocks(p, l) : \E q \in Nat : q < m /\ b = l + q * d
  <2>1. Spaced(p, l, d, m)
    BY <1>1, <1>2, BlockIndex
  <2> QED
    BY <2>1 DEF Spaced
<1>7. \A b \in Blocks(p, l) : b \in Nat /\ l <= b /\ b + d <= l + PAGE
  BY <1>1, BlocksOfPage
<1>8. \A b \in Blocks(p, l) : b \in DOMAIN f /\ b \div PAGE = n
  <2> SUFFICES ASSUME NEW b \in Blocks(p, l) PROVE b \div PAGE = n
    BY <1>4, <1>5
  <2>1. PICK r \in 0 .. PAGE - 1 : b = l + r
    <3>1. b \in Nat /\ l <= b /\ b + d <= l + PAGE
      BY <1>7
    <3>2. b - l \in 0 .. PAGE - 1 /\ b = l + (b - l)
      BY <1>3, <3>1
    <3> QED
      BY <3>2
  <2> QED
    BY <1>3, <1>5, <2>1, Multiple
<1>9. ASSUME NEW b \in DOMAIN f, b \div PAGE = n PROVE b \in Blocks(p, l)
  <2>1. b \in Nat
    BY DEF Layout
  <2>2. PICK x \in 0 .. PAGE - 1 : b = l + x
    <3>1. PICK c \in Nat, r \in 0 .. PAGE - 1 :
             b = c * PAGE + r /\ b % PAGE = r /\ b \div PAGE = c
      BY <1>3, <2>1, Quotient
    <3>2. c = n
      BY <1>9, <3>1
    <3> QED
      BY <1>5, <3>1, <3>2
  <2>3. PICK q \in Nat, r \in 0 .. d - 1 : x = q * d + r
    <3>1. x \in Nat
      BY <1>3, <2>2
    <3> QED
      BY <3>1, Quotient
  <2>4. PICK y \in Nat : y = q * d
    BY MultipleIsNat
  <2>5. q < m
    <3>1. y < PAGE
      BY <1>3, <2>2, <2>3, <2>4
    <3> QED
      BY <1>2, <2>4, <3>1, MultiplesApart
  <2>6. l + y \in Blocks(p, l)
    BY <1>6, <2>4, <2>5
  <2>7. l + y \in DOMAIN f /\ o[l + y] = p /\ w[l + y] = d
    <3>1. l + y \in DOMAIN f /\ o[l + y] = p
      BY <1>4, <1>5, <2>6
    <3> QED
      BY <1>1, <1>3, <3>1 DEF Layout
  <2>8. l + y < b => (l + y) + d <= b
    BY <2>7 DEF Layout
  <2>9. b = l + y
    BY <2>2, <2>3, <2>4, <2>8
  <2> QED
    BY <2>6, <2>9
<1>10. {b \in DOMAIN f : b \div PAGE = a \div PAGE} = Blocks(p, l)
  <2>1. a \div PAGE = n
    BY <1>4, <1>5, <1>8
  <2> QED
    BY <1>8, <1>9, <2>1
<1>11. a % d = 0
  <2>1. PICK q \in Nat : a = l + q * d
    BY <1>4, <1>5, <1>6
  <2>2. l + q * d = (n * m + q) * d
    BY <1>2, <1>5
  <2>3. n * m + q \in Nat
    OBVIOUS
  <2>4. PICK z \in Nat : z = n * m + q
    BY <2>3
  <2>5. (z * d) % d = 0
    BY MultipleIsNat
  <2> QED
    BY <2>1, <2>2, <2>4, <2>5
<1> QED
  BY <1>1, <1>10, <1>11

\* For every page size, every set of pools and every order of kmalloc and
\* kfree, a block of a pool is on one list, at one place, or held, a block
\* that was freed is found again by a walk from the head of its pool, and the
\* page it was cut from holds no part of another pool.
THEOREM BlocksConserved ==
    Spec => []Conserved
<1>1. HeapInv => Conserved
  <2> SUFFICES ASSUME HeapInv PROVE Conserved
    OBVIOUS
  <2>1. PICK o, w, F : /\ Shape(first, head, brk, live, freed, o, w, F)
                       /\ Complete(first, head, o, F)
    BY DEF HeapInv
  <2>2. /\ Layout(first, brk, o, w) /\ Lists(first, head, o, F)
        /\ Tagged(first, F) /\ Cut(first, o) /\ Ranked(first, head, o, F)
    BY <2>1 DEF Shape, Complete
  <2>3. brk \in Nat
    BY MultipleIsNat, KmallocAssumption DEF HeapInv
  <2>4. IsFiniteSet(DOMAIN first)
    BY <2>2, <2>3, PartsFinite
  <2>5. \A p \in Pool : /\ Free(p) = {a \in F : o[a] = p}
                        /\ Cardinality(Free(p)) = Cardinality(OnList(p))
    BY <2>2, <2>4, ListOfPool
  <2>6. ASSUME NEW p \in Pool, NEW q \in Pool, p # q
        PROVE  Free(p) \cap Free(q) = {}
    BY <2>5, <2>6
  <2>7. ASSUME NEW a \in DOMAIN first
        PROVE  (a \in UNION {Free(p) : p \in Pool})
                  <=> "next" \in DOMAIN first[a]
    <3>1. a \in F <=> "next" \in DOMAIN first[a]
      BY <2>2 DEF Tagged
    <3>2. a \in F => o[a] \in Pool
      BY <2>2 DEF Lists, Layout
    <3>3. a \in F <=> \E p \in Pool : a \in Free(p)
      BY <2>5, <3>2
    <3> QED
      BY <3>1, <3>3
  <2>8. ASSUME NEW p \in Pool, NEW a \in DOMAIN first,
               a \in Free(p) \/ PoolOf(a) = p
        PROVE  /\ a % block_sizes[p] = 0
               /\ Cardinality({b \in DOMAIN first :
                                  b \div PAGE = a \div PAGE})
                     = PAGE \div block_sizes[p]
    <3>1. p # NULL
      BY PoolFacts DEF NULL
    <3>2. o[a] = p
      <4>1. CASE a \in Free(p)
        BY <2>5, <4>1
      <4>2. CASE PoolOf(a) = p
        <5>1. "pool" \in DOMAIN first[a] /\ first[a].pool = p
          BY <3>1, <4>2 DEF PoolOf
        <5>2. a \notin F
          BY <2>2, <5>1 DEF Tagged
        <5> QED
          BY <2>2, <5>1, <5>2 DEF Lists
      <4> QED
        BY <2>8, <4>1, <4>2
    <3>3. PICK l \in Nat :
             {b \in DOMAIN first : b \div PAGE = a \div PAGE} = Blocks(p, l)
      BY <2>2, <3>2, PageOfPart
    <3>4. a % block_sizes[p] = 0
      BY <2>2, <3>2, PageOfPart
    <3> QED
      BY <3>3, <3>4, BlockCount
  <2> QED
    BY <2>5, <2>6, <2>7, <2>8 DEF Conserved
<1> QED
  BY <1>1, HeapInvariant, PTL

-----------------------------------------------------------------------------
(* The tags of the boot loader.                                            *)

\* The next multiple of eight.
NextEight(x) == ((x + 7) \div 8) * 8

\* The addresses f of the first N tags of a list.
Placed(list, N, f) ==
    f = [k \in 1 .. N |-> IF k = 1 THEN TagsHeaderSize
                          ELSE NextEight(f[k - 1] + list[k - 1].size)]

\* However many tags there are, they have addresses.
LEMMA PlacesExist ==
    ASSUME NEW list, NEW N \in Nat
    PROVE  \E f : Placed(list, N, f)
<1> DEFINE Bad == {n \in Nat : ~(\E f : Placed(list, n, f))}
<1> SUFFICES ASSUME Bad # {} PROVE FALSE
  OBVIOUS
<1>1. PICK n \in Bad : \A l \in Bad : n <= l
  BY LeastNat
<1>2. n # 0
  <2>1. Placed(list, 0, [k \in 1 .. 0 |-> 0])
    BY DEF Placed
  <2> QED
    BY <2>1
<1>3. PICK l \in Nat : n = l + 1
  BY <1>2
<1>4. l \notin Bad
  BY <1>1, <1>3
<1>5. PICK f : Placed(list, l, f)
  BY <1>4
<1> DEFINE last == IF n = 1 THEN TagsHeaderSize
                   ELSE NextEight(f[l] + list[l].size)
           e == [k \in 1 .. n |-> IF k = n THEN last ELSE f[k]]
<1>6. ASSUME NEW k \in 1 .. n
      PROVE  e[k] = IF k = 1 THEN TagsHeaderSize
                    ELSE NextEight(e[k - 1] + list[k - 1].size)
  <2>1. CASE k = n
    <3>1. e[k] = last /\ k - 1 = l
      BY <1>3, <2>1
    <3>2. CASE n = 1
      BY <2>1, <3>1, <3>2
    <3>3. CASE n # 1
      <4>1. l \in 1 .. n /\ l # n /\ k # 1
        BY <1>3, <2>1, <3>3
      <4>2. e[l] = f[l]
        BY <4>1
      <4> HIDE DEF e
      <4> QED
        BY <3>1, <3>3, <4>1, <4>2
    <3> QED
      BY <3>2, <3>3
  <2>2. CASE k # n
    <3>1. k \in 1 .. l /\ (k # 1 => k - 1 \in 1 .. n /\ k - 1 # n)
      BY <1>3, <2>2
    <3>2. f[k] = IF k = 1 THEN TagsHeaderSize
                 ELSE NextEight(f[k - 1] + list[k - 1].size)
      BY <1>5, <3>1 DEF Placed
    <3>3. e[k] = f[k] /\ (k # 1 => e[k - 1] = f[k - 1])
      BY <2>2, <3>1
    <3> HIDE DEF e
    <3> QED
      BY <3>2, <3>3
  <2> QED
    BY <2>1, <2>2
<1>7. e = [k \in 1 .. n |-> e[k]]
  OBVIOUS
<1> HIDE DEF e
<1>8. Placed(list, n, e)
  BY <1>6, <1>7 DEF Placed
<1> QED
  BY <1>8

\* The first tag is behind the header, each other one behind its predecessor.
LEMMA AddressEquation ==
    ASSUME Len(tags) \in Nat
    PROVE  \A k \in 1 .. Len(tags) :
              Address[k] = IF k = 1 THEN TagsHeaderSize
                           ELSE NextEight(Address[k - 1] + tags[k - 1].size)
<1> DEFINE f[k \in 1 .. Len(tags)] ==
              IF k = 1 THEN TagsHeaderSize
              ELSE ((f[k - 1] + tags[k - 1].size + 7) \div 8) * 8
<1>1. \E g : g = [k \in 1 .. Len(tags) |->
                     IF k = 1 THEN TagsHeaderSize
                     ELSE ((g[k - 1] + tags[k - 1].size + 7) \div 8) * 8]
  BY PlacesExist DEF Placed, NextEight
<1>2. f = [k \in 1 .. Len(tags) |->
                     IF k = 1 THEN TagsHeaderSize
                     ELSE ((f[k - 1] + tags[k - 1].size + 7) \div 8) * 8]
  BY <1>1
<1>3. Address = f
  BY DEF Address
<1> HIDE DEF f
<1> QED
  BY <1>2, <1>3 DEF NextEight

\* Rounding up to a multiple of eight, as align_pointer does it.
LEMMA RoundsUp ==
    ASSUME NEW x \in Nat
    PROVE  /\ NextEight(x) \in Nat /\ x <= NextEight(x)
           /\ align_pointer_after(x, 8) = NextEight(x)
BY DEF NextEight, align_pointer_after

\* What is known of the tags.
LEMMA TagFacts ==
    ASSUME tags \in TagLists
    PROVE  /\ Len(tags) \in Nat \ {0} /\ DOMAIN tags = 1 .. Len(tags)
           /\ \A k \in 1 .. Len(tags) :
                 /\ tags[k].type \in Nat /\ tags[k].num_entries \in Nat
                 /\ tags[k].size \in Nat /\ tags[k].size >= 8
                 /\ is_tags_terminator(tags[k]) <=> k = Len(tags)
                 /\ tags[k].type = TAG_MEM_MAP =>
                       NumEntries(tags[k]) = tags[k].num_entries
<1>1. TagsWellFormed(tags)
  BY BootTagsAssumption
<1>2. tags \in Seq(TagCommonHeader) /\ tags # <<>>
  BY <1>1 DEF TagsWellFormed
<1>3. Len(tags) \in Nat \ {0} /\ DOMAIN tags = 1 .. Len(tags)
  BY <1>2
<1>4. ASSUME NEW k \in 1 .. Len(tags)
      PROVE  /\ tags[k].type \in Nat /\ tags[k].num_entries \in Nat
             /\ tags[k].size \in Nat /\ tags[k].size >= 8
             /\ is_tags_terminator(tags[k]) <=> k = Len(tags)
             /\ tags[k].type = TAG_MEM_MAP =>
                   NumEntries(tags[k]) = tags[k].num_entries
  <2>1. tags[k] \in TagCommonHeader
    BY <1>2, <1>3
  <2>2. /\ tags[k].type \in Nat /\ tags[k].num_entries \in Nat
        /\ tags[k].size \in Nat
    BY <2>1 DEF TagCommonHeader
  <2>3. /\ is_tags_terminator(tags[k]) <=> k = Len(tags)
        /\ tags[k].size >= 8
        /\ tags[k].type = TAG_MEM_MAP =>
              /\ tags[k].entry_size = 24
              /\ tags[k].size = 16 + tags[k].num_entries * 24
    BY <1>1, <1>3 DEF TagsWellFormed, TagMemMapEntrySize, TagMemMapHeaderSize
  <2>4. ASSUME NEW n \in Nat PROVE (16 + n * 24 - 16) \div 24 = n
    OBVIOUS
  <2> QED
    BY <2>2, <2>3, <2>4 DEF NumEntries, TagMemMapHeaderSize
<1> QED
  BY <1>3, <1>4

\* The addresses are numbers and grow from tag to tag.
LEMMA AddressGrows ==
    ASSUME tags \in TagLists
    PROVE  /\ \A k \in 1 .. Len(tags) : Address[k] \in Nat
           /\ \A h, k \in 1 .. Len(tags) : h < k => Address[h] < Address[k]
<1>1. PICK N \in Nat : N = Len(tags) /\ N # 0
  BY TagFacts
<1>2. \A k \in 1 .. N :
         Address[k] = IF k = 1 THEN TagsHeaderSize
                      ELSE NextEight(Address[k - 1] + tags[k - 1].size)
  BY <1>1, AddressEquation
<1>3. \A k \in 1 .. N : tags[k].size \in Nat /\ tags[k].size >= 8
  BY <1>1, TagFacts
<1>4. \A k \in 1 .. N : Address[k] \in Nat
  <2> DEFINE Bad == {k \in 1 .. N : Address[k] \notin Nat}
  <2> SUFFICES ASSUME Bad # {} PROVE FALSE
    OBVIOUS
  <2>1. PICK k \in Bad : \A l \in Bad : k <= l
    <3>1. Bad \in SUBSET Nat
      OBVIOUS
    <3> HIDE DEF Bad
    <3> QED
      BY <3>1, LeastNat
  <2>2. k # 1
    BY <1>2 DEF TagsHeaderSize
  <2>3. k - 1 \in 1 .. N /\ k - 1 \notin Bad
    BY <2>1, <2>2
  <2>4. Address[k - 1] + tags[k - 1].size \in Nat
    BY <1>3, <2>3
  <2>5. Address[k] = NextEight(Address[k - 1] + tags[k - 1].size)
    BY <1>2, <2>2
  <2> QED
    BY <2>4, <2>5, RoundsUp
<1>5. ASSUME NEW h \in 1 .. N
      PROVE  \A k \in 1 .. N : h < k => Address[h] < Address[k]
  <2> DEFINE Bad == {k \in 1 .. N : h < k /\ ~(Address[h] < Address[k])}
  <2> SUFFICES ASSUME Bad # {} PROVE FALSE
    OBVIOUS
  <2>1. PICK k \in Bad : \A l \in Bad : k <= l
    <3>1. Bad \in SUBSET Nat
      OBVIOUS
    <3> HIDE DEF Bad
    <3> QED
      BY <3>1, LeastNat
  <2>2. k \in 1 .. N /\ h < k /\ ~(Address[h] < Address[k]) /\ k # 1
    OBVIOUS
  <2>3. k - 1 \in 1 .. N /\ k - 1 \notin Bad
    BY <2>1, <2>2
  <2>4. Address[h] <= Address[k - 1]
    <3>1. CASE h = k - 1
      BY <1>4, <3>1
    <3>2. CASE h # k - 1
      <4>1. h < k - 1
        BY <2>2, <3>2
      <4> QED
        BY <1>4, <2>3, <4>1
    <3> QED
      BY <3>1, <3>2
  <2>5. /\ Address[k - 1] \in Nat /\ tags[k - 1].size \in Nat
        /\ tags[k - 1].size >= 8 /\ Address[h] \in Nat
    BY <1>3, <1>4, <2>3
  <2>6. Address[k] = NextEight(Address[k - 1] + tags[k - 1].size)
    BY <1>2, <2>2
  <2>7. /\ NextEight(Address[k - 1] + tags[k - 1].size) \in Nat
        /\ Address[k - 1] + tags[k - 1].size
              <= NextEight(Address[k - 1] + tags[k - 1].size)
    BY <2>5, RoundsUp
  <2> QED
    BY <2>2, <2>4, <2>5, <2>6, <2>7
<1> QED
  BY <1>1, <1>4, <1>5

\* At the address of a tag is that tag.
LEMMA CurIsTag ==
    ASSUME tags \in TagLists, NEW k \in 1 .. Len(tags), curtag = Address[k]
    PROVE  Cur = tags[k]
<1>1. DOMAIN tags = 1 .. Len(tags) /\ Len(tags) \in Nat
  BY TagFacts
<1>2. ASSUME NEW h \in 1 .. Len(tags), Address[h] = curtag PROVE h = k
  <2>1. Address[h] \in Nat /\ ~(h < k) /\ ~(k < h)
    BY <1>2, AddressGrows
  <2> QED
    BY <1>1, <2>1
<1>3. (CHOOSE h \in DOMAIN tags : Address[h] = curtag) = k
  BY <1>1, <1>2
<1> QED
  BY <1>3 DEF Cur

\* What is noted of a kind of table when the tags before k have been seen.
Noted(value, type, header, k) ==
    \/ value = Unset /\ \A n \in 1 .. k - 1 : tags[n].type # type
    \/ \E n \in 1 .. k - 1 :
          /\ tags[n].type = type
          /\ value = [d |-> Address[n] + header, size |-> tags[n].num_entries]

TagInv ==
    /\ tags \in TagLists
    /\ \E k \in 1 .. Len(tags) :
          /\ curtag = Address[k]
          /\ Noted(tag_mem, TAG_MEM_MAP, TagMemMapHeaderSize, k)
          /\ Noted(tag_elf, TAG_ELF_HEADER, TagELFHeaderSize, k)

LEMMA TagInvInit == TagsInit => TagInv
<1> SUFFICES ASSUME TagsInit PROVE TagInv
  OBVIOUS
<1>1. tags \in TagLists /\ 1 \in 1 .. Len(tags) /\ Len(tags) \in Nat
  <2>1. tags \in TagLists
    BY DEF TagsInit
  <2>2. PICK N \in Nat : N = Len(tags) /\ N # 0
    BY <2>1, TagFacts
  <2> QED
    BY <2>1, <2>2
<1>2. curtag = Address[1]
  BY <1>1, AddressEquation DEF TagsInit
<1>3. /\ Noted(tag_mem, TAG_MEM_MAP, TagMemMapHeaderSize, 1)
      /\ Noted(tag_elf, TAG_ELF_HEADER, TagELFHeaderSize, 1)
  BY DEF TagsInit, Noted
<1> QED
  BY <1>1, <1>2, <1>3 DEF TagInv

\* A tag of the kind is noted, another one changes nothing.
LEMMA NotesTag ==
    ASSUME NEW type, NEW header, NEW k \in Nat \ {0}, NEW value, NEW next,
           Noted(value, type, header, k),
           next = IF tags[k].type = type
                  THEN [d |-> Address[k] + header,
                        size |-> tags[k].num_entries]
                  ELSE value
    PROVE  Noted(next, type, header, k + 1)
<1>1. k \in 1 .. (k + 1) - 1
  OBVIOUS
<1>2. \A n \in 1 .. (k + 1) - 1 : n = k \/ n \in 1 .. k - 1
  OBVIOUS
<1>3. \A n \in 1 .. k - 1 : n \in 1 .. (k + 1) - 1
  OBVIOUS
<1>4. CASE tags[k].type = type
  BY <1>1, <1>4 DEF Noted
<1>5. CASE tags[k].type # type
  BY <1>2, <1>3, <1>5 DEF Noted
<1> QED
  BY <1>4, <1>5

LEMMA TagInvStep == TagInv /\ [NextTag]_tagVars => TagInv'
<1> SUFFICES ASSUME TagInv, [NextTag]_tagVars
             PROVE  TagInv'
  OBVIOUS
<1>1. CASE NextTag
  <2>1. PICK k \in 1 .. Len(tags) :
            /\ curtag = Address[k]
            /\ Noted(tag_mem, TAG_MEM_MAP, TagMemMapHeaderSize, k)
            /\ Noted(tag_elf, TAG_ELF_HEADER, TagELFHeaderSize, k)
    BY DEF TagInv
  <2>2. tags \in TagLists /\ tags' = tags
    BY <1>1 DEF TagInv, NextTag
  <2>3. Cur = tags[k]
    BY <2>1, <2>2, CurIsTag
  <2>4. /\ Len(tags) \in Nat /\ tags[k].size \in Nat
        /\ tags[k].type = TAG_MEM_MAP =>
              NumEntries(tags[k]) = tags[k].num_entries
        /\ is_tags_terminator(tags[k]) <=> k = Len(tags)
    BY <2>2, TagFacts
  <2>5. k # Len(tags)
    BY <1>1, <2>3, <2>4 DEF NextTag
  <2>6. /\ k \in Nat \ {0} /\ k + 1 \in 1 .. Len(tags)
        /\ k + 1 # 1 /\ (k + 1) - 1 = k
    BY <2>4, <2>5
  <2>7. curtag' = Address[k + 1]
    <3>1. Address[k] \in Nat
      BY <2>2, AddressGrows
    <3>2. Address[k + 1] = NextEight(Address[k] + tags[k].size)
      BY <2>4, <2>6, AddressEquation
    <3>3. curtag' = align_pointer_after(Address[k] + tags[k].size, 8)
      BY <1>1, <2>1, <2>3 DEF NextTag
    <3>4. Address[k] + tags[k].size \in Nat
      BY <2>4, <3>1
    <3> QED
      BY <3>2, <3>3, <3>4, RoundsUp
  <2>8. Noted(tag_mem', TAG_MEM_MAP, TagMemMapHeaderSize, k + 1)
    <3>1. tag_mem' = IF tags[k].type = TAG_MEM_MAP
                     THEN [d |-> Address[k] + TagMemMapHeaderSize,
                           size |-> tags[k].num_entries]
                     ELSE tag_mem
      BY <1>1, <2>1, <2>3, <2>4 DEF NextTag
    <3> QED
      BY <2>1, <2>6, <3>1, NotesTag
  <2>9. Noted(tag_elf', TAG_ELF_HEADER, TagELFHeaderSize, k + 1)
    <3>1. tag_elf' = IF tags[k].type = TAG_ELF_HEADER
                     THEN [d |-> Address[k] + TagELFHeaderSize,
                           size |-> tags[k].num_entries]
                     ELSE tag_elf
      BY <1>1, <2>1, <2>3 DEF NextTag
    <3> QED
      BY <2>1, <2>6, <3>1, NotesTag
  <2>10. Address' = Address
    BY <2>2 DEF Address
  <2> QED
    BY <2>2, <2>6, <2>7, <2>8, <2>9, <2>10 DEF TagInv, Noted
<1>2. CASE UNCHANGED tagVars
  <2>1. Address' = Address
    BY <1>2 DEF tagVars, Address
  <2> QED
    BY <1>2, <2>1 DEF tagVars, TagInv, Noted
<1> QED
  BY <1>1, <1>2

\* At the end what is noted is the table of that kind.
LEMMA NotedIsTable ==
    ASSUME tags \in TagLists, NEW value, NEW header \in Nat,
           NEW type \in {TAG_MEM_MAP, TAG_ELF_HEADER},
           Noted(value, type, header, Len(tags))
    PROVE  {value} \ {Unset} = Table(type, header)
<1>1. PICK N \in Nat : N = Len(tags) /\ N # 0
  BY TagFacts
<1>2. DOMAIN tags = 1 .. N /\ \A k \in 1 .. N : tags[k].num_entries \in Nat
  BY <1>1, TagFacts
<1>3. tags[N].type # type
  <2>1. is_tags_terminator(tags[N])
    BY <1>1, TagFacts
  <2> QED
    BY <2>1 DEF is_tags_terminator, TAG_MEM_MAP, TAG_ELF_HEADER
<1>4. \A n \in 1 .. N : tags[n].type = type => n \in 1 .. N - 1
  BY <1>1, <1>3
<1> DEFINE NotedOf(n) == [d |-> Address[n] + header,
                          size |-> tags[n].num_entries]
<1>5. Table(type, header) =
         {NotedOf(n) : n \in {l \in 1 .. N : tags[l].type = type}}
  BY <1>2 DEF Table
<1>6. CASE value = Unset /\ \A n \in 1 .. N - 1 : tags[n].type # type
  <2>1. {l \in 1 .. N : tags[l].type = type} = {}
    BY <1>4, <1>6
  <2> HIDE DEF NotedOf
  <2> QED
    BY <1>5, <1>6, <2>1
<1>7. ASSUME NEW n \in 1 .. N - 1, tags[n].type = type, value = NotedOf(n)
      PROVE  {value} \ {Unset} = Table(type, header)
  <2>1. n \in 1 .. N
    BY <1>1
  <2>2. \A l \in 1 .. N : tags[l].type = type => l = n
    BY <1>2, <1>7, <2>1, BootTagsAssumption DEF OneOfEach
  <2>3. {l \in 1 .. N : tags[l].type = type} = {n}
    BY <1>7, <2>1, <2>2
  <2>4. Address[n] \in Nat /\ tags[n].num_entries \in Nat
    BY <1>1, <1>2, <2>1, AddressGrows
  <2>5. NotedOf(n) \in [d : Nat, size : Nat]
    BY <2>4
  <2>6. value # Unset
    BY <1>7, <2>5, BootTagsAssumption
  <2> HIDE DEF NotedOf
  <2> QED
    BY <1>5, <1>7, <2>3, <2>6
<1> QED
  BY <1>1, <1>6, <1>7 DEF Noted

\* For every list of tags, of any number and sizes and in any order: when the
\* loop meets the terminator it has noted the memory map and the section table,
\* each if there is one, with all its entries.
THEOREM TablesAreFound == TagsSpec => []TablesFound
<1>1. TagInv => TablesFound
  <2> SUFFICES ASSUME TagInv, curtag = Address[Len(tags)]
               PROVE  /\ {tag_mem} \ {Unset}
                            = Table(TAG_MEM_MAP, TagMemMapHeaderSize)
                      /\ {tag_elf} \ {Unset}
                            = Table(TAG_ELF_HEADER, TagELFHeaderSize)
    BY DEF TablesFound
  <2>1. PICK k \in 1 .. Len(tags) :
            /\ curtag = Address[k]
            /\ Noted(tag_mem, TAG_MEM_MAP, TagMemMapHeaderSize, k)
            /\ Noted(tag_elf, TAG_ELF_HEADER, TagELFHeaderSize, k)
    BY DEF TagInv
  <2>2. tags \in TagLists
    BY DEF TagInv
  <2>3. k = Len(tags)
    <3>1. PICK N \in Nat : N = Len(tags) /\ N # 0
      BY <2>2, TagFacts
    <3>2. N \in 1 .. N /\ k \in 1 .. N
      BY <2>1, <3>1
    <3>3. Address[N] \in Nat /\ (k < N => Address[k] < Address[N])
      BY <2>2, <3>1, <3>2, AddressGrows
    <3>4. Address[k] = Address[N]
      BY <2>1, <3>1
    <3>5. ASSUME NEW x \in Nat PROVE ~(x < x)
      OBVIOUS
    <3>6. ~(k < N)
      BY <3>3, <3>4, <3>5
    <3> QED
      BY <3>1, <3>2, <3>6
  <2>4. TagMemMapHeaderSize \in Nat /\ TagELFHeaderSize \in Nat
    BY DEF TagMemMapHeaderSize, TagELFHeaderSize
  <2> QED
    BY <2>1, <2>2, <2>3, <2>4, NotedIsTable
<1> QED
  BY <1>1, TagInvInit, TagInvStep, PTL DEF TagsSpec
=============================================================================
