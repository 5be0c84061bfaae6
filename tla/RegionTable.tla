---------------------------- MODULE RegionTable ----------------------------
(***************************************************************************)
(* The region table of hw/vhost.c: dev->mem, the array of                  *)
(* vhost_memory_region {guest_phys_addr, memory_size, userspace_addr} that *)
(* the device mirrors into the kernel with VHOST_SET_MEM_TABLE.            *)
(*                                                                         *)
(* Addresses and sizes are counted in guest pages.  The code keeps the     *)
(* array unsorted and its order is never observed (vhost_dev_find_reg is   *)
(* only asked whether some region overlaps a range, and the kernel treats  *)
(* the table as a set), so the table is a set of region records here.      *)
(* With the array gone, the from/to compaction loops of unassign and       *)
(* assign become set comprehensions over the regions they visit.           *)
(***************************************************************************)
EXTENDS Naturals

(* A region of the table: vhost_memory_region.  memory_size is never 0:   *)
(* the code asserts it after every change.                                 *)
Region == [gpa : Nat, size : Nat \ {0}, uaddr : Nat]

(* range_get_last(offset, len): the last address of a range.              *)
RangeLast(first, len) == first + len - 1

(* ranges_overlap(first1, len1, first2, len2).                             *)
RangesOverlap(first1, len1, first2, len2) ==
    ~ (RangeLast(first2, len2) < first1 \/ RangeLast(first1, len1) < first2)

(* The guest pages a region covers.                                        *)
RegionPages(r) == r.gpa .. RangeLast(r.gpa, r.size)

(***************************************************************************)
(* vhost_dev_unassign_memory: what remains of region r once the range      *)
(* [start, start + size) is removed.  A region the range misses stays;    *)
(* otherwise the part below start survives as the low piece (the shrink   *)
(* case, which keeps the array slot) and the part above the range as the  *)
(* high piece (the shift case, or a split's piece appended at the end of  *)
(* the array); a region the range covers whole is dropped.                 *)
(***************************************************************************)
(* Variant: the head cut one page short (change without the + 1).         *)
UnassignPieces_ShiftShort(r, start, size) ==
    LET reglast == RangeLast(r.gpa, r.size)
        memlast == RangeLast(start, size)
        change  == memlast - r.gpa
        low     == [r EXCEPT !.size = start - r.gpa]
        high    == [gpa   |-> r.gpa + change,
                    size  |-> r.size - change,
                    uaddr |-> r.uaddr + change]
    IN  IF ~ RangesOverlap(r.gpa, r.size, start, size) THEN {r}
        ELSE (IF r.gpa < start THEN {low} ELSE {})
                 \cup (IF memlast < reglast THEN {high} ELSE {})

UnassignPieces(r, start, size) ==
    LET reglast == RangeLast(r.gpa, r.size)
        memlast == RangeLast(start, size)
        change  == memlast + 1 - r.gpa
        low     == [r EXCEPT !.size = start - r.gpa]
        high    == [gpa   |-> r.gpa + change,
                    size  |-> r.size - change,
                    uaddr |-> r.uaddr + change]
    IN  IF ~ RangesOverlap(r.gpa, r.size, start, size) THEN {r}
        ELSE (IF r.gpa < start THEN {low} ELSE {})
                 \cup (IF memlast < reglast THEN {high} ELSE {})

Unassign(mem, start, size) ==
    UNION {UnassignPieces(r, start, size) : r \in mem}

(***************************************************************************)
(* vhost_dev_assign_memory, called once [start, start + size) is free: a   *)
(* region adjacent to the new one both in guest-physical and in userspace  *)
(* address, below or above it, is merged into it, and the merged region    *)
(* spans from the start of the one below to the end of the one above.     *)
(* With no neighbour the new region is appended.  The loop compares each  *)
(* region with the running merged range; on a table with no two mergeable *)
(* regions (MergeMaximal of the device module) the running range only     *)
(* ever meets the neighbours of the new range itself, at most one on each *)
(* side, which is what AdjBelow and AdjAbove select.                       *)
(***************************************************************************)
(* Variant: the test written prlast != start_addr, without the + 1.        *)
AdjBelow_NoPlusOne(r, start, uaddr) ==
    /\ RangeLast(r.gpa, r.size) = start
    /\ RangeLast(r.uaddr, r.size) = uaddr

AdjBelow(r, start, uaddr) ==
    /\ RangeLast(r.gpa, r.size) + 1 = start
    /\ RangeLast(r.uaddr, r.size) + 1 = uaddr

AdjAbove(r, start, size, uaddr) ==
    /\ RangeLast(start, size) + 1 = r.gpa
    /\ RangeLast(uaddr, size) + 1 = r.uaddr

Adjacent(r, start, size, uaddr) ==
    AdjBelow(r, start, uaddr) \/ AdjAbove(r, start, size, uaddr)

Neighbours(mem, start, size, uaddr) ==
    {r \in mem : Adjacent(r, start, size, uaddr)}

(* The region the new range ends up in: the low end and host address of   *)
(* the neighbour below, the last page of the neighbour above.             *)
MergeLow(mem, start, size, uaddr) ==
    LET below == {r \in mem : AdjBelow(r, start, uaddr)}
    IN  IF below = {} THEN [gpa |-> start, size |-> size, uaddr |-> uaddr]
        ELSE CHOOSE r \in below : TRUE

MergeHigh(mem, start, size, uaddr) ==
    LET above == {r \in mem : AdjAbove(r, start, size, uaddr)}
    IN  IF above = {} THEN [gpa |-> start, size |-> size, uaddr |-> uaddr]
        ELSE CHOOSE r \in above : TRUE

(* Variant: the merged size computed as end - start, one page short.       *)
Merged_SizeShort(mem, start, size, uaddr) ==
    LET lo == MergeLow(mem, start, size, uaddr)
        hi == MergeHigh(mem, start, size, uaddr)
    IN  [gpa |-> lo.gpa, size |-> RangeLast(hi.gpa, hi.size) - lo.gpa,
         uaddr |-> lo.uaddr]

Merged(mem, start, size, uaddr) ==
    LET lo == MergeLow(mem, start, size, uaddr)
        hi == MergeHigh(mem, start, size, uaddr)
    IN  [gpa |-> lo.gpa, size |-> RangeLast(hi.gpa, hi.size) - lo.gpa + 1,
         uaddr |-> lo.uaddr]

Assign(mem, start, size, uaddr) ==
    (mem \ Neighbours(mem, start, size, uaddr)) \cup {Merged(mem, start, size, uaddr)}

(* MAX of a set of naturals (the guard holds for every finite set).        *)
MaxOf(S) ==
    IF \E x \in S : \A y \in S : y <= x
    THEN CHOOSE x \in S : \A y \in S : y <= x
    ELSE 0

(***************************************************************************)
(* vhost_dev_find_reg: is there a region overlapping the range?            *)
(***************************************************************************)
Overlapping(mem, start, size) ==
    {r \in mem : RangesOverlap(r.gpa, r.size, start, size)}

(***************************************************************************)
(* vhost_dev_cmp_memory: TRUE when the table must change to map            *)
(* [start, start + size) at uaddr.  The code inspects the first            *)
(* overlapping region; on a table of disjoint regions any choice gives the *)
(* same answer, since a range that meets two regions lies in neither.      *)
(***************************************************************************)
CmpMemory(mem, start, size, uaddr) ==
    LET hits == Overlapping(mem, start, size)
        reg  == CHOOSE r \in hits : TRUE
    IN  \/ hits = {}
        \/ start < reg.gpa
        \/ RangeLast(start, size) > RangeLast(reg.gpa, reg.size)
        \/ uaddr # reg.uaddr + start - reg.gpa
=============================================================================
