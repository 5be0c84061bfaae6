------------------------- MODULE VhostDevMergeProofs -------------------------
(***************************************************************************)
(* Proofs that the region table of hw/vhost.c never holds two regions that *)
(* vhost_dev_assign_memory would have merged (MergeMaximal), for every set *)
(* of sections and host addresses.  vhost_dev_unassign_memory leaves a     *)
(* gap where the removed range was and keeps each piece on its region's    *)
(* host offset, so two pieces that touch come from regions that touched;   *)
(* vhost_dev_assign_memory absorbs every neighbour of the new range, and  *)
(* the merged region sits on the offset of those neighbours.              *)
(***************************************************************************)
EXTENDS VhostDevMapProofs

(* r ends where s begins, in guest-physical and in userspace address alike: *)
(* vhost_dev_assign_memory would make one region of them.                 *)
Touch(r, s) == r.gpa + r.size = s.gpa /\ r.uaddr + r.size = s.uaddr

(* No two regions of m touch.                                              *)
Maximal(m) == \A a, b \in m : a # b => ~ Touch(a, b)

(* The merge test of vhost_dev_assign_memory, below or above, is a touch   *)
(* in one direction or the other.                                          *)
LEMMA AdjacentTouch ==
    ASSUME NEW r1 \in Region, NEW r2 \in Region
    PROVE  Adjacent(r1, r2.gpa, r2.size, r2.uaddr) <=> Touch(r1, r2) \/ Touch(r2, r1)
BY DEF Adjacent, AdjBelow, AdjAbove, Touch, RangeLast, Region

LEMMA MaximalIff ==
    ASSUME NEW m \in SUBSET Region
    PROVE  (\A r1, r2 \in m : r1 # r2 => ~ Adjacent(r1, r2.gpa, r2.size, r2.uaddr))
               <=> Maximal(m)
BY AdjacentTouch DEF Maximal

(***************************************************************************)
(* A piece vhost_dev_unassign_memory leaves of r (r itself, the shrunk     *)
(* head or the shifted tail) keeps r's host offset, starts at r's start or *)
(* just past the range, ends at r's end or just before the range, and its *)
(* first and last pages lie outside the range.                             *)
(***************************************************************************)
LEMMA PieceShape ==
    ASSUME NEW r \in Region, NEW start \in Nat, NEW size \in Nat \ {0},
           NEW x \in UnassignPieces(r, start, size)
    PROVE  /\ x \in Region
           /\ x.uaddr - x.gpa = r.uaddr - r.gpa
           /\ x.gpa \in {r.gpa, start + size}
           /\ x.gpa + x.size \in {r.gpa + r.size, start}
           /\ x.gpa \notin RangePages(start, size)
           /\ x.gpa + x.size - 1 \notin RangePages(start, size)
<1>1. x \in Region
  BY UnassignPiecesType
<1>2. x.gpa \in RegionPages(x) /\ x.gpa + x.size - 1 \in RegionPages(x)
  BY <1>1 DEF Region, RegionPages, RangeLast
<1>3. /\ x.gpa \notin RangePages(start, size)
      /\ x.uaddr + x.gpa - x.gpa = r.uaddr + x.gpa - r.gpa
  BY <1>2, UnassignPiecesMap
<1>4. x.gpa + x.size - 1 \notin RangePages(start, size)
  BY <1>2, UnassignPiecesMap
<1>5. x.uaddr - x.gpa = r.uaddr - r.gpa
  BY <1>1, <1>3 DEF Region
<1>6. x.gpa \in {r.gpa, start + size} /\ x.gpa + x.size \in {r.gpa + r.size, start}
  BY DEF UnassignPieces, RangeLast, Region
<1>. QED  BY <1>1, <1>3, <1>4, <1>5, <1>6

(* Two pieces that touch come from two regions that touched.              *)
LEMMA PiecesTouch ==
    ASSUME NEW r \in Region, NEW q \in Region, NEW start \in Nat, NEW size \in Nat \ {0},
           NEW a \in UnassignPieces(r, start, size),
           NEW b \in UnassignPieces(q, start, size),
           Touch(a, b)
    PROVE  Touch(r, q)
<1>1. /\ a \in Region /\ a.uaddr - a.gpa = r.uaddr - r.gpa
      /\ a.gpa + a.size \in {r.gpa + r.size, start}
      /\ a.gpa + a.size - 1 \notin RangePages(start, size)
  BY PieceShape
<1>2. /\ b \in Region /\ b.uaddr - b.gpa = q.uaddr - q.gpa
      /\ b.gpa \in {q.gpa, start + size}
      /\ b.gpa \notin RangePages(start, size)
  BY PieceShape
<1>3. a.gpa + a.size = r.gpa + r.size /\ b.gpa = q.gpa
  BY <1>1, <1>2 DEF Touch, RangePages, RangeLast, Region
<1>. QED  BY <1>1, <1>2, <1>3 DEF Touch, Region

(* vhost_dev_unassign_memory creates no pair of regions that touch.        *)
LEMMA UnassignMaximal ==
    ASSUME NEW m \in SUBSET Region, NEW start \in Nat, NEW size \in Nat \ {0},
           Maximal(m)
    PROVE  Maximal(Unassign(m, start, size))
<1> SUFFICES ASSUME NEW a \in Unassign(m, start, size), NEW b \in Unassign(m, start, size),
                    a # b, Touch(a, b)
             PROVE  FALSE
  BY DEF Maximal
<1>1. PICK r \in m : a \in UnassignPieces(r, start, size)
  BY DEF Unassign
<1>2. PICK q \in m : b \in UnassignPieces(q, start, size)
  BY DEF Unassign
<1>3. Touch(r, q)
  BY <1>1, <1>2, PiecesTouch
<1>4. r # q
  BY <1>3 DEF Touch, Region
<1>. QED  BY <1>3, <1>4 DEF Maximal
(***************************************************************************)
(* vhost_dev_assign_memory creates no pair of regions that touch: a region *)
(* that touches the merged one touches the new range (then it was merged)  *)
(* or the neighbour below or above that the merge absorbed.               *)
(***************************************************************************)
LEMMA AssignMaximal ==
    ASSUME NEW m \in SUBSET Region, NEW start \in Nat, NEW size \in Nat \ {0},
           NEW uaddr \in Nat, Maximal(m)
    PROVE  Maximal(Assign(m, start, size, uaddr))
<1> DEFINE new == [gpa |-> start, size |-> size, uaddr |-> uaddr]
           N   == Neighbours(m, start, size, uaddr)
           lo  == MergeLow(m, start, size, uaddr)
           hi  == MergeHigh(m, start, size, uaddr)
           M   == Merged(m, start, size, uaddr)
<1>1. lo = new \/ (lo \in m /\ AdjBelow(lo, start, uaddr))
  BY DEF MergeLow
<1>2. hi = new \/ (hi \in m /\ AdjAbove(hi, start, size, uaddr))
  BY DEF MergeHigh
<1>3. /\ lo.gpa \in Nat /\ lo.size \in Nat /\ lo.uaddr \in Nat
      /\ hi.gpa \in Nat /\ hi.size \in Nat /\ hi.uaddr \in Nat
  BY <1>1, <1>2 DEF Region
<1>4. M.gpa = lo.gpa /\ M.uaddr = lo.uaddr /\ M.size = hi.gpa + hi.size - lo.gpa
  BY <1>3 DEF Merged, RangeLast
<1>5. lo.uaddr - lo.gpa = uaddr - start /\ hi.uaddr - hi.gpa = uaddr - start
  BY <1>1, <1>2, <1>3 DEF AdjBelow, AdjAbove, RangeLast
<1>6. ASSUME NEW q \in m \ N, Touch(q, M) PROVE FALSE
  <2>1. q.gpa + q.size = lo.gpa /\ q.uaddr + q.size = lo.uaddr
    BY <1>6, <1>4 DEF Touch
  <2>2. CASE lo = new
    <3>1. AdjBelow(q, start, uaddr)
      BY <2>1, <2>2, <1>6 DEF AdjBelow, RangeLast, Region
    <3>. QED  BY <3>1, <1>6 DEF Neighbours, Adjacent
  <2>3. CASE lo \in m /\ AdjBelow(lo, start, uaddr)
    <3>1. lo \in N
      BY <2>3 DEF Neighbours, Adjacent
    <3>2. Touch(q, lo) /\ q # lo
      BY <2>1, <3>1, <1>6 DEF Touch
    <3>. QED  BY <2>3, <3>2 DEF Maximal
  <2>. QED  BY <1>1, <2>2, <2>3
<1>7. ASSUME NEW q \in m \ N, Touch(M, q) PROVE FALSE
  <2>1. hi.gpa + hi.size = q.gpa /\ hi.uaddr + hi.size = q.uaddr
    BY <1>7, <1>3, <1>4, <1>5 DEF Touch
  <2>2. CASE hi = new
    <3>1. AdjAbove(q, start, size, uaddr)
      BY <2>1, <2>2, <1>7 DEF AdjAbove, RangeLast, Region
    <3>. QED  BY <3>1, <1>7 DEF Neighbours, Adjacent
  <2>3. CASE hi \in m /\ AdjAbove(hi, start, size, uaddr)
    <3>1. hi \in N
      BY <2>3 DEF Neighbours, Adjacent
    <3>2. Touch(hi, q) /\ hi # q
      BY <2>1, <3>1, <1>7 DEF Touch
    <3>3. hi \in m /\ q \in m
      BY <2>3, <1>7
    <3>. QED  BY <3>2, <3>3, Zenon DEF Maximal
  <2>. QED  BY <1>2, <2>2, <2>3
<1>8. Assign(m, start, size, uaddr) = (m \ N) \cup {M}
  BY DEF Assign
<1>. QED  BY <1>6, <1>7, <1>8 DEF Maximal

-----------------------------------------------------------------------------
(***************************************************************************)
(* vhost_set_memory changes the table by an unassign and an assign (a RAM  *)
(* section added) or two unassigns (a section removed, or added with a    *)
(* region that logs); no other handler touches dev->mem.                  *)
(***************************************************************************)
LEMMA SetMemoryMaximal ==
    ASSUME TypeOK, Maximal(mem), NEW s \in Sections, NEW add \in BOOLEAN,
           SetMemory(s, add)
    PROVE  Maximal(mem')
<1> DEFINE u1 == Unassign(mem, s.gpa, s.size)
<1>1. s.gpa \in Nat /\ s.size \in Nat \ {0} /\ Hva(s) \in Nat
  BY SectionType
<1>2. u1 \in SUBSET Region /\ Maximal(u1)
  BY <1>1, UnassignType, UnassignMaximal DEF TypeOK
<1>3. \/ mem' = mem
      \/ mem' = Assign(u1, s.gpa, s.size, Hva(s))
      \/ mem' = Unassign(u1, s.gpa, s.size)
  BY Zenon DEF SetMemory
<1>4. Maximal(Assign(u1, s.gpa, s.size, Hva(s)))
  BY <1>1, <1>2, AssignMaximal
<1>5. Maximal(Unassign(u1, s.gpa, s.size))
  BY <1>1, <1>2, UnassignMaximal
<1>. QED  BY <1>3, <1>4, <1>5

LEMMA NextMaximal ==
    ASSUME TypeOK, Maximal(mem), [Next]_vars
    PROVE  Maximal(mem')
<1>1. ASSUME NEW s \in Sections, RegionAdd(s) \/ RegionDel(s) PROVE Maximal(mem')
  <2>1. \E add \in BOOLEAN : SetMemory(s, add)
    BY <1>1, Zenon DEF RegionAdd, RegionDel
  <2>. QED  BY <2>1, SetMemoryMaximal
<1>2. CASE ~ \E s \in Sections : RegionAdd(s) \/ RegionDel(s)
  <2>1. mem' = mem
    BY <1>2, Zenon DEF Next, SetMemTable, ShrinkLog, LogSync, MigrationLogStopped,
                       MigrationLogEnable, MigrationLogDisable, SetLogFeatures,
                       SetVringAddr, FreeLog, StartDev, StopDev, KernelWrite, Aborted,
                       vars
  <2>. QED  BY <2>1
<1>. QED  BY <1>1, <1>2

(***************************************************************************)
(* MergeMaximal for every instance: however sections are added and removed *)
(* and wherever their memory lies, the table never holds two regions      *)
(* adjacent in both guest-physical and userspace address, so the merge of *)
(* vhost_dev_assign_memory never has more than one neighbour on a side.   *)
(***************************************************************************)
THEOREM MergeMaximalInvariant == Spec => []MergeMaximal
<1>1. Init => TypeOK /\ Maximal(mem)
  BY InitType DEF Init, Maximal
<1>2. TypeOK /\ Maximal(mem) /\ [Next]_vars => (TypeOK /\ Maximal(mem))'
  BY NextType, NextMaximal
<1>3. TypeOK /\ Maximal(mem) => MergeMaximal
  BY MaximalIff DEF TypeOK, MergeMaximal
<1>. QED  BY <1>1, <1>2, <1>3, PTL DEF Spec

=============================================================================
