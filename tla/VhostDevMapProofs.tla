-------------------------- MODULE VhostDevMapProofs --------------------------
(***************************************************************************)
(* Proofs that the region table code keeps the guest page map right: what *)
(* vhost_dev_unassign_memory and vhost_dev_assign_memory do to the pages   *)
(* the table translates, that the table implements the abstract page map  *)
(* GuestPageMap, and that RegionTableExact holds in every reachable state. *)
(***************************************************************************)
EXTENDS VhostDevProofs

(* The translations of one region, and the pages of a guest range.        *)
RMap(r) == {<<p, r.uaddr + p - r.gpa>> : p \in RegionPages(r)}

RangePages(start, size) == start .. RangeLast(start, size)

(* No two regions of a table share a guest page.                           *)
DisjointTable(m) ==
    \A r1, r2 \in m : r1 # r2 => RegionPages(r1) \cap RegionPages(r2) = {}

(* The table translates no page of the range.                              *)
RangeFree(m, start, size) ==
    \A r \in m : RegionPages(r) \cap RangePages(start, size) = {}

-----------------------------------------------------------------------------
(* Two nonempty ranges overlap exactly when they share a page.             *)
LEMMA OverlapIff ==
    ASSUME NEW a \in Nat, NEW n \in Nat \ {0}, NEW b \in Nat, NEW k \in Nat \ {0}
    PROVE  RangesOverlap(a, n, b, k)
               <=> RangePages(a, n) \cap RangePages(b, k) # {}
<1>1. RangesOverlap(a, n, b, k) => (IF a > b THEN a ELSE b) \in RangePages(a, n) \cap RangePages(b, k)
  BY DEF RangesOverlap, RangePages, RangeLast
<1>2. RangePages(a, n) \cap RangePages(b, k) # {} => RangesOverlap(a, n, b, k)
  BY DEF RangesOverlap, RangePages, RangeLast
<1>. QED  BY <1>1, <1>2

(***************************************************************************)
(* A piece vhost_dev_unassign_memory leaves of region r (kept whole,      *)
(* shrunk, shifted, or split) translates a page exactly when r does and   *)
(* the page lies outside the removed range, and to the same host address: *)
(* the shift moves gpa and userspace_addr by the same change.             *)
(***************************************************************************)
LEMMA UnassignPiecesMap ==
    ASSUME NEW r \in Region, NEW start \in Nat, NEW size \in Nat \ {0}, NEW p
    PROVE  /\ \A x \in UnassignPieces(r, start, size) :
                 p \in RegionPages(x)
                     => /\ p \in RegionPages(r) \ RangePages(start, size)
                        /\ x.uaddr + p - x.gpa = r.uaddr + p - r.gpa
           /\ p \in RegionPages(r) \ RangePages(start, size)
                 => \E x \in UnassignPieces(r, start, size) : p \in RegionPages(x)
<1> DEFINE reglast == RangeLast(r.gpa, r.size)
           memlast == RangeLast(start, size)
           change  == memlast + 1 - r.gpa
           low     == [r EXCEPT !.size = start - r.gpa]
           high    == [gpa   |-> r.gpa + change,
                       size  |-> r.size - change,
                       uaddr |-> r.uaddr + change]
<1>1. CASE ~ RangesOverlap(r.gpa, r.size, start, size)
  <2>1. RegionPages(r) \cap RangePages(start, size) = {}
    BY <1>1, OverlapIff DEF Region, RegionPages, RangePages
  <2>2. UnassignPieces(r, start, size) = {r}
    BY <1>1 DEF UnassignPieces
  <2>. QED  BY <2>1, <2>2
<1>2. CASE RangesOverlap(r.gpa, r.size, start, size)
  <2>1. UnassignPieces(r, start, size)
          = (IF r.gpa < start THEN {low} ELSE {})
                \cup (IF memlast < reglast THEN {high} ELSE {})
    BY <1>2 DEF UnassignPieces
  <2>2. r.gpa < start =>
          /\ \A q : q \in RegionPages(low) <=> q \in r.gpa .. start - 1
          /\ low.uaddr = r.uaddr /\ low.gpa = r.gpa
    BY DEF Region, RegionPages, RangeLast
  <2>3. memlast < reglast =>
          /\ \A q : q \in RegionPages(high) <=> q \in memlast + 1 .. reglast
          /\ high.uaddr - high.gpa = r.uaddr - r.gpa
          /\ high.uaddr \in Nat /\ high.gpa \in Nat
    BY <1>2 DEF Region, RegionPages, RangeLast, RangesOverlap
  <2>4. \A q : q \in RegionPages(r) \ RangePages(start, size)
                 <=> \/ r.gpa < start /\ q \in r.gpa .. start - 1
                     \/ memlast < reglast /\ q \in memlast + 1 .. reglast
    BY <1>2 DEF Region, RegionPages, RangePages, RangeLast, RangesOverlap
  <2>5. ASSUME NEW x \in UnassignPieces(r, start, size), p \in RegionPages(x)
        PROVE  /\ p \in RegionPages(r) \ RangePages(start, size)
               /\ x.uaddr + p - x.gpa = r.uaddr + p - r.gpa
    <3>1. CASE x = low /\ r.gpa < start
      BY <3>1, <2>2, <2>4, <2>5 DEF Region
    <3>2. CASE x = high /\ memlast < reglast
      <4>1. p \in memlast + 1 .. reglast
        BY <3>2, <2>3, <2>5
      <4>2. p \in Nat /\ r.uaddr \in Nat /\ r.gpa \in Nat
        BY <4>1 DEF Region, RangeLast
      <4>. QED  BY <3>2, <2>3, <2>4, <4>1, <4>2
    <3>. QED  BY <3>1, <3>2, <2>1
  <2>6. p \in RegionPages(r) \ RangePages(start, size)
          => \E x \in UnassignPieces(r, start, size) : p \in RegionPages(x)
    BY <2>1, <2>2, <2>3, <2>4
  <2>. QED  BY <2>5, <2>6
<1>. QED  BY <1>1, <1>2
(* The pieces of one region never share a page: the low piece ends before *)
(* the range, the high piece starts after it.                              *)
LEMMA UnassignPiecesDisjoint ==
    ASSUME NEW r \in Region, NEW start \in Nat, NEW size \in Nat \ {0},
           NEW x \in UnassignPieces(r, start, size),
           NEW y \in UnassignPieces(r, start, size), x # y
    PROVE  RegionPages(x) \cap RegionPages(y) = {}
<1> DEFINE reglast == RangeLast(r.gpa, r.size)
           memlast == RangeLast(start, size)
           change  == memlast + 1 - r.gpa
           low     == [r EXCEPT !.size = start - r.gpa]
           high    == [gpa   |-> r.gpa + change,
                       size  |-> r.size - change,
                       uaddr |-> r.uaddr + change]
<1>1. RangesOverlap(r.gpa, r.size, start, size)
  BY DEF UnassignPieces
<1>2. {x, y} = {low, high} /\ r.gpa < start /\ memlast < reglast
  BY <1>1 DEF UnassignPieces
<1>3. /\ \A q \in RegionPages(low) : q < start
      /\ \A q \in RegionPages(high) : q > memlast
  BY <1>1, <1>2 DEF Region, RegionPages, RangeLast, RangesOverlap
<1>4. RegionPages(low) \cap RegionPages(high) = {}
  <2>1. start <= memlast
    BY DEF RangeLast
  <2>. QED  BY <1>3, <2>1 DEF Region, RegionPages, RangeLast
<1>5. (x = low /\ y = high) \/ (x = high /\ y = low)
  BY <1>2
<1>. QED  BY <1>4, <1>5

(* The table vhost_dev_unassign_memory leaves translates exactly what the *)
(* old one did outside the removed range.                                  *)
LEMMA UnassignMap ==
    ASSUME NEW m \in SUBSET Region, NEW start \in Nat, NEW size \in Nat \ {0}
    PROVE  MemMap(Unassign(m, start, size))
               = {e \in MemMap(m) : e[1] \notin RangePages(start, size)}
<1>1. ASSUME NEW e \in MemMap(Unassign(m, start, size))
      PROVE  e \in MemMap(m) /\ e[1] \notin RangePages(start, size)
  <2>a. PICK x \in Unassign(m, start, size) :
               \E p \in RegionPages(x) : e = <<p, x.uaddr + p - x.gpa>>
    BY DEF MemMap
  <2>0. PICK p \in RegionPages(x) : e = <<p, x.uaddr + p - x.gpa>>
    BY <2>a
  <2>1. PICK r \in m : x \in UnassignPieces(r, start, size)
    BY DEF Unassign
  <2>2. p \in RegionPages(r) \ RangePages(start, size)
        /\ x.uaddr + p - x.gpa = r.uaddr + p - r.gpa
    BY <2>1, UnassignPiecesMap
  <2>. QED  BY <2>0, <2>1, <2>2 DEF MemMap
<1>2. ASSUME NEW e \in MemMap(m), e[1] \notin RangePages(start, size)
      PROVE  e \in MemMap(Unassign(m, start, size))
  <2>0. PICK r \in m : \E p \in RegionPages(r) : e = <<p, r.uaddr + p - r.gpa>>
    BY DEF MemMap
  <2>1. PICK p \in RegionPages(r) : e = <<p, r.uaddr + p - r.gpa>>
    BY <2>0
  <2>2. p \in RegionPages(r) \ RangePages(start, size)
    BY <1>2, <2>1
  <2>3. PICK x \in UnassignPieces(r, start, size) : p \in RegionPages(x)
    BY <2>2, UnassignPiecesMap
  <2>4. x.uaddr + p - x.gpa = r.uaddr + p - r.gpa
    BY <2>3, UnassignPiecesMap
  <2>. QED  BY <2>1, <2>3, <2>4 DEF MemMap, Unassign
<1>. QED  BY <1>1, <1>2

(* After the unassign no region shares a page with the range, and no two  *)
(* regions share a page if none did before.                                *)
LEMMA UnassignDisjoint ==
    ASSUME NEW m \in SUBSET Region, NEW start \in Nat, NEW size \in Nat \ {0},
           DisjointTable(m)
    PROVE  /\ DisjointTable(Unassign(m, start, size))
           /\ RangeFree(Unassign(m, start, size), start, size)
<1>1. ASSUME NEW r \in m, NEW x \in UnassignPieces(r, start, size), NEW p \in RegionPages(x)
      PROVE  p \in RegionPages(r) \ RangePages(start, size)
  BY UnassignPiecesMap
<1>2. ASSUME NEW x \in Unassign(m, start, size), NEW y \in Unassign(m, start, size), x # y
      PROVE  RegionPages(x) \cap RegionPages(y) = {}
  <2>1. PICK r1 \in m : x \in UnassignPieces(r1, start, size)
    BY DEF Unassign
  <2>2. PICK r2 \in m : y \in UnassignPieces(r2, start, size)
    BY DEF Unassign
  <2>3. CASE r1 = r2
    BY <2>1, <2>2, <2>3, <1>2, UnassignPiecesDisjoint
  <2>4. CASE r1 # r2
    <3>1. RegionPages(r1) \cap RegionPages(r2) = {}
      BY <2>4 DEF DisjointTable
    <3>. QED  BY <2>1, <2>2, <3>1, <1>1
  <2>. QED  BY <2>3, <2>4
<1>3. RangeFree(Unassign(m, start, size), start, size)
  BY <1>1 DEF RangeFree, Unassign
<1>. QED  BY <1>2, <1>3 DEF DisjointTable
(* The translations a new mapping of [start, start + size) at uaddr adds.  *)
NewMap(start, size, uaddr) ==
    {<<p, uaddr + p - start>> : p \in RangePages(start, size)}

(* The translations of a union of tables are the union of theirs.          *)
LEMMA MemMapUnion ==
    ASSUME NEW a, NEW b
    PROVE  /\ MemMap(a \cup b) = MemMap(a) \cup MemMap(b)
           /\ MemMap({b}) = RMap(b)
BY DEF MemMap, RMap

(***************************************************************************)
(* On a table where no two regions share a page and none meets the new    *)
(* range, at most one region is adjacent below and one above; the merged  *)
(* region covers exactly their pages and the range, and translates all of *)
(* them as the new mapping does (adjacency holds in both address spaces). *)
(***************************************************************************)
LEMMA MergedPages ==
    ASSUME NEW m \in SUBSET Region, NEW start \in Nat, NEW size \in Nat \ {0},
           NEW uaddr \in Nat, DisjointTable(m)
    PROVE  LET N == Neighbours(m, start, size, uaddr)
               M == Merged(m, start, size, uaddr)
           IN  /\ \A p : p \in RegionPages(M)
                           <=> \/ p \in RangePages(start, size)
                               \/ \E r \in N : p \in RegionPages(r)
               /\ \A p \in RegionPages(M) : M.uaddr + p - M.gpa = uaddr + p - start
               /\ \A r \in N : \A p \in RegionPages(r) :
                      r.uaddr + p - r.gpa = uaddr + p - start
<1> DEFINE below == {r \in m : AdjBelow(r, start, uaddr)}
           above == {r \in m : AdjAbove(r, start, size, uaddr)}
           N     == Neighbours(m, start, size, uaddr)
           lo    == MergeLow(m, start, size, uaddr)
           hi    == MergeHigh(m, start, size, uaddr)
           M     == Merged(m, start, size, uaddr)
           new   == [gpa |-> start, size |-> size, uaddr |-> uaddr]
<1>1. N = below \cup above
  BY DEF Neighbours, Adjacent
<1>2. \A r \in below : r.gpa + r.size = start /\ r.uaddr + r.size = uaddr
                       /\ start - 1 \in RegionPages(r)
  BY DEF AdjBelow, RangeLast, RegionPages, Region
<1>3. \A r \in above : start + size = r.gpa /\ uaddr + size = r.uaddr
                       /\ start + size \in RegionPages(r)
  BY DEF AdjAbove, RangeLast, RegionPages, Region
<1>4. \A r1, r2 \in below : r1 = r2
  BY <1>2 DEF DisjointTable
<1>5. \A r1, r2 \in above : r1 = r2
  BY <1>3 DEF DisjointTable
<1>6. /\ below # {} => lo \in below
      /\ below = {} => lo = new
  BY DEF MergeLow
<1>7. /\ above # {} => hi \in above
      /\ above = {} => hi = new
  BY DEF MergeHigh
<1>8. M = [gpa |-> lo.gpa, size |-> RangeLast(hi.gpa, hi.size) - lo.gpa + 1,
           uaddr |-> lo.uaddr]
  BY DEF Merged
<1>. HIDE DEF lo, hi, M
<1>9. /\ lo \in Region /\ hi \in Region
      /\ lo.gpa + lo.size - 1 <= start + size - 1
      /\ lo.uaddr - lo.gpa = uaddr - start
      /\ hi.uaddr - hi.gpa = uaddr - start
      /\ hi.gpa >= start
  <2>1. CASE below # {} /\ above # {}
    BY <2>1, <1>2, <1>3, <1>6, <1>7 DEF Region
  <2>2. CASE below # {} /\ above = {}
    BY <2>2, <1>2, <1>6, <1>7 DEF Region
  <2>3. CASE below = {} /\ above # {}
    BY <2>3, <1>3, <1>6, <1>7 DEF Region
  <2>4. CASE below = {} /\ above = {}
    BY <2>4, <1>6, <1>7 DEF Region
  <2>. QED  BY <2>1, <2>2, <2>3, <2>4
<1>10. \A p : p \in RegionPages(M) <=> p \in lo.gpa .. hi.gpa + hi.size - 1
  BY <1>8, <1>9 DEF RegionPages, RangeLast, Region
<1>11. ASSUME NEW p
       PROVE  p \in RegionPages(M)
                <=> \/ p \in RangePages(start, size)
                    \/ \E r \in N : p \in RegionPages(r)
  <2>1. (\E r \in N : p \in RegionPages(r))
          <=> \/ below # {} /\ p \in RegionPages(lo)
              \/ above # {} /\ p \in RegionPages(hi)
    BY <1>1, <1>4, <1>5, <1>6, <1>7
  <2>2. below # {} => (p \in RegionPages(lo) <=> p \in lo.gpa .. start - 1)
    BY <1>2, <1>6, <1>9 DEF RegionPages, RangeLast, Region
  <2>3. above # {} => (p \in RegionPages(hi) <=> p \in start + size .. hi.gpa + hi.size - 1)
    BY <1>3, <1>7, <1>9 DEF RegionPages, RangeLast, Region
  <2>4. below = {} => lo.gpa = start
    BY <1>6
  <2>5. above = {} => hi.gpa + hi.size - 1 = start + size - 1
    BY <1>7
  <2>6. p \in RegionPages(M) <=> p \in lo.gpa .. hi.gpa + hi.size - 1
    BY <1>10
  <2>7. /\ lo.gpa \in Nat /\ hi.gpa \in Nat /\ hi.size \in Nat
        /\ lo.gpa <= start /\ hi.gpa + hi.size - 1 >= start + size - 1
    BY <1>9, <2>4, <2>5, <1>2, <1>6, <1>3, <1>7 DEF Region
  <2>8. p \in RangePages(start, size) <=> p \in start .. start + size - 1
    BY DEF RangePages, RangeLast
  <2>. QED  BY <2>1, <2>2, <2>3, <2>4, <2>5, <2>6, <2>7, <2>8
<1>12. \A p \in RegionPages(M) : M.uaddr + p - M.gpa = uaddr + p - start
  <2>1. M.uaddr = lo.uaddr /\ M.gpa = lo.gpa
    BY <1>8
  <2>2. lo.uaddr \in Nat /\ lo.gpa \in Nat
    BY <1>9 DEF Region
  <2>3. \A p \in RegionPages(M) : p \in Nat
    BY <1>10, <2>2
  <2>. QED  BY <2>1, <2>2, <2>3, <1>9
<1>13. ASSUME NEW r \in N, NEW p \in RegionPages(r)
       PROVE  r.uaddr + p - r.gpa = uaddr + p - start
  <2>1. r \in below \/ r \in above
    BY <1>1
  <2>2. r \in Region
    BY DEF Neighbours
  <2>. QED  BY <2>1, <2>2, <1>2, <1>3 DEF Region, RegionPages, RangeLast
<1>. QED  BY <1>11, <1>12, <1>13 DEF M
(* vhost_dev_assign_memory on a free range adds exactly the new mapping's *)
(* translations, and leaves no two regions sharing a page.                *)
LEMMA AssignMap ==
    ASSUME NEW m \in SUBSET Region, NEW start \in Nat, NEW size \in Nat \ {0},
           NEW uaddr \in Nat, DisjointTable(m), RangeFree(m, start, size)
    PROVE  /\ MemMap(Assign(m, start, size, uaddr))
                  = MemMap(m) \cup NewMap(start, size, uaddr)
           /\ DisjointTable(Assign(m, start, size, uaddr))
<1> DEFINE N == Neighbours(m, start, size, uaddr)
           M == Merged(m, start, size, uaddr)
<1>1. /\ \A p : p \in RegionPages(M)
                  <=> \/ p \in RangePages(start, size)
                      \/ \E r \in N : p \in RegionPages(r)
      /\ \A p \in RegionPages(M) : M.uaddr + p - M.gpa = uaddr + p - start
      /\ \A r \in N : \A p \in RegionPages(r) :
             r.uaddr + p - r.gpa = uaddr + p - start
  BY MergedPages
<1>. HIDE DEF N, M
<1>2. RMap(M) = MemMap(N) \cup NewMap(start, size, uaddr)
  <2>1. ASSUME NEW e \in RMap(M)
        PROVE  e \in MemMap(N) \cup NewMap(start, size, uaddr)
    <3>1. PICK p \in RegionPages(M) : e = <<p, M.uaddr + p - M.gpa>>
      BY DEF RMap
    <3>2. e = <<p, uaddr + p - start>>
      BY <3>1, <1>1
    <3>3. CASE p \in RangePages(start, size)
      BY <3>2, <3>3 DEF NewMap
    <3>4. CASE \E r \in N : p \in RegionPages(r)
      <4>1. PICK r \in N : p \in RegionPages(r)
        BY <3>4
      <4>2. e = <<p, r.uaddr + p - r.gpa>>
        BY <3>2, <4>1, <1>1
      <4>. QED  BY <4>1, <4>2 DEF MemMap
    <3>. QED  BY <3>1, <3>3, <3>4, <1>1
  <2>2. ASSUME NEW e \in MemMap(N) PROVE e \in RMap(M)
    <3>1. PICK r \in N : \E p \in RegionPages(r) : e = <<p, r.uaddr + p - r.gpa>>
      BY DEF MemMap
    <3>2. PICK p \in RegionPages(r) : e = <<p, r.uaddr + p - r.gpa>>
      BY <3>1
    <3>3. p \in RegionPages(M) /\ e = <<p, M.uaddr + p - M.gpa>>
      BY <3>1, <3>2, <1>1
    <3>. QED  BY <3>3 DEF RMap
  <2>3. ASSUME NEW e \in NewMap(start, size, uaddr) PROVE e \in RMap(M)
    <3>1. PICK p \in RangePages(start, size) : e = <<p, uaddr + p - start>>
      BY DEF NewMap
    <3>2. p \in RegionPages(M) /\ e = <<p, M.uaddr + p - M.gpa>>
      BY <3>1, <1>1
    <3>. QED  BY <3>2 DEF RMap
  <2>. QED  BY <2>1, <2>2, <2>3
<1>3. N \subseteq m /\ m = (m \ N) \cup N
  BY DEF N, Neighbours
<1>4. Assign(m, start, size, uaddr) = (m \ N) \cup {M}
  BY DEF Assign, N, M
<1>5. MemMap(Assign(m, start, size, uaddr)) = MemMap(m) \cup NewMap(start, size, uaddr)
  <2>1. MemMap((m \ N) \cup {M}) = MemMap(m \ N) \cup RMap(M)
    <3>1. MemMap((m \ N) \cup {M}) = MemMap(m \ N) \cup MemMap({M})
      BY MemMapUnion
    <3>2. MemMap({M}) = RMap(M)
      BY MemMapUnion
    <3>. QED  BY <3>1, <3>2
  <2>2. MemMap(m) = MemMap(m \ N) \cup MemMap(N)
    BY <1>3, MemMapUnion
  <2>. QED  BY <1>2, <1>4, <2>1, <2>2
<1>6. ASSUME NEW r \in m \ N PROVE RegionPages(M) \cap RegionPages(r) = {}
  <2>1. RegionPages(r) \cap RangePages(start, size) = {}
    BY DEF RangeFree
  <2>2. \A r2 \in N : RegionPages(r2) \cap RegionPages(r) = {}
    BY <1>3 DEF DisjointTable
  <2>. QED  BY <2>1, <2>2, <1>1
<1>7. DisjointTable(Assign(m, start, size, uaddr))
  BY <1>4, <1>6 DEF DisjointTable
<1>. QED  BY <1>5, <1>7
-----------------------------------------------------------------------------
(* The sections of a list, and no two of its entries sharing a page.       *)
SecSet(seq) == {seq[i] : i \in 1 .. Len(seq)}

SecsDisjoint(seq) ==
    \A i, j \in 1 .. Len(seq) : i # j => SecPages(seq[i]) \cap SecPages(seq[j]) = {}

(* A section's first page is its own and its pages are its range.          *)
LEMMA SecPagesStart ==
    ASSUME NEW t \in Sections
    PROVE  t.gpa \in SecPages(t) /\ SecPages(t) = RangePages(t.gpa, t.size)
BY ConstAssumption DEF SecPages, RangePages, RangeLast

(* vhost_region_add appends a section that shares no page with the list. *)
LEMMA AppendSec ==
    ASSUME NEW seq \in Seq(Sections), NEW s \in Sections, SecsDisjoint(seq),
           \A i \in 1 .. Len(seq) : SecPages(seq[i]) \cap SecPages(s) = {}
    PROVE  /\ SecSet(Append(seq, s)) = SecSet(seq) \cup {s}
           /\ SecsDisjoint(Append(seq, s))
<1>1. /\ Len(Append(seq, s)) = Len(seq) + 1
      /\ \A i \in 1 .. Len(seq) : Append(seq, s)[i] = seq[i]
      /\ Append(seq, s)[Len(seq) + 1] = s
      /\ Len(seq) \in Nat
  OBVIOUS
<1>2. \A i \in 1 .. Len(seq) + 1 : i \in 1 .. Len(seq) \/ i = Len(seq) + 1
  BY <1>1
<1>3. SecSet(Append(seq, s)) = SecSet(seq) \cup {s}
  BY <1>1, <1>2 DEF SecSet
<1>4. SecsDisjoint(Append(seq, s))
  BY <1>1, <1>2 DEF SecsDisjoint
<1>. QED  BY <1>3, <1>4

(***************************************************************************)
(* The memmove of vhost_region_del, on a list of sections no two of which *)
(* share a page, removes exactly the section asked for: the first entry   *)
(* with its start address is that section, since two entries starting at *)
(* the same page would share it.                                           *)
(***************************************************************************)
LEMMA RemoveSecExact ==
    ASSUME NEW seq \in Seq(Sections), SecsDisjoint(seq), NEW s \in SecSet(seq)
    PROVE  /\ SecSet(RemoveSec(seq, s)) = SecSet(seq) \ {s}
           /\ SecsDisjoint(RemoveSec(seq, s))
           /\ RemoveSec(seq, s) \in Seq(Sections)
<1> DEFINE n == Len(seq)
           P(j) == /\ seq[j].gpa = s.gpa
                   /\ \A k \in 1 .. j - 1 : seq[k].gpa # s.gpa
           i == CHOOSE j \in 1 .. n : P(j)
           g == [j \in 1 .. n - 1 |-> IF j < i THEN seq[j] ELSE seq[j + 1]]
<1>1. n \in Nat /\ seq \in [1 .. n -> Sections]
  OBVIOUS
<1>2. PICK k0 \in 1 .. n : seq[k0] = s
  BY DEF SecSet
<1>3. \A j \in 1 .. n : seq[j].gpa = s.gpa => j = k0
  <2>1. SUFFICES ASSUME NEW j \in 1 .. n, seq[j].gpa = s.gpa, j # k0
                 PROVE  FALSE
    OBVIOUS
  <2>2. s.gpa \in SecPages(seq[j]) /\ s.gpa \in SecPages(seq[k0])
    BY <1>1, <1>2, <2>1, SecPagesStart
  <2>. QED  BY <2>1, <2>2 DEF SecsDisjoint
<1>4. \A j \in 1 .. n : P(j) <=> j = k0
  BY <1>1, <1>2, <1>3
<1>5. i = k0
  BY <1>4
<1>. HIDE DEF i
<1>6. RemoveSec(seq, s) = g
  BY DEF RemoveSec, i
<1>. HIDE DEF g
<1>7. \A j \in 1 .. n : seq[j] = s => j = k0
  BY <1>1, <1>3
<1>8. /\ \A j \in 1 .. n - 1 : g[j] = IF j < k0 THEN seq[j] ELSE seq[j + 1]
      /\ DOMAIN g = 1 .. n - 1
  BY <1>5 DEF g
<1>9. \A j \in 1 .. n - 1 : (IF j < k0 THEN j ELSE j + 1) \in (1 .. n) \ {k0}
  BY <1>1, <1>2
<1>10. \A j \in (1 .. n) \ {k0} :
          \E l \in 1 .. n - 1 : j = IF l < k0 THEN l ELSE l + 1
  <2>1. SUFFICES ASSUME NEW j \in (1 .. n) \ {k0}
                 PROVE  \E l \in 1 .. n - 1 : j = IF l < k0 THEN l ELSE l + 1
    OBVIOUS
  <2>2. CASE j < k0
    <3>1. j \in 1 .. n - 1 /\ j < k0
      BY <2>2, <1>1, <1>2
    <3>. QED  BY <3>1
  <2>3. CASE j > k0
    <3>1. j - 1 \in 1 .. n - 1 /\ ~ (j - 1 < k0) /\ j = (j - 1) + 1
      BY <2>3, <1>1, <1>2
    <3>. QED  BY <3>1
  <2>. QED  BY <2>2, <2>3, <1>1, <1>2
<1>11. g \in Seq(Sections) /\ Len(g) = n - 1
  <2>1. RemoveSec(seq, s) \in Seq(Sections)
    BY RemoveSecType
  <2>2. g \in Seq(Sections)
    BY <2>1, <1>6
  <2>3. DOMAIN g = 1 .. Len(g) /\ Len(g) \in Nat
    BY <2>2
  <2>4. 1 .. Len(g) = 1 .. n - 1
    BY <2>3, <1>8
  <2>5. n - 1 \in Nat
    BY <1>1, <1>2
  <2>6. \A x : x \in 1 .. Len(g) <=> x \in 1 .. n - 1
    BY <2>4
  <2>7. Len(g) = n - 1
    <3>1. Len(g) \in 1 .. Len(g) \/ Len(g) = 0
      BY <2>3
    <3>2. n - 1 \in 1 .. n - 1 \/ n - 1 = 0
      BY <2>5, <1>1, <1>2
    <3>3. Len(g) \in 1 .. Len(g) => Len(g) \in 1 .. n - 1
      BY <2>6
    <3>4. n - 1 \in 1 .. n - 1 => n - 1 \in 1 .. Len(g)
      BY <2>6
    <3>. QED  BY <3>1, <3>2, <3>3, <3>4, <2>3, <2>5
  <2>. QED  BY <2>2, <2>7
<1>12. SecSet(g) = SecSet(seq) \ {s}
  <2>1. ASSUME NEW x \in SecSet(g) PROVE x \in SecSet(seq) \ {s}
    <3>1. PICK l \in 1 .. n - 1 : x = g[l]
      BY <1>11 DEF SecSet
    <3>. QED  BY <3>1, <1>8, <1>9, <1>7 DEF SecSet
  <2>2. ASSUME NEW x \in SecSet(seq) \ {s} PROVE x \in SecSet(g)
    <3>1. PICK j \in 1 .. n : x = seq[j]
      BY DEF SecSet
    <3>2. j # k0
      BY <3>1, <1>2
    <3>3. PICK l \in 1 .. n - 1 : j = IF l < k0 THEN l ELSE l + 1
      BY <3>2, <1>10
    <3>. QED  BY <3>1, <3>3, <1>8, <1>11 DEF SecSet
  <2>. QED  BY <2>1, <2>2
<1>13. SecsDisjoint(g)
  <2>1. SUFFICES ASSUME NEW a \in 1 .. n - 1, NEW b \in 1 .. n - 1, a # b
                 PROVE  SecPages(g[a]) \cap SecPages(g[b]) = {}
    BY <1>11 DEF SecsDisjoint
  <2>2. /\ (IF a < k0 THEN a ELSE a + 1) # (IF b < k0 THEN b ELSE b + 1)
        /\ (IF a < k0 THEN a ELSE a + 1) \in 1 .. n
        /\ (IF b < k0 THEN b ELSE b + 1) \in 1 .. n
    BY <2>1, <1>9
  <2>. QED  BY <2>2, <1>8 DEF SecsDisjoint
<1>. QED  BY <1>6, <1>11, <1>12, <1>13
-----------------------------------------------------------------------------
(***************************************************************************)
(* The refinement mapping written out: the sections present, the RAM ones *)
(* among them, and the translations each contributes.                     *)
(***************************************************************************)
Present == SecSet(secs) \ {delsec}

RamPresent == {t \in Present : t.mr \notin Logging}

SMap(t) == {<<p, Hva(t) + p - t.gpa>> : p \in SecPages(t)}

(* The region table translates exactly the pages of the RAM sections present. *)
TableMatches == MemMap(mem) = UNION {SMap(t) : t \in RamPresent}

(* The section vhost_region_del removes is listed, and pending only while *)
(* vhost_set_memory is between its push and its return.                    *)
DelsecOK ==
    delsec # NoSec => delsec \in SecSet(secs) /\ pc \in {"sm_push", "sm_shrink"}

MRest ==
    /\ DisjointTable(mem)
    /\ SecsDisjoint(secs)
    /\ DelsecOK
    /\ TableMatches

MInv == TypeOK /\ MRest

(* The abstract steps, in the detailed variables.                           *)
AbsAdd(s) ==
    /\ s \notin Present
    /\ \A t \in Present : SecPages(t) \cap SecPages(s) = {}
    /\ Present' = Present \cup {s}
    /\ MemMap(mem') = IF s.mr \in Logging THEN MemMap(mem) ELSE MemMap(mem) \cup SMap(s)

AbsDel(s) ==
    /\ s \in Present
    /\ Present' = Present \ {s}
    /\ MemMap(mem') = {e \in MemMap(mem) : e[1] \notin SecPages(s)}

(* The abstract steps written in the detailed variables are GuestPageMap's.*)
LEMMA AbsSteps ==
    ASSUME NEW s \in Sections
    PROVE  /\ AbsAdd(s) => PageMap!Add(s)
           /\ AbsDel(s) => PageMap!Del(s)
<1>1. PageMap!SecPageSet(s) = SecPages(s) /\ PageMap!SecMapping(s) = SMap(s)
  BY DEF PageMap!SecPageSet, SecPages, RangeLast, PageMap!SecMapping, SMap
<1>2. \A t : PageMap!SecPageSet(t) = SecPages(t)
  BY DEF PageMap!SecPageSet, SecPages, RangeLast
<1>. QED  BY <1>1, <1>2 DEF AbsAdd, AbsDel, PageMap!Add, PageMap!Del, Present, SecSet

(* TableMatches is GuestPageMap's MapExact under the refinement mapping.   *)
LEMMA AbsExact == TableMatches <=> PageMap!MapExact
<1>1. \A t : PageMap!SecMapping(t) = SMap(t)
  BY DEF PageMap!SecPageSet, SecPages, RangeLast, PageMap!SecMapping, SMap
<1>. QED  BY <1>1 DEF TableMatches, PageMap!MapExact, RamPresent, Present, SecSet
(* A range that shares no page with the sections present meets no region: *)
(* the table maps nothing else.                                           *)
LEMMA FreeRange ==
    ASSUME TypeOK, TableMatches, NEW s \in Sections,
           \A t \in Present : SecPages(t) \cap SecPages(s) = {}
    PROVE  RangeFree(mem, s.gpa, s.size)
<1> SUFFICES ASSUME NEW r \in mem, NEW p \in RegionPages(r) \cap RangePages(s.gpa, s.size)
             PROVE  FALSE
  BY DEF RangeFree
<1>1. <<p, r.uaddr + p - r.gpa>> \in MemMap(mem)
  BY DEF MemMap
<1>2. PICK t \in RamPresent : <<p, r.uaddr + p - r.gpa>> \in SMap(t)
  BY <1>1 DEF TableMatches
<1>3. p \in SecPages(t)
  BY <1>2 DEF SMap
<1>4. p \in SecPages(s)
  BY SecPagesStart
<1>. QED  BY <1>3, <1>4 DEF RamPresent

(* Unassigning a range the table does not map changes no translation.      *)
LEMMA UnassignFree ==
    ASSUME NEW m \in SUBSET Region, NEW start \in Nat, NEW size \in Nat \ {0},
           RangeFree(m, start, size)
    PROVE  MemMap(Unassign(m, start, size)) = MemMap(m)
<1>1. ASSUME NEW r \in m, NEW p \in RegionPages(r) PROVE p \notin RangePages(start, size)
  BY DEF RangeFree
<1>2. ASSUME NEW e \in MemMap(m) PROVE e[1] \notin RangePages(start, size)
  <2>1. PICK r \in m : e \in {<<p, r.uaddr + p - r.gpa>> : p \in RegionPages(r)}
    BY DEF MemMap
  <2>2. PICK p \in RegionPages(r) : e = <<p, r.uaddr + p - r.gpa>>
    BY <2>1
  <2>. QED  BY <1>1, <2>2
<1>3. MemMap(Unassign(m, start, size))
          = {e \in MemMap(m) : e[1] \notin RangePages(start, size)}
  BY UnassignMap
<1>. QED  BY <1>2, <1>3

(* Dropping a section whose pages no other section shares removes exactly *)
(* its pages from the union of the mappings.                               *)
LEMMA SplitMap ==
    ASSUME NEW R, NEW s,
           \A t \in R \ {s} : SecPages(t) \cap SecPages(s) = {}
    PROVE  UNION {SMap(t) : t \in R \ {s}}
               = {e \in UNION {SMap(t) : t \in R} : e[1] \notin SecPages(s)}
<1>1. \A t : \A e \in SMap(t) : e[1] \in SecPages(t)
  BY DEF SMap
<1>2. \A e \in SMap(s) : e[1] \in SecPages(s)
  BY <1>1
<1>. QED  BY <1>1, <1>2

(* Between handlers no section is being removed: Present is mem_sections. *)
LEMMA IdlePresent ==
    ASSUME TypeOK, DelsecOK, pc = "idle"
    PROVE  /\ delsec = NoSec
           /\ Present = SecSet(secs)
<1>1. delsec = NoSec
  BY DEF DelsecOK
<1>2. NoSec \notin SecSet(secs)
  <2>1. \A i \in 1 .. Len(secs) : secs[i] \in Sections
    BY DEF TypeOK
  <2>. QED  BY <2>1, ConstAssumption DEF SecSet
<1>. QED  BY <1>1, <1>2 DEF Present
(* The state vhost_region_add leaves when it appends its section: the     *)
(* invariant holds again and the step is the abstract Add.                *)
LEMMA AddPost ==
    ASSUME TypeOK, MRest, NEW s \in Sections,
           delsec = NoSec, Present = SecSet(secs), s \notin Present,
           \A t \in Present : SecPages(t) \cap SecPages(s) = {},
           SecSet(Append(secs, s)) = SecSet(secs) \cup {s},
           SecsDisjoint(Append(secs, s)),
           secs' = Append(secs, s), delsec' = NoSec,
           DisjointTable(mem'),
           MemMap(mem') = IF s.mr \in Logging THEN MemMap(mem) ELSE MemMap(mem) \cup SMap(s)
    PROVE  MRest' /\ AbsAdd(s)
<1>1. Present' = Present \cup {s}
  <2>1. Present' = SecSet(Append(secs, s)) \ {NoSec}
    BY DEF Present
  <2>2. \A i \in 1 .. Len(secs) : secs[i] \in Sections
    BY DEF TypeOK
  <2>3. NoSec \notin SecSet(secs) \cup {s}
    BY <2>2, ConstAssumption DEF SecSet
  <2>. QED  BY <2>1, <2>3
<1>2. RamPresent' = IF s.mr \in Logging THEN RamPresent ELSE RamPresent \cup {s}
  BY <1>1 DEF RamPresent
<1>3. TableMatches'
  <2>1. CASE s.mr \in Logging
    BY <1>2, <2>1 DEF TableMatches, MRest
  <2>2. CASE s.mr \notin Logging
    <3>1. UNION {SMap(t) : t \in RamPresent \cup {s}}
            = (UNION {SMap(t) : t \in RamPresent}) \cup SMap(s)
      OBVIOUS
    <3>. QED  BY <1>2, <2>2, <3>1 DEF TableMatches, MRest
  <2>. QED  BY <2>1, <2>2
<1>4. DelsecOK'
  BY DEF DelsecOK
<1>. QED  BY <1>1, <1>3, <1>4 DEF MRest, AbsAdd
(* The section vhost_region_add appends shares no page with those listed: *)
(* the memory API's no-overlap contract, restated on pages.               *)
LEMMA AddedApart ==
    ASSUME NEW s \in Sections, secs \in Seq(Sections), RegionAdd(s)
    PROVE  \A i \in 1 .. Len(secs) : SecPages(secs[i]) \cap SecPages(s) = {}
<1> SUFFICES ASSUME NEW i \in 1 .. Len(secs)
             PROVE  SecPages(secs[i]) \cap SecPages(s) = {}
  OBVIOUS
<1>1. secs[i] \in Sections
  OBVIOUS
<1>2. ~ RangesOverlap(secs[i].gpa, secs[i].size, s.gpa, s.size)
  BY DEF RegionAdd
<1>. QED  BY <1>1, <1>2, SectionType, SecPagesStart, OverlapIff

(***************************************************************************)
(* vhost_region_add keeps the invariant and is the abstract Add, or, when  *)
(* the ring check asserts, changes neither the sections nor the table.    *)
(* The range is free in the table, so vhost_dev_cmp_memory always reports *)
(* a change for a RAM section; a logging section's double unassign of a    *)
(* free range changes no translation.                                      *)
(***************************************************************************)
LEMMA AddStep ==
    ASSUME TypeOK, MRest, NEW s \in Sections, RegionAdd(s)
    PROVE  MRest' /\ (AbsAdd(s) \/ UNCHANGED <<Present, MemMap(mem)>>)
<1> DEFINE u1 == Unassign(mem, s.gpa, s.size)
           a1 == Assign(u1, s.gpa, s.size, Hva(s))
           u2 == Unassign(u1, s.gpa, s.size)
<1>1. pc = "idle" /\ delsec = NoSec /\ Present = SecSet(secs)
  BY IdlePresent DEF RegionAdd, MRest
<1>2. /\ s.gpa \in Nat /\ s.size \in Nat \ {0} /\ Hva(s) \in Nat
      /\ secs \in Seq(Sections) /\ mem \in SUBSET Region
  BY SectionType DEF TypeOK
<1>3. \A i \in 1 .. Len(secs) : SecPages(secs[i]) \cap SecPages(s) = {}
  BY <1>2, AddedApart
<1>4. \A t \in Present : SecPages(t) \cap SecPages(s) = {}
  BY <1>1, <1>3 DEF SecSet
<1>5. s \notin Present
  BY <1>1 DEF RegionAdd, SecSet
<1>6. RangeFree(mem, s.gpa, s.size)
  BY <1>4, FreeRange DEF MRest
<1>7. /\ MemMap(u1) = MemMap(mem)
      /\ DisjointTable(u1) /\ RangeFree(u1, s.gpa, s.size)
      /\ u1 \in SUBSET Region
  BY <1>2, <1>6, UnassignFree, UnassignDisjoint, UnassignType DEF MRest
<1>8. /\ SecSet(Append(secs, s)) = SecSet(secs) \cup {s}
      /\ SecsDisjoint(Append(secs, s))
  BY <1>2, <1>3, AppendSec DEF MRest
<1>9. ASSUME UNCHANGED <<secs, mem, delsec>>
      PROVE  MRest' /\ UNCHANGED <<Present, MemMap(mem)>>
  BY <1>1, <1>9 DEF MRest, DelsecOK, DisjointTable, SecsDisjoint, TableMatches,
                   Present, RamPresent
<1>10. CASE s.mr \notin Logging
  <2>1. Overlapping(mem, s.gpa, s.size) = {}
    <3>0. ASSUME NEW r \in mem PROVE ~ RangesOverlap(r.gpa, r.size, s.gpa, s.size)
      <4>1. r.gpa \in Nat /\ r.size \in Nat \ {0}
        BY <1>2 DEF Region
      <4>2. RegionPages(r) = RangePages(r.gpa, r.size)
        BY DEF RegionPages, RangePages
      <4>. QED  BY <1>2, <1>6, <4>1, <4>2, OverlapIff DEF RangeFree
    <3>. QED  BY <3>0 DEF Overlapping
  <2>2. CmpMemory(mem, s.gpa, s.size, Hva(s))
    BY <2>1 DEF CmpMemory
  <2>3. /\ MemMap(a1) = MemMap(mem) \cup SMap(s)
        /\ DisjointTable(a1)
    <3>1. NewMap(s.gpa, s.size, Hva(s)) = SMap(s)
      BY SecPagesStart DEF NewMap, SMap
    <3>. QED  BY <1>2, <1>7, <3>1, AssignMap
  <2>4. \/ mem' = a1 /\ secs' = Append(secs, s) /\ delsec' = NoSec
        \/ UNCHANGED <<secs, mem, delsec>>
    BY <1>1, <2>2, <1>10 DEF RegionAdd, SetMemory
  <2>. QED  BY <2>3, <2>4, <1>1, <1>4, <1>5, <1>8, <1>9, <1>10, AddPost
<1>11. CASE s.mr \in Logging
  <2>1. MemMap(u2) = MemMap(mem) /\ DisjointTable(u2)
    BY <1>2, <1>7, UnassignFree, UnassignDisjoint
  <2>2. \/ mem' \in {mem, u2} /\ secs' = Append(secs, s) /\ delsec' = NoSec
        \/ UNCHANGED <<secs, mem, delsec>>
    BY <1>1, <1>11 DEF RegionAdd, SetMemory
  <2>. QED  BY <2>1, <2>2, <1>1, <1>4, <1>5, <1>8, <1>9, <1>11, AddPost DEF MRest
<1>. QED  BY <1>10, <1>11
(* Sections of a disjoint list other than s share no page with it.         *)
LEMMA OthersDisjoint ==
    ASSUME NEW seq \in Seq(Sections), SecsDisjoint(seq), NEW s \in SecSet(seq)
    PROVE  \A t \in SecSet(seq) \ {s} : SecPages(t) \cap SecPages(s) = {}
BY DEF SecSet, SecsDisjoint

(* The state vhost_region_del leaves, whether it drops its section now or  *)
(* once vhost_set_memory returns: the invariant holds and the step is Del. *)
LEMMA DelPost ==
    ASSUME TypeOK, MRest, NEW s \in Sections, s \in SecSet(secs),
           delsec = NoSec, Present = SecSet(secs),
           Present' = SecSet(secs) \ {s},
           SecsDisjoint(secs'), DelsecOK', DisjointTable(mem'),
           MemMap(mem') = {e \in MemMap(mem) : e[1] \notin SecPages(s)}
    PROVE  MRest' /\ AbsDel(s)
<1>1. RamPresent' = RamPresent \ {s}
  BY DEF RamPresent
<1>2. \A t \in RamPresent \ {s} : SecPages(t) \cap SecPages(s) = {}
  BY OthersDisjoint DEF TypeOK, MRest, RamPresent
<1>3. UNION {SMap(t) : t \in RamPresent \ {s}}
        = {e \in UNION {SMap(t) : t \in RamPresent} : e[1] \notin SecPages(s)}
  BY <1>2, SplitMap
<1>4. TableMatches'
  BY <1>1, <1>3 DEF TableMatches, MRest
<1>. QED  BY <1>4 DEF MRest, AbsDel

(***************************************************************************)
(* vhost_region_del keeps the invariant and is the abstract Del, or, when  *)
(* the ring check asserts, changes nothing the map sees.  Whether the      *)
(* section leaves mem_sections at once (a stopped device, or find_reg      *)
(* finding nothing) or at the end of vhost_set_memory (delsec), it is no   *)
(* longer present, and the double unassign removes exactly its pages.      *)
(***************************************************************************)
LEMMA DelStep ==
    ASSUME TypeOK, MRest, NEW s \in Sections, RegionDel(s)
    PROVE  MRest' /\ (AbsDel(s) \/ UNCHANGED <<Present, MemMap(mem)>>)
<1> DEFINE u1 == Unassign(mem, s.gpa, s.size)
           u2 == Unassign(u1, s.gpa, s.size)
           F  == {e \in MemMap(mem) : e[1] \notin SecPages(s)}
<1>1. pc = "idle" /\ delsec = NoSec /\ Present = SecSet(secs) /\ s \in SecSet(secs)
  BY IdlePresent DEF RegionDel, MRest, SecSet
<1>2. /\ s.gpa \in Nat /\ s.size \in Nat \ {0}
      /\ secs \in Seq(Sections) /\ mem \in SUBSET Region
      /\ SecPages(s) = RangePages(s.gpa, s.size)
  BY SectionType, SecPagesStart DEF TypeOK
<1>3. /\ MemMap(u2) = F /\ DisjointTable(u2)
  <2>1. u1 \in SUBSET Region /\ DisjointTable(u1)
    BY <1>2, UnassignType, UnassignDisjoint DEF MRest
  <2>2. MemMap(u1) = F
    <3>1. MemMap(u1) = {e \in MemMap(mem) : e[1] \notin RangePages(s.gpa, s.size)}
      BY <1>2, UnassignMap
    <3>. QED  BY <1>2, <3>1
  <2>3. MemMap(u2) = {e \in MemMap(u1) : e[1] \notin RangePages(s.gpa, s.size)}
    BY <1>2, <2>1, UnassignMap
  <2>. QED  BY <1>2, <2>1, <2>2, <2>3, UnassignDisjoint
<1>4. Overlapping(mem, s.gpa, s.size) = {} => MemMap(mem) = F
  <2> SUFFICES ASSUME Overlapping(mem, s.gpa, s.size) = {},
                      NEW r \in mem, NEW p \in RegionPages(r)
               PROVE  p \notin SecPages(s)
    BY DEF MemMap
  <2>1. r.gpa \in Nat /\ r.size \in Nat \ {0}
    BY <1>2 DEF Region
  <2>2. RegionPages(r) = RangePages(r.gpa, r.size)
    BY DEF RegionPages, RangePages
  <2>3. ~ RangesOverlap(r.gpa, r.size, s.gpa, s.size)
    BY DEF Overlapping
  <2>. QED  BY <1>2, <2>1, <2>2, <2>3, OverlapIff
<1>5. /\ SecSet(RemoveSec(secs, s)) = SecSet(secs) \ {s}
      /\ SecsDisjoint(RemoveSec(secs, s))
  BY <1>1, <1>2, RemoveSecExact DEF MRest
<1>6. \/ /\ mem' \in {mem, u2} /\ (Overlapping(mem, s.gpa, s.size) # {} => mem' = u2)
         /\ secs' = RemoveSec(secs, s) /\ delsec' = NoSec
      \/ mem' = u2 /\ secs' = secs /\ delsec' = s /\ pc' = "sm_push"
      \/ UNCHANGED <<secs, mem, delsec>>
  BY <1>1 DEF RegionDel, SetMemory
<1>7. NoSec \notin SecSet(secs)
  <2>1. \A i \in 1 .. Len(secs) : secs[i] \in Sections
    BY DEF TypeOK
  <2>. QED  BY <2>1, ConstAssumption DEF SecSet
<1>8. CASE mem' \in {mem, u2} /\ (Overlapping(mem, s.gpa, s.size) # {} => mem' = u2)
           /\ secs' = RemoveSec(secs, s) /\ delsec' = NoSec
  <2>1. MemMap(mem') = F /\ DisjointTable(mem')
    BY <1>3, <1>4, <1>8 DEF MRest
  <2>2. Present' = SecSet(secs) \ {s}
    BY <1>5, <1>7, <1>8 DEF Present
  <2>. QED  BY <1>1, <1>5, <1>8, <2>1, <2>2, DelPost DEF DelsecOK
<1>9. CASE mem' = u2 /\ secs' = secs /\ delsec' = s /\ pc' = "sm_push"
  <2>1. Present' = SecSet(secs) \ {s}
    BY <1>9 DEF Present
  <2>2. DelsecOK'
    BY <1>1, <1>9 DEF DelsecOK
  <2>. QED  BY <1>1, <1>3, <1>9, <2>1, <2>2, DelPost DEF MRest
<1>10. CASE UNCHANGED <<secs, mem, delsec>>
  BY <1>1, <1>10 DEF MRest, DelsecOK, DisjointTable, SecsDisjoint, TableMatches,
                    Present, RamPresent
<1>. QED  BY <1>6, <1>8, <1>9, <1>10
(* A step that touches neither mem_sections, the table nor the pending    *)
(* removal, and moves pc only when nothing is pending, keeps the invariant *)
(* and is an abstract stutter.                                             *)
LEMMA FrameStep ==
    ASSUME MRest, UNCHANGED <<secs, mem, delsec>>,
           delsec = NoSec \/ pc' = pc \/ pc' \in {"sm_push", "sm_shrink"}
    PROVE  MRest' /\ UNCHANGED <<Present, MemMap(mem)>>
BY DEF MRest, DelsecOK, DisjointTable, SecsDisjoint, TableMatches, Present, RamPresent

(* The return of vhost_set_memory: vhost_region_del drops the section it   *)
(* removed, which was no longer present; nothing the map sees changes.    *)
LEMMA FinishStep ==
    ASSUME TypeOK, MRest, FinishSetMemory, mem' = mem
    PROVE  MRest' /\ UNCHANGED <<Present, MemMap(mem)>>
<1>1. CASE delsec = NoSec
  BY <1>1, FrameStep DEF FinishSetMemory
<1>2. CASE delsec # NoSec
  <2>1. delsec \in SecSet(secs) /\ secs \in Seq(Sections)
    BY <1>2 DEF MRest, DelsecOK, TypeOK
  <2>2. /\ SecSet(secs') = SecSet(secs) \ {delsec}
        /\ SecsDisjoint(secs')
    BY <1>2, <2>1, RemoveSecExact DEF FinishSetMemory, MRest
  <2>3. NoSec \notin SecSet(secs)
    <3>1. \A i \in 1 .. Len(secs) : secs[i] \in Sections
      BY <2>1
    <3>. QED  BY <3>1, ConstAssumption DEF SecSet
  <2>4. Present' = Present /\ delsec' = NoSec
    BY <2>2, <2>3 DEF FinishSetMemory, Present
  <2>. QED  BY <2>2, <2>4 DEF MRest, DelsecOK, DisjointTable, TableMatches, RamPresent
<1>. QED  BY <1>1, <1>2

(* Add, Del or a stutter of the detailed variables is a step of the page  *)
(* map under the refinement mapping.                                       *)
LEMMA AbsNext ==
    ASSUME NEW s \in Sections,
           AbsAdd(s) \/ AbsDel(s) \/ UNCHANGED <<Present, MemMap(mem)>>
    PROVE  [PageMap!Next]_PageMap!pmvars
<1>1. AbsAdd(s) \/ AbsDel(s) => PageMap!Next
  BY AbsSteps DEF PageMap!Next
<1>2. UNCHANGED <<Present, MemMap(mem)>> => UNCHANGED PageMap!pmvars
  BY DEF PageMap!pmvars, Present, SecSet
<1>. QED  BY <1>1, <1>2
(* Every step keeps the invariant and is a step or a stutter of the map.   *)
LEMMA MapStep ==
    ASSUME TypeOK, MRest, [Next]_vars
    PROVE  MRest' /\ [PageMap!Next]_PageMap!pmvars
<1>0. UNCHANGED <<Present, MemMap(mem)>> => [PageMap!Next]_PageMap!pmvars
  BY DEF PageMap!pmvars, Present, SecSet
<1>1. pc \notin {"sm_push", "sm_shrink"} => delsec = NoSec
  BY DEF MRest, DelsecOK
<1>2. ASSUME NEW s \in Sections, RegionAdd(s)
      PROVE  MRest' /\ [PageMap!Next]_PageMap!pmvars
  BY <1>0, <1>2, AddStep, AbsNext
<1>3. ASSUME NEW s \in Sections, RegionDel(s)
      PROVE  MRest' /\ [PageMap!Next]_PageMap!pmvars
  BY <1>0, <1>3, DelStep, AbsNext
<1>4. CASE SetMemTable
  <2>1. CASE log_enabled /\ log.size > LogSize(mem) + LogSlack
    <3>1. UNCHANGED <<secs, mem, delsec>> /\ pc' = "sm_shrink"
      BY <1>4, <2>1 DEF SetMemTable
    <3>. QED  BY <1>0, <3>1, FrameStep
  <2>2. CASE ~ (log_enabled /\ log.size > LogSize(mem) + LogSlack)
    <3>1. FinishSetMemory /\ mem' = mem
      BY <1>4, <2>2 DEF SetMemTable
    <3>. QED  BY <1>0, <3>1, FinishStep
  <2>. QED  BY <2>1, <2>2
<1>5. CASE ShrinkLog
  BY <1>0, <1>5, FinishStep DEF ShrinkLog
<1>6. CASE \/ \E s \in Sections : LogSync(s)
           \/ \E e \in BOOLEAN : MigrationLogStopped(e)
           \/ MigrationLogEnable \/ MigrationLogDisable
           \/ SetLogFeatures \/ SetVringAddr \/ FreeLog
           \/ StartDev \/ StopDev
  <2>1. UNCHANGED <<secs, mem, delsec>> /\ pc \notin {"sm_push", "sm_shrink"}
    BY <1>6 DEF LogSync, MigrationLogStopped, MigrationLogEnable, MigrationLogDisable,
                SetLogFeatures, SetVringAddr, FreeLog, StartDev, StopDev
  <2>. QED  BY <1>0, <1>1, <2>1, FrameStep
<1>7. CASE \/ \E p \in Pages : KernelWrite(p)
           \/ Aborted \/ UNCHANGED vars
  <2>1. UNCHANGED <<secs, mem, delsec, pc>>
    BY <1>7 DEF KernelWrite, Aborted, vars
  <2>. QED  BY <1>0, <2>1, FrameStep
<1>. QED  BY <1>2, <1>3, <1>4, <1>5, <1>6, <1>7 DEF Next

(* vhost_dev_init's empty table and section list satisfy the invariant and *)
(* map to the empty page map.                                              *)
LEMMA InitMInv == Init => MInv /\ PageMap!Init
<1> SUFFICES ASSUME Init PROVE MInv /\ PageMap!Init
  OBVIOUS
<1>1. TypeOK
  BY InitType
<1>2. SecSet(secs) = {} /\ MemMap(mem) = {}
  BY DEF Init, SecSet, MemMap
<1>3. Present = {} /\ RamPresent = {}
  BY <1>2 DEF Present, RamPresent
<1>4. MRest
  BY <1>2, <1>3 DEF Init, MRest, DisjointTable, SecsDisjoint, SecSet, DelsecOK,
                    TableMatches
<1>5. PageMap!Init
  BY <1>2, <1>3 DEF PageMap!Init, Present, SecSet
<1>. QED  BY <1>1, <1>4, <1>5 DEF MInv

(* The invariant gives the two halves of RegionTableExact: disjoint        *)
(* regions do not overlap, and between handlers nothing is pending, so the *)
(* table maps exactly the RAM sections of mem_sections.                   *)
LEMMA MInvExact == MInv => RegionTableExact
<1> SUFFICES ASSUME MInv PROVE RegionTableExact
  OBVIOUS
<1>1. ASSUME NEW r1 \in mem, NEW r2 \in mem, r1 # r2
      PROVE  ~ RangesOverlap(r1.gpa, r1.size, r2.gpa, r2.size)
  <2>1. r1 \in Region /\ r2 \in Region
    BY DEF MInv, TypeOK
  <2>2. /\ r1.gpa \in Nat /\ r1.size \in Nat \ {0}
        /\ r2.gpa \in Nat /\ r2.size \in Nat \ {0}
    BY <2>1 DEF Region
  <2>3. RegionPages(r1) \cap RegionPages(r2) = {}
    BY <1>1 DEF MInv, MRest, DisjointTable
  <2>4. RegionPages(r1) = RangePages(r1.gpa, r1.size)
        /\ RegionPages(r2) = RangePages(r2.gpa, r2.size)
    BY DEF RegionPages, RangePages
  <2>. QED  BY <2>2, <2>3, <2>4, OverlapIff
<1>2. ASSUME pc = "idle" PROVE MemMap(mem) = SectionMap(secs)
  <2>1. Present = SecSet(secs)
    BY <1>2, IdlePresent DEF MInv, MRest
  <2>2. SecSet(secs) \subseteq Sections
    <3>1. \A i \in 1 .. Len(secs) : secs[i] \in Sections
      BY DEF MInv, TypeOK
    <3>. QED  BY <3>1 DEF SecSet
  <2>3. RamPresent = SecSet(secs) \ {u \in Sections : u.mr \in Logging}
    BY <2>1, <2>2 DEF RamPresent
  <2>. QED  BY <2>3 DEF MInv, MRest, TableMatches, SMap, SectionMap, SecSet
<1>. QED  BY <1>1, <1>2 DEF RegionTableExact

(***************************************************************************)
(* vhost_dev_assign_memory and vhost_dev_unassign_memory, driven by        *)
(* region_add/region_del in any order with the device started or stopped, *)
(* logging or not, and with the ring check failing, keep the table         *)
(* disjoint and translating exactly the RAM sections present.              *)
(***************************************************************************)
THEOREM MapInvariant == Spec => []MInv
<1>1. Init => MInv
  BY InitMInv
<1>2. MInv /\ [Next]_vars => MInv'
  BY MapStep, NextType DEF MInv
<1>. QED  BY <1>1, <1>2, PTL DEF Spec

(* Between callbacks, the region table has no overlapping regions and maps *)
(* exactly the pages of the non-logging sections in mem_sections.          *)
THEOREM RegionTableExactInvariant == Spec => []RegionTableExact
BY MapInvariant, MInvExact, PTL

(***************************************************************************)
(* The region table implements the abstract page map GuestPageMap: the     *)
(* merging, shrinking, shifting and splitting of regions is invisible in   *)
(* the translations, every step of vhost.c maps to a section added, a      *)
(* section removed or no change, and the pending removal of                *)
(* vhost_region_del (delsec) is already an abstract removal.              *)
(***************************************************************************)
THEOREM PageMapRefinement == Spec => PageMapRefined
<1>1. Init => PageMap!Init
  BY InitMInv
<1>2. MInv /\ [Next]_vars => [PageMap!Next]_PageMap!pmvars
  BY MapStep DEF MInv
<1>. QED  BY <1>1, <1>2, MapInvariant, PTL DEF Spec, PageMapRefined, PageMap!Spec
=============================================================================
