------------------------- MODULE VhostDevRingProofs -------------------------
(***************************************************************************)
(* Proofs about the rings of a started device: the host address            *)
(* vhost_virtqueue_init gave the kernel for each used ring (vq->ring) is   *)
(* the address the region table translates the ring page to, whatever     *)
(* sections come and go; and, where no dirty-logging section can be laid  *)
(* over a ring, the ring is never relocated (RingNeverRelocated).  The     *)
(* argument is the one vhost_verify_ring_mappings makes: a table change    *)
(* that reaches a ring page is checked against vq->ring before it is       *)
(* pushed.                                                                 *)
(***************************************************************************)
EXTENDS VhostDevMapProofs

(***************************************************************************)
(* The kernel's ring addresses agree with the table: while the device is  *)
(* started, every translation of a ring page the table holds is the       *)
(* vq->ring of that queue.                                                 *)
(***************************************************************************)
RingTable ==
    started =>
        \A q \in Queues : \A e \in MemMap(mem) : e[1] = RingPage[q] => e[2] = vring[q]

RInv == MInv /\ RingTable

-----------------------------------------------------------------------------
(* In a list whose sections share no page, cpu_physical_memory_map of a    *)
(* page finds the one section holding it.                                  *)
LEMMA MapPageAt ==
    ASSUME NEW seq \in Seq(Sections), SecsDisjoint(seq),
           NEW i \in 1 .. Len(seq), NEW p \in SecPages(seq[i])
    PROVE  MapPage(seq, p) = Hva(seq[i]) + p - seq[i].gpa
<1> DEFINE j == CHOOSE k \in 1 .. Len(seq) : p \in SecPages(seq[k])
<1>1. \E k \in 1 .. Len(seq) : p \in SecPages(seq[k])
  OBVIOUS
<1>2. j \in 1 .. Len(seq) /\ p \in SecPages(seq[j])
  BY <1>1
<1>3. j = i
  BY <1>2 DEF SecsDisjoint
<1>. QED  BY <1>1, <1>3 DEF MapPage

(* A ring page lies in a section exactly when the ring check's range test *)
(* (a one-byte range at the ring against the section) fires.               *)
LEMMA RingInRange ==
    ASSUME NEW s \in Sections, NEW q \in Queues, RingPage[q] \in SecPages(s)
    PROVE  RangesOverlap(s.gpa, s.size, RingPage[q], 1)
<1>1. RingPage[q] \in Nat
  BY ConstAssumption
<1>2. RangePages(RingPage[q], 1) = {RingPage[q]}
  BY <1>1 DEF RangePages, RangeLast
<1>. QED  BY <1>1, <1>2, SectionType, SecPagesStart, OverlapIff

(* A step that keeps the table and the ring addresses and starts nothing  *)
(* keeps RingTable.                                                        *)
LEMMA RingFrame ==
    ASSUME RingTable, mem' = mem, vring' = vring, started' => started
    PROVE  RingTable'
BY DEF RingTable

LEMMA InitRing == Init => RingTable
BY DEF Init, RingTable

(* vhost_region_del only takes translations away.                          *)
LEMMA DelRing ==
    ASSUME TypeOK, MRest, RingTable, NEW s \in Sections, RegionDel(s)
    PROVE  RingTable'
<1>1. AbsDel(s) \/ UNCHANGED <<Present, MemMap(mem)>>
  BY DelStep
<1>2. MemMap(mem') \subseteq MemMap(mem)
  BY <1>1 DEF AbsDel
<1>3. started' = started /\ vring' = vring
  BY DEF RegionDel
<1>. QED  BY <1>2, <1>3 DEF RingTable

(***************************************************************************)
(* vhost_region_add: a translation it adds at a ring page comes from a     *)
(* table change on a started device, so the ring check of                  *)
(* vhost_set_memory ran over the list with the new section appended, and   *)
(* in that list the ring page is the new section's alone.                  *)
(***************************************************************************)
LEMMA AddRing ==
    ASSUME TypeOK, MRest, RingTable, NEW s \in Sections, RegionAdd(s)
    PROVE  RingTable'
<1> DEFINE view == Append(secs, s)
<1>1. AbsAdd(s) \/ UNCHANGED <<Present, MemMap(mem)>>
  BY AddStep
<1>2. MemMap(mem') \subseteq MemMap(mem) \cup SMap(s)
  BY <1>1 DEF AbsAdd
<1>3. started' = started /\ vring' = vring
  BY DEF RegionAdd
<1> SUFFICES ASSUME started, NEW q \in Queues, NEW e \in MemMap(mem'),
                    e[1] = RingPage[q]
             PROVE  e[2] = vring[q]
  BY <1>3 DEF RingTable
<1>4. CASE e \in MemMap(mem)
  BY <1>3, <1>4 DEF RingTable
<1>5. CASE e \notin MemMap(mem)
  <2>1. e \in SMap(s)
    BY <1>2, <1>5
  <2>2. RingPage[q] \in SecPages(s) /\ e[2] = Hva(s) + RingPage[q] - s.gpa
    BY <2>1 DEF SMap
  <2>3. mem' # mem
    BY <1>5
  <2>4. RingsVerified(view, s.gpa, s.size)
    BY <2>3 DEF RegionAdd, SetMemory
  <2>5. MapPage(view, RingPage[q]) = vring[q]
    BY <2>2, <2>4, RingInRange DEF RingsVerified
  <2>6. /\ secs \in Seq(Sections)
        /\ \A i \in 1 .. Len(secs) : SecPages(secs[i]) \cap SecPages(s) = {}
    BY AddedApart DEF TypeOK
  <2>7. /\ view \in Seq(Sections) /\ SecsDisjoint(view)
    BY <2>6, AppendSec DEF MRest
  <2>8. Len(secs) + 1 \in 1 .. Len(view) /\ view[Len(secs) + 1] = s
    BY <2>6
  <2>9. RingPage[q] \in SecPages(view[Len(secs) + 1])
    BY <2>2, <2>8
  <2>10. MapPage(view, RingPage[q]) = Hva(s) + RingPage[q] - s.gpa
    BY <2>7, <2>8, <2>9, MapPageAt
  <2>. QED  BY <2>2, <2>5, <2>10
<1>. QED  BY <1>4, <1>5

(***************************************************************************)
(* vhost_dev_start: each vq->ring is cpu_physical_memory_map of the ring  *)
(* page over mem_sections, and between callbacks the table translates a   *)
(* page exactly as the RAM section of the list holding it does.           *)
(***************************************************************************)
LEMMA StartRing ==
    ASSUME TypeOK, MRest, RingTable, StartDev
    PROVE  RingTable'
<1>1. pc = "idle" /\ started = FALSE /\ mem' = mem
  BY DEF StartDev, TypeOK
<1>2. Present = SecSet(secs)
  BY <1>1, IdlePresent DEF MRest
<1>3. CASE started' = FALSE
  BY <1>3 DEF RingTable
<1>4. CASE started' # FALSE
  <2>1. vring' = [q \in Queues |-> MapPage(secs, RingPage[q])]
    BY <1>1, <1>4 DEF StartDev
  <2> SUFFICES ASSUME NEW q \in Queues, NEW e \in MemMap(mem), e[1] = RingPage[q]
               PROVE  e[2] = MapPage(secs, RingPage[q])
    BY <1>1, <2>1 DEF RingTable
  <2>2. PICK t \in RamPresent : e \in SMap(t)
    BY DEF MRest, TableMatches
  <2>3. PICK i \in 1 .. Len(secs) : secs[i] = t
    BY <1>2, <2>2 DEF RamPresent, SecSet
  <2>4. RingPage[q] \in SecPages(t) /\ e[2] = Hva(t) + RingPage[q] - t.gpa
    BY <2>2 DEF SMap
  <2>. QED  BY <2>3, <2>4, MapPageAt DEF TypeOK, MRest
<1>. QED  BY <1>3, <1>4

(* No other step changes the table, the ring addresses or starts the device. *)
LEMMA NextRing ==
    ASSUME TypeOK, MRest, RingTable, [Next]_vars
    PROVE  RingTable'
<1>1. CASE \E s \in Sections : RegionAdd(s)
  BY <1>1, AddRing
<1>2. CASE \E s \in Sections : RegionDel(s)
  BY <1>2, DelRing
<1>3. CASE StartDev
  BY <1>3, StartRing
<1>4. CASE \E s \in Sections : LogSync(s)
  BY <1>4, RingFrame DEF LogSync
<1>5. CASE SetMemTable \/ ShrinkLog
  BY <1>5, RingFrame DEF SetMemTable, ShrinkLog
<1>6. CASE \E e \in BOOLEAN : MigrationLogStopped(e)
  BY <1>6, RingFrame DEF MigrationLogStopped
<1>7. CASE MigrationLogEnable \/ MigrationLogDisable
  BY <1>7, RingFrame DEF MigrationLogEnable, MigrationLogDisable
<1>8. CASE SetLogFeatures
  BY <1>8, RingFrame DEF SetLogFeatures
<1>13. CASE FreeLog
  <2>1. mem' = mem /\ vring' = vring /\ started' = started
    BY <1>13 DEF FreeLog
  <2>. QED  BY <2>1, RingFrame
<1>12. CASE SetVringAddr
  <2>1. mem' = mem /\ vring' = vring /\ started' = started
    BY <1>12 DEF SetVringAddr
  <2>. QED  BY <2>1, RingFrame
<1>9. CASE StopDev
  BY <1>9, RingFrame DEF StopDev
<1>10. CASE \E p \in Pages : KernelWrite(p)
  BY <1>10, RingFrame DEF KernelWrite
<1>11. CASE Aborted \/ UNCHANGED vars
  BY <1>11, RingFrame DEF Aborted, vars
<1>. QED  BY <1>1, <1>2, <1>3, <1>4, <1>5, <1>6, <1>7, <1>8, <1>9, <1>10, <1>11,
             <1>12, <1>13
          DEF Next

(***************************************************************************)
(* Where no dirty-logging section can cover a ring page, the section of   *)
(* mem_sections that holds a ring page between callbacks is a RAM section *)
(* the table translates, so cpu_physical_memory_map finds vq->ring there.  *)
(***************************************************************************)
LEMMA RingFromTable ==
    ASSUME RingsOutsideLogging, RInv
    PROVE  RingNeverRelocated
<1> SUFFICES ASSUME started, pc = "idle", NEW q \in Queues
             PROVE  MapPage(secs, RingPage[q]) \in {vring[q], NoHva}
  BY DEF RingNeverRelocated
<1>1. CASE ~ \E i \in 1 .. Len(secs) : RingPage[q] \in SecPages(secs[i])
  BY <1>1 DEF MapPage
<1>2. CASE \E i \in 1 .. Len(secs) : RingPage[q] \in SecPages(secs[i])
  <2>1. PICK i \in 1 .. Len(secs) : RingPage[q] \in SecPages(secs[i])
    BY <1>2
  <2>2. secs \in Seq(Sections) /\ SecsDisjoint(secs)
    BY DEF RInv, MInv, TypeOK, MRest
  <2>3. secs[i] \in Sections
    BY <2>2
  <2>4. secs[i].mr \notin Logging
    BY <2>1, <2>3 DEF RingsOutsideLogging
  <2>5. secs[i] \in RamPresent
    BY <2>4, IdlePresent DEF RInv, MInv, MRest, RamPresent, SecSet
  <2>6. <<RingPage[q], Hva(secs[i]) + RingPage[q] - secs[i].gpa>> \in MemMap(mem)
    BY <2>1, <2>5 DEF RInv, MInv, MRest, TableMatches, SMap
  <2>7. Hva(secs[i]) + RingPage[q] - secs[i].gpa = vring[q]
    BY <2>6 DEF RInv, RingTable
  <2>. QED  BY <2>1, <2>2, <2>7, MapPageAt
<1>. QED  BY <1>1, <1>2

(***************************************************************************)
(* For every instance, VGA-like sections included, the host address each   *)
(* used ring of a started device was given by vhost_virtqueue_init is the *)
(* address the region table translates its page to: vhost_set_memory      *)
(* never pushes a table that moves a ring.                                 *)
(***************************************************************************)
THEOREM RingTableInvariant == Spec => []RInv
<1>1. Init => RInv
  BY InitMInv, InitRing DEF RInv
<1>2. RInv /\ [Next]_vars => RInv'
  BY MapStep, NextType, NextRing DEF RInv, MInv
<1>. QED  BY <1>1, <1>2, PTL DEF Spec

(***************************************************************************)
(* A running queue's ring is never relocated under the kernel, for every   *)
(* number of queues, ring placement, log geometry and set of sections in   *)
(* which no section of a dirty-logging region covers a ring page (the     *)
(* instances the ring_logging run shows the hypothesis is needed for):    *)
(* between callbacks the ring page is mapped at vq->ring or not at all.    *)
(***************************************************************************)
THEOREM RingNeverRelocatedInvariant ==
    ASSUME RingsOutsideLogging
    PROVE  Spec => []RingNeverRelocated
<1>1. RInv => RingNeverRelocated
  BY RingFromTable
<1>. QED  BY <1>1, RingTableInvariant, PTL

-----------------------------------------------------------------------------
(* The table the kernel holds is the device's table at a push made while   *)
(* started, so it inherits RingTable.                                      *)
LEMMA KernelRingFrame ==
    ASSUME KernelRingsAgree, kmem' = kmem, vring' = vring, started' => started
    PROVE  KernelRingsAgree'
BY DEF KernelRingsAgree

LEMMA KernelRingPush ==
    ASSUME RingTable', kmem' = mem'
    PROVE  KernelRingsAgree'
BY DEF KernelRingsAgree, RingTable

LEMMA NextKernelRing ==
    ASSUME TypeOK, KernelRingsAgree, RingTable', [Next]_vars
    PROVE  KernelRingsAgree'
<1>1. CASE SetMemTable
  <2>1. kmem' = mem'
    BY <1>1 DEF SetMemTable
  <2>. QED  BY <2>1, KernelRingPush
<1>2. CASE StartDev
  <2>1. CASE started' = started
    <3>1. kmem' = kmem /\ vring' = vring
      BY <1>2, <2>1 DEF StartDev
    <3>. QED  BY <2>1, <3>1, KernelRingFrame
  <2>2. CASE started' # started
    <3>1. kmem' = mem'
      BY <1>2, <2>2 DEF StartDev
    <3>. QED  BY <3>1, KernelRingPush
  <2>. QED  BY <2>1, <2>2
<1>3. CASE ~ SetMemTable /\ ~ StartDev
  <2>1. kmem' = kmem /\ vring' = vring /\ (started' => started)
    <3>1. CASE \E s \in Sections : RegionAdd(s)
      BY <3>1 DEF RegionAdd
    <3>7. CASE \E s \in Sections : RegionDel(s)
      BY <3>7 DEF RegionDel
    <3>8. CASE \E s \in Sections : LogSync(s)
      BY <3>8 DEF LogSync
    <3>2. CASE ShrinkLog \/ (\E e \in BOOLEAN : MigrationLogStopped(e))
      BY <3>2 DEF ShrinkLog, MigrationLogStopped
    <3>3. CASE MigrationLogEnable \/ MigrationLogDisable \/ SetLogFeatures
      BY <3>3 DEF MigrationLogEnable, MigrationLogDisable, SetLogFeatures
    <3>4. CASE SetVringAddr
      BY <3>4 DEF SetVringAddr
    <3>5. CASE FreeLog
      BY <3>5 DEF FreeLog
    <3>9. CASE StopDev
      <4>1. kmem' = kmem /\ vring' = vring
        BY <3>9 DEF StopDev
      <4>2. ~ started' \/ started' = started
        BY <3>9 DEF StopDev
      <4>. QED  BY <4>1, <4>2
    <3>6. CASE (\E p \in Pages : KernelWrite(p)) \/ Aborted \/ UNCHANGED vars
      BY <3>6 DEF KernelWrite, Aborted, vars
    <3>. QED  BY <1>3, <3>1, <3>2, <3>3, <3>4, <3>5, <3>6, <3>7, <3>8, <3>9
              DEF Next
  <2>. QED  BY <2>1, KernelRingFrame
<1>. QED  BY <1>1, <1>2, <1>3

(***************************************************************************)
(* For every instance, the kernel never holds a table that translates a    *)
(* running queue's ring page anywhere but the vq->ring it was given: each *)
(* VHOST_SET_MEM_TABLE of vhost_set_memory and vhost_dev_start pushes a    *)
(* table the ring check has kept consistent with the rings.                *)
(***************************************************************************)
THEOREM KernelRingsAgreeInvariant == Spec => []KernelRingsAgree
<1>1. Init => KernelRingsAgree
  BY DEF Init, KernelRingsAgree
<1>2. RInv /\ RInv' /\ KernelRingsAgree /\ [Next]_vars => KernelRingsAgree'
  BY NextKernelRing DEF RInv, MInv
<1>. QED  BY <1>1, <1>2, RingTableInvariant, PTL DEF Spec
=============================================================================
