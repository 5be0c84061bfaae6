--------------------------- MODULE VhostDevProofs ---------------------------
(***************************************************************************)
(* Proofs about the vhost device model, for every value of the constants  *)
(* allowed by ConstAssumption: the type invariant, and the lemmas on the   *)
(* region table, the log size and the harvest that it rests on.           *)
(***************************************************************************)
EXTENDS VhostDev, TLAPS

-----------------------------------------------------------------------------
(* The pieces vhost_dev_unassign_memory leaves of a region are regions:   *)
(* every size it computes (start - gpa, size - change) is at least one.    *)
LEMMA UnassignPiecesType ==
    ASSUME NEW r \in Region, NEW start \in Nat, NEW size \in Nat \ {0}
    PROVE  UnassignPieces(r, start, size) \subseteq Region
<1> DEFINE reglast == RangeLast(r.gpa, r.size)
           memlast == RangeLast(start, size)
           change  == memlast + 1 - r.gpa
           low     == [r EXCEPT !.size = start - r.gpa]
           high    == [gpa   |-> r.gpa + change,
                       size  |-> r.size - change,
                       uaddr |-> r.uaddr + change]
<1>1. CASE ~ RangesOverlap(r.gpa, r.size, start, size)
  BY <1>1 DEF UnassignPieces
<1>2. r.gpa < start => low \in Region
  BY DEF Region
<1>3. RangesOverlap(r.gpa, r.size, start, size) /\ memlast < reglast
        => high \in Region
  BY DEF Region, RangesOverlap, RangeLast
<1>. QED  BY <1>1, <1>2, <1>3 DEF UnassignPieces

LEMMA UnassignType ==
    ASSUME NEW m \in SUBSET Region, NEW start \in Nat, NEW size \in Nat \ {0}
    PROVE  Unassign(m, start, size) \in SUBSET Region
BY UnassignPiecesType DEF Unassign

(* The region vhost_dev_assign_memory leaves is a region: it starts at or *)
(* below the new range and ends at or above it.                            *)
LEMMA MergedType ==
    ASSUME NEW m \in SUBSET Region, NEW start \in Nat, NEW size \in Nat \ {0},
           NEW uaddr \in Nat
    PROVE  Merged(m, start, size, uaddr) \in Region
<1> DEFINE lo == MergeLow(m, start, size, uaddr)
           hi == MergeHigh(m, start, size, uaddr)
<1>1. lo \in Region /\ lo.gpa <= start
  BY DEF MergeLow, AdjBelow, Region, RangeLast
<1>2. hi \in Region /\ RangeLast(hi.gpa, hi.size) >= RangeLast(start, size)
  BY DEF MergeHigh, AdjAbove, Region, RangeLast
<1>. QED  BY <1>1, <1>2 DEF Merged, Region, RangeLast

LEMMA AssignType ==
    ASSUME NEW m \in SUBSET Region, NEW start \in Nat, NEW size \in Nat \ {0},
           NEW uaddr \in Nat
    PROVE  Assign(m, start, size, uaddr) \in SUBSET Region
BY MergedType DEF Assign

(* vhost_get_log_size returns a natural number.                            *)
LEMMA MaxOfType ==
    ASSUME NEW S \in SUBSET Nat
    PROVE  MaxOf(S) \in Nat
BY DEF MaxOf

LEMMA LogSizeType ==
    ASSUME NEW m \in SUBSET Region
    PROVE  LogSize(m) \in Nat
<1>1. \A r \in m : RangeLast(r.gpa, r.size) \div PagesPerChunk + 1 \in Nat
  BY ConstAssumption DEF Region, RangeLast
<1>2. \A q \in Queues : RingPage[q] \div PagesPerChunk + 1 \in Nat
  BY ConstAssumption
<1>. QED  BY <1>1, <1>2, MaxOfType DEF LogSize

(* A function on 1 .. n is a sequence.                                     *)
LEMMA FunIsSeq ==
    ASSUME NEW S, NEW n \in Nat, NEW f \in [1 .. n -> S]
    PROVE  f \in Seq(S)
OBVIOUS

(* The memmove of vhost_region_del leaves a list of sections.              *)
LEMMA RemoveSecType ==
    ASSUME NEW seq \in Seq(Sections), NEW s
    PROVE  RemoveSec(seq, s) \in Seq(Sections)
<1> DEFINE i == CHOOSE j \in 1 .. Len(seq) :
                    /\ seq[j].gpa = s.gpa
                    /\ \A k \in 1 .. j - 1 : seq[k].gpa # s.gpa
           n == IF Len(seq) = 0 THEN 0 ELSE Len(seq) - 1
           g == [j \in 1 .. Len(seq) - 1 |-> IF j < i THEN seq[j] ELSE seq[j + 1]]
<1>1. Len(seq) \in Nat /\ seq \in [1 .. Len(seq) -> Sections]
  OBVIOUS
<1>2. n \in Nat /\ \A j : j \in 1 .. Len(seq) - 1 <=> j \in 1 .. n
  BY <1>1
<1>3. \A j \in 1 .. Len(seq) - 1 : j \in 1 .. Len(seq) /\ j + 1 \in 1 .. Len(seq)
  BY <1>1
<1>. HIDE DEF i
<1>4. g \in [1 .. n -> Sections]
  BY <1>1, <1>2, <1>3
<1>5. RemoveSec(seq, s) = g
  BY DEF RemoveSec, i
<1>. HIDE DEF g
<1>. QED  BY <1>2, <1>4, <1>5, FunIsSeq

(* cpu_physical_memory_map gives a host address or NULL.                   *)
LEMMA HvaOfPage ==
    ASSUME NEW t \in Sections, NEW p \in SecPages(t)
    PROVE  Hva(t) + p - t.gpa \in Nat
<1>1. /\ RamBase[t.mr] \in Nat /\ t.off \in Nat
      /\ t.gpa \in Nat /\ t.size \in Nat
  BY ConstAssumption
<1>2. p \in Nat /\ p >= t.gpa
  BY <1>1 DEF SecPages, RangeLast
<1>. QED  BY <1>1, <1>2 DEF Hva

LEMMA MapPageType ==
    ASSUME NEW view \in Seq(Sections), NEW p \in Nat
    PROVE  MapPage(view, p) \in Nat \cup {NoHva}
<1> DEFINE i == CHOOSE j \in 1 .. Len(view) : p \in SecPages(view[j])
<1>1. CASE \E j \in 1 .. Len(view) : p \in SecPages(view[j])
  <2>1. i \in 1 .. Len(view) /\ p \in SecPages(view[i])
    BY <1>1
  <2>. HIDE DEF i
  <2>2. view[i] \in Sections
    BY <2>1
  <2>3. Hva(view[i]) + p - view[i].gpa \in Nat
    BY <2>1, <2>2, HvaOfPage
  <2>. QED  BY <1>1, <2>3 DEF MapPage, i
<1>2. CASE ~ \E j \in 1 .. Len(view) : p \in SecPages(view[j])
  BY <1>2 DEF MapPage
<1>. QED  BY <1>1, <1>2
-----------------------------------------------------------------------------
(* The harvest of the resize and of stop: what it reports is reported     *)
(* against a section of the list, and what it frees is typed.              *)
ReportT == [page : Pages, sec : Sections, off : Nat]
DropT   == [page : Pages, mapped : BOOLEAN, logging : BOOLEAN]

LEMMA ReportsType ==
    ASSUME NEW g \in SUBSET Pages, NEW h \in Sections
    PROVE  Reports(g, h) \subseteq ReportT
<1>1. h.off \in Nat /\ PagesPerChunk \in Nat \ {0} /\ AddrTop \in Nat
  BY ConstAssumption
<1>2. \A x \in g : h.off + (x % PagesPerChunk) \in Nat
  BY <1>1 DEF Pages
<1>. QED  BY <1>2 DEF Reports, ReportT

LEMMA DropsType ==
    ASSUME NEW b \in SUBSET Pages, NEW m, NEW logging \in BOOLEAN
    PROVE  Drops(b, m, logging) \subseteq DropT
<1>1. \A p \in b :
        [page |-> p, mapped |-> p \in MemPages(m), logging |-> logging] \in DropT
  BY DEF DropT
<1>. QED  BY <1>1, Zenon DEF Drops

LEMMA SyncAllOut ==
    ASSUME NEW bits \in SUBSET Pages, NEW m, NEW view \in Seq(Sections), NEW last,
           NEW logging \in BOOLEAN
    PROVE  LET got == SyncAll(bits, m, view, last)
           IN  /\ (IF got = {} THEN {} ELSE Reports(got, Head(view))) \subseteq ReportT
               /\ Drops(bits \ got, m, logging) \subseteq DropT
<1> DEFINE got == SyncAll(bits, m, view, last)
<1>1. got \subseteq bits
  BY DEF SyncAll, Harvested
<1>2. got # {} => Head(view) \in Sections
  <2>1. got # {} => view # << >>
    BY DEF SyncAll
  <2>. QED  BY <2>1
<1>3. Drops(bits \ got, m, logging) \subseteq DropT
  BY DropsType
<1>. QED  BY <1>1, <1>2, <1>3, ReportsType

(* vhost_dev_log_resize leaves a typed log, report and drop.               *)
LEMMA LogResizeType ==
    ASSUME TypeOK, NEW n \in Nat, NEW m, NEW view \in Seq(Sections),
           LogResize(n, m, view)
    PROVE  /\ log' \in [size : Nat, bits : SUBSET Pages]
           /\ kbase' \in BOOLEAN
           /\ reported' \subseteq ReportT
           /\ dropped' \subseteq DropT
<1>1. log.bits \in SUBSET Pages /\ log_enabled \in BOOLEAN
  BY DEF TypeOK
<1>. QED  BY <1>1, SyncAllOut DEF LogResize, ReportT, DropT

(* A section's host address is a natural number.                           *)
LEMMA SectionType ==
    ASSUME NEW t \in Sections
    PROVE  /\ t.gpa \in Nat /\ t.size \in Nat \ {0} /\ t.off \in Nat
           /\ Hva(t) \in Nat
<1>1. t.gpa \in Nat /\ t.size \in Nat \ {0} /\ t.off \in Nat /\ RamBase[t.mr] \in Nat
  BY ConstAssumption
<1>. QED  BY <1>1 DEF Hva

(* vhost_set_memory up to SET_MEM_TABLE leaves its part of the state typed. *)
LEMMA SetMemoryType ==
    ASSUME TypeOK, NEW s \in Sections, NEW add \in BOOLEAN, SetMemory(s, add)
    PROVE  /\ secs' \in Seq(Sections)
           /\ mem' \subseteq Region
           /\ log' \in [size : Nat, bits : SUBSET Pages]
           /\ kbase' \in BOOLEAN
           /\ pc' \in PCs
           /\ delsec' \in Sections \cup {NoSec}
           /\ reported' \subseteq ReportT
           /\ dropped' \subseteq DropT
<1> DEFINE view  == IF add THEN Append(secs, s) ELSE secs
           after == IF add THEN view ELSE RemoveSec(secs, s)
           doAdd == add /\ s.mr \notin Logging
           mem1  == IF doAdd
                    THEN Assign(Unassign(mem, s.gpa, s.size), s.gpa, s.size, Hva(s))
                    ELSE Unassign(Unassign(mem, s.gpa, s.size), s.gpa, s.size)
<1>1. view \in Seq(Sections) /\ after \in Seq(Sections)
  BY RemoveSecType DEF TypeOK
<1>2. mem1 \subseteq Region
  <2>1. s.gpa \in Nat /\ s.size \in Nat \ {0} /\ Hva(s) \in Nat
    BY SectionType
  <2>2. Unassign(mem, s.gpa, s.size) \in SUBSET Region
    BY <2>1, UnassignType DEF TypeOK
  <2>. QED  BY <2>1, <2>2, UnassignType, AssignType
<1>3. LogSize(mem1) + LogSlack \in Nat
  BY <1>2, LogSizeType, ConstAssumption
<1>. HIDE DEF view, after, doAdd, mem1
<1>4. Quiet => reported' \subseteq ReportT /\ dropped' \subseteq DropT
  BY DEF Quiet
<1>5. log \in [size : Nat, bits : SUBSET Pages] /\ kbase \in BOOLEAN
      /\ delsec \in Sections \cup {NoSec} /\ mem \subseteq Region
      /\ secs \in Seq(Sections)
  BY DEF TypeOK
<1>6. /\ secs' \in {secs, view, after}
      /\ mem' \in {mem, mem1}
      /\ pc' \in {pc, "aborted", "sm_push"}
      /\ delsec' \in {delsec, NoSec, s}
      /\ \/ Quiet /\ UNCHANGED <<log, kbase>>
         \/ LogResize(LogSize(mem1) + LogSlack, mem1, view)
  BY DEF SetMemory, view, after, doAdd, mem1
<1>7. pc \in PCs
  BY DEF TypeOK
<1>8. /\ log' \in [size : Nat, bits : SUBSET Pages]
      /\ kbase' \in BOOLEAN
      /\ reported' \subseteq ReportT
      /\ dropped' \subseteq DropT
  <2>1. CASE Quiet /\ UNCHANGED <<log, kbase>>
    BY <1>4, <1>5, <2>1
  <2>2. CASE LogResize(LogSize(mem1) + LogSlack, mem1, view)
    BY <1>1, <1>3, <2>2, LogResizeType
  <2>. QED  BY <1>6, <2>1, <2>2
<1>. QED  BY <1>1, <1>2, <1>5, <1>6, <1>7, <1>8 DEF PCs

-----------------------------------------------------------------------------
(***************************************************************************)
(* Type correctness: every state the device and the kernel worker reach   *)
(* is well typed; in particular every region vhost_dev_unassign_memory    *)
(* and vhost_dev_assign_memory produce has a nonzero size (their          *)
(* assert(reg->memory_size)), and the dirty-bit harvest only ever reports  *)
(* against a section of mem_sections.                                      *)
(***************************************************************************)
LEMMA InitType == Init => TypeOK
<1>1. NQ \in Nat \ {0} /\ NoHva \in Nat \cup {NoHva}
  BY ConstAssumption
<1> SUFFICES ASSUME Init PROVE TypeOK
  OBVIOUS
<1>2. secs \in Seq(Sections)
  BY DEF Init
<1>3. kvlog \in [Queues -> BOOLEAN] /\ vring \in [Queues -> Nat \cup {NoHva}]
  BY <1>1 DEF Init
<1>4. idx \in Queues
  BY <1>1 DEF Init, Queues
<1>5. log \in [size : Nat, bits : SUBSET Pages]
  BY DEF Init, NullLog
<1>. QED  BY <1>2, <1>3, <1>4, <1>5 DEF Init, TypeOK, PCs

(* TypeOK split into its Boolean-valued flags and the rest, which the two  *)
(* backends handle best apart.                                             *)
TypeBool ==
    /\ started \in BOOLEAN
    /\ log_enabled \in BOOLEAN
    /\ kbase \in BOOLEAN
    /\ kfeat \in BOOLEAN
    /\ kvlog \in [Queues -> BOOLEAN]

TypeRest ==
    /\ secs \in Seq(Sections)
    /\ mem \subseteq Region
    /\ kmem \subseteq Region
    /\ log \in [size : Nat, bits : SUBSET Pages]
    /\ vring \in [Queues -> Nat \cup {NoHva}]
    /\ pc \in PCs
    /\ idx \in Queues
    /\ delsec \in Sections \cup {NoSec}
    /\ reported \subseteq ReportT
    /\ dropped \subseteq DropT

LEMMA TypeSplit == TypeOK <=> TypeBool /\ TypeRest
BY Zenon DEF TypeOK, TypeBool, TypeRest, ReportT, DropT

LEMMA NextType == TypeOK /\ [Next]_vars => TypeOK'
<1> SUFFICES ASSUME TypeBool, TypeRest, [Next]_vars PROVE TypeBool' /\ TypeRest'
  BY Zenon DEF TypeOK, TypeBool, TypeRest, ReportT, DropT
<1>0. /\ NQ \in Nat \ {0} /\ PagesPerChunk \in Nat \ {0} /\ LogSlack \in Nat
      /\ RingPage \in [Queues -> 0 .. AddrTop] /\ AddrTop \in Nat
  BY ConstAssumption
<1>1. ASSUME NEW s \in Sections, NEW add \in BOOLEAN, SetMemory(s, add),
             UNCHANGED <<kmem, started, log_enabled, kfeat, kvlog, vring, idx>>
      PROVE  TypeBool' /\ TypeRest'
  <2>1. TypeBool'
    <3>1. kbase' \in BOOLEAN
      BY <1>1, SetMemoryType, TypeSplit
    <3>. QED  BY <1>1, <3>1, Zenon DEF TypeBool
  <2>2. TypeRest'
    BY <1>1, SetMemoryType, TypeSplit DEF TypeRest
  <2>. QED  BY <2>1, <2>2
<1>2. ASSUME NEW s \in Sections, LogSync(s) PROVE TypeBool' /\ TypeRest'
  <2>1. TypeBool'
    BY <1>2, Zenon DEF LogSync, TypeBool
  <2>2. Harvested(log.bits, mem, s.gpa, s.gpa + s.size) \subseteq Pages
    BY DEF Harvested, TypeRest
  <2>3. TypeRest'
    BY <1>2, <2>2, ReportsType DEF LogSync, TypeRest, DropT
  <2>. QED  BY <2>1, <2>3
<1>3. CASE SetMemTable
  <2>1. TypeBool'
    BY <1>3, Zenon DEF SetMemTable, TypeBool
  <2>2. TypeRest'
    BY <1>3, RemoveSecType DEF SetMemTable, FinishSetMemory, Quiet, PCs, TypeRest
  <2>. QED  BY <2>1, <2>2
<1>4. CASE ShrinkLog
  <2>1. kbase' \in BOOLEAN
    BY <1>4, LogSizeType, LogResizeType, TypeSplit DEF ShrinkLog, TypeRest
  <2>2. TypeBool'
    BY <1>4, <2>1, Zenon DEF ShrinkLog, TypeBool
  <2>3. TypeRest'
    BY <1>4, <1>0, RemoveSecType, LogSizeType, LogResizeType, TypeSplit
       DEF ShrinkLog, FinishSetMemory, PCs, TypeRest
  <2>. QED  BY <2>2, <2>3
<1>5. ASSUME NEW e \in BOOLEAN, MigrationLogStopped(e) PROVE TypeBool' /\ TypeRest'
  <2>1. TypeBool'
    BY <1>5, Zenon DEF MigrationLogStopped, TypeBool
  <2>2. TypeRest'
    BY <1>5 DEF MigrationLogStopped, Quiet, TypeRest, ReportT, DropT
  <2>. QED  BY <2>1, <2>2
<1>6. CASE MigrationLogEnable
  <2>1. kbase' \in BOOLEAN
    BY <1>6, LogSizeType, LogResizeType, TypeSplit DEF MigrationLogEnable, TypeRest
  <2>2. TypeBool'
    BY <1>6, <2>1, Zenon DEF MigrationLogEnable, TypeBool
  <2>3. TypeRest'
    BY <1>6, LogSizeType, LogResizeType, TypeSplit DEF MigrationLogEnable, PCs, TypeRest
  <2>. QED  BY <2>2, <2>3
<1>7. CASE MigrationLogDisable
  <2>1. TypeBool'
    BY <1>7, Zenon DEF MigrationLogDisable, TypeBool
  <2>2. TypeRest'
    BY <1>7, <1>0 DEF MigrationLogDisable, Quiet, PCs, Queues, TypeRest, ReportT, DropT
  <2>. QED  BY <2>1, <2>2
<1>8. CASE SetLogFeatures
  <2>1. TypeBool'
    BY <1>8, Zenon DEF SetLogFeatures, TypeBool
  <2>2. TypeRest'
    BY <1>8, <1>0 DEF SetLogFeatures, Quiet, PCs, Queues, TypeRest, ReportT, DropT
  <2>. QED  BY <2>1, <2>2
<1>9. CASE SetVringAddr
  <2>1. TypeBool'
    BY <1>9, Zenon DEF SetVringAddr, TypeBool
  <2>2. idx' \in Queues
    <3>1. idx' = (IF idx < NQ THEN idx + 1 ELSE idx) \/ idx' = idx
      BY <1>9, Zenon DEF SetVringAddr
    <3>. QED  BY <3>1, <1>0 DEF Queues, TypeRest
  <2>3. pc' \in PCs
    BY <1>9 DEF SetVringAddr, PCs
  <2>4. TypeRest'
    BY <1>9, <2>2, <2>3 DEF SetVringAddr, Quiet, TypeRest, ReportT, DropT
  <2>. QED  BY <2>1, <2>4
<1>10. CASE FreeLog
  <2>1. TypeBool'
    BY <1>10, Zenon DEF FreeLog, TypeBool
  <2>2. TypeRest'
    BY <1>10, DropsType DEF FreeLog, NullLog, PCs, TypeRest
  <2>. QED  BY <2>1, <2>2
<1>11. CASE StartDev
  <2>1. TypeBool'
    BY <1>11, Zenon DEF StartDev, TypeBool
  <2>2. ASSUME NEW q \in Queues PROVE MapPage(secs, RingPage[q]) \in Nat \cup {NoHva}
    <3>1. RingPage[q] \in Nat
      BY <1>0
    <3>. QED  BY <3>1, MapPageType DEF TypeRest
  <2>3. [q \in Queues |-> MapPage(secs, RingPage[q])] \in [Queues -> Nat \cup {NoHva}]
    BY <2>2
  <2>4. [size |-> LogSize(mem), bits |-> {}] \in [size : Nat, bits : SUBSET Pages]
    BY LogSizeType DEF TypeRest
  <2>5. TypeRest'
    BY <1>11, <2>3, <2>4 DEF StartDev, Quiet, TypeRest, ReportT, DropT
  <2>. QED  BY <2>1, <2>5
<1>12. CASE StopDev
  <2>1. TypeBool'
    BY <1>12, Zenon DEF StopDev, TypeBool
  <2>2. /\ (IF SyncAll(log.bits, mem, secs, AddrTop) = {} THEN {}
            ELSE Reports(SyncAll(log.bits, mem, secs, AddrTop), Head(secs)))
              \subseteq ReportT
        /\ Drops(log.bits \ SyncAll(log.bits, mem, secs, AddrTop), mem, log_enabled)
              \subseteq DropT
    BY SyncAllOut DEF TypeRest, TypeBool
  <2>3. log' \in [size : Nat, bits : SUBSET Pages] /\ pc' \in PCs
    <3>1. (log' = NullLog \/ log' = log) /\ (pc' = pc \/ pc' = "aborted")
      BY <1>12, Zenon DEF StopDev
    <3>. QED  BY <3>1 DEF NullLog, PCs, TypeRest
  <2>4. reported' \subseteq ReportT /\ dropped' \subseteq DropT
    BY <1>12, <2>2 DEF StopDev, Quiet
  <2>5. TypeRest'
    BY <1>12, <2>3, <2>4 DEF StopDev, TypeRest
  <2>. QED  BY <2>1, <2>5
<1>13. ASSUME NEW p \in Pages, KernelWrite(p) PROVE TypeBool' /\ TypeRest'
  <2>1. TypeBool'
    BY <1>13, Zenon DEF KernelWrite, TypeBool
  <2>2. TypeRest'
    BY <1>13 DEF KernelWrite, Quiet, TypeRest, ReportT, DropT
  <2>. QED  BY <2>1, <2>2
<1>14. CASE Aborted \/ UNCHANGED vars
  <2>1. TypeBool'
    BY <1>14, Zenon DEF Aborted, vars, TypeBool
  <2>2. TypeRest'
    BY <1>14 DEF Aborted, vars, TypeRest
  <2>. QED  BY <2>1, <2>2
<1>. QED  BY <1>1, <1>2, <1>3, <1>4, <1>5, <1>6, <1>7, <1>8, <1>9, <1>10,
             <1>11, <1>12, <1>13, <1>14 DEF Next, RegionAdd, RegionDel

THEOREM TypeCorrect == Spec => []TypeOK
BY InitType, NextType, PTL DEF Spec
=============================================================================
