-------------------------- MODULE VhostDevLogProofs --------------------------
(***************************************************************************)
(* Proofs about the dirty log of hw/vhost.c: the kernel only ever logs    *)
(* inside the log its base points at (KernelLogInBounds), and no bit of a *)
(* page still in the region table is freed unharvested while logging goes *)
(* on (NoMappedBitDropped).                                                *)
(*                                                                         *)
(* vhost_get_log_size is a maximum (MaxOf), so both rest on MaxOf bounding *)
(* every element.  The table's pages are bounded (every region lies in a   *)
(* section, below AddrTop), so the set is a bounded set of naturals, whose *)
(* maximum exists by the well-foundedness of < on Nat (WFMin).            *)
(***************************************************************************)
EXTENDS VhostDevSyncProofs, VhostDevMapProofs, WellFoundedInduction

(* A nonempty set of naturals below N has a greatest element, and MaxOf    *)
(* picks it.                                                               *)
LEMMA MaxOfBound ==
    ASSUME NEW S \in SUBSET Nat, S # {}, NEW N \in Nat, \A x \in S : x <= N
    PROVE  MaxOf(S) \in S /\ \A x \in S : x <= MaxOf(S)
<1> DEFINE T == {N - x : x \in S}
<1>1. T \subseteq Nat /\ T # {}
  <2>1. \A x \in S : N - x \in Nat
    OBVIOUS
  <2>. QED  BY <2>1
<1>2. PICK t \in T : \A u \in T : ~ (<<u, t>> \in OpToRel(<, Nat))
  BY <1>1, NatLessThanWellFounded, WFMin
<1>3. \A u \in T : ~ (u < t)
  <2> SUFFICES ASSUME NEW u \in T, u < t PROVE FALSE
    OBVIOUS
  <2>1. <<u, t>> \in Nat \X Nat
    BY <1>1
  <2>2. <<u, t>> \in OpToRel(<, Nat)
    BY <2>1, Zenon DEF OpToRel
  <2>. QED  BY <1>2, <2>2
<1>4. \E x \in S : \A y \in S : y <= x
  <2>1. PICK x \in S : t = N - x
    OBVIOUS
  <2>2. \A y \in S : N - y \in T
    OBVIOUS
  <2>3. \A y \in S : ~ (N - y < N - x)
    BY <1>3, <2>1, <2>2
  <2>. QED  BY <2>3
<1>. QED  BY <1>4 DEF MaxOf
(* Every region of the table lies below the top of guest memory.           *)
TableBounded(m) == \A r \in m : RangeLast(r.gpa, r.size) <= AddrTop

(* Integer division by the pages per log word is monotonic and shrinks.   *)
LEMMA DivMono ==
    ASSUME NEW a \in Nat, NEW b \in Nat, a <= b
    PROVE  a \div PagesPerChunk <= b \div PagesPerChunk
           /\ a \div PagesPerChunk <= a
           /\ a \div PagesPerChunk \in Nat
<1>1. PagesPerChunk \in Nat \ {0}
  BY ConstAssumption
<1>. QED  BY <1>1

(* The word index of a page is a natural no larger than the page.         *)
LEMMA DivLe ==
    ASSUME NEW a \in Nat
    PROVE  a \div PagesPerChunk <= a /\ a \div PagesPerChunk \in Nat
BY DivMono

(* vhost_get_log_size is past the word of every page of a bounded table   *)
(* and of every used ring.                                                 *)
LEMMA LogSizeBound ==
    ASSUME NEW m \in SUBSET Region, TableBounded(m)
    PROVE  /\ \A r \in m : \A p \in RegionPages(r) : p \div PagesPerChunk < LogSize(m)
           /\ \A q \in Queues : RingPage[q] \div PagesPerChunk < LogSize(m)
<1> DEFINE S == {0} \cup {RangeLast(r.gpa, r.size) \div PagesPerChunk + 1 : r \in m}
                    \cup {RingPage[q] \div PagesPerChunk + 1 : q \in Queues}
<1>0. /\ AddrTop \in Nat /\ AddrTop + 1 \in Nat /\ PagesPerChunk \in Nat \ {0}
      /\ RingPage \in [Queues -> 0 .. AddrTop]
      /\ \A r \in m : r.gpa \in Nat /\ r.size \in Nat \ {0}
  BY ConstAssumption DEF Region
<1>1. \A r \in m : RangeLast(r.gpa, r.size) \in Nat
      /\ RangeLast(r.gpa, r.size) \div PagesPerChunk <= AddrTop
      /\ RangeLast(r.gpa, r.size) \div PagesPerChunk \in Nat
  <2> SUFFICES ASSUME NEW r \in m
               PROVE  /\ RangeLast(r.gpa, r.size) \in Nat
                      /\ RangeLast(r.gpa, r.size) \div PagesPerChunk <= AddrTop
                      /\ RangeLast(r.gpa, r.size) \div PagesPerChunk \in Nat
    OBVIOUS
  <2>1. RangeLast(r.gpa, r.size) \in Nat /\ RangeLast(r.gpa, r.size) <= AddrTop
    BY <1>0 DEF TableBounded, RangeLast
  <2>2. RangeLast(r.gpa, r.size) \div PagesPerChunk <= RangeLast(r.gpa, r.size)
        /\ RangeLast(r.gpa, r.size) \div PagesPerChunk \in Nat
    BY <2>1, DivLe
  <2>. QED  BY <1>0, <2>1, <2>2
<1>2. \A q \in Queues : RingPage[q] \div PagesPerChunk <= AddrTop
                        /\ RingPage[q] \div PagesPerChunk \in Nat
  BY <1>0
<1>3. S \subseteq Nat /\ S # {} /\ \A x \in S : x <= AddrTop + 1
  BY <1>0, <1>1, <1>2
<1>4. \A x \in S : x <= LogSize(m)
  <2>1. \A x \in S : x <= MaxOf(S)
    BY <1>0, <1>3, MaxOfBound
  <2>. QED  BY <2>1 DEF LogSize
<1>5. ASSUME NEW r \in m, NEW p \in RegionPages(r)
      PROVE  p \div PagesPerChunk < LogSize(m)
  <2>1. p \in Nat /\ p <= RangeLast(r.gpa, r.size)
    BY <1>0 DEF RegionPages
  <2>2. p \div PagesPerChunk <= RangeLast(r.gpa, r.size) \div PagesPerChunk
    BY <1>1, <2>1, DivMono
  <2>3. RangeLast(r.gpa, r.size) \div PagesPerChunk + 1 <= LogSize(m)
    BY <1>4
  <2>4. p \div PagesPerChunk \in Nat /\ LogSize(m) \in Nat
    BY <2>1, DivMono, LogSizeType
  <2>. QED  BY <1>1, <2>2, <2>3, <2>4
<1>6. ASSUME NEW q \in Queues PROVE RingPage[q] \div PagesPerChunk < LogSize(m)
  <2>1. RingPage[q] \div PagesPerChunk + 1 <= LogSize(m)
    BY <1>4
  <2>. QED  BY <1>2, <2>1, LogSizeType
<1>. QED  BY <1>5, <1>6
(* A page in a word below n lies below the last page of word n - 1.       *)
LEMMA WordBound ==
    ASSUME NEW p \in Nat, NEW n \in Nat, p \div PagesPerChunk < n
    PROVE  p <= n * PagesPerChunk - 1
<1> DEFINE k == PagesPerChunk
           q == p \div PagesPerChunk
<1>1. k \in Nat \ {0}
  BY ConstAssumption
<1>2. q \in Nat /\ q + 1 <= n
  BY <1>1
<1>3. p < k * (q + 1)
  BY <1>1
<1>4. k * (q + 1) <= k * n
  BY <1>1, <1>2
<1>. QED  BY <1>1, <1>3, <1>4

(***************************************************************************)
(* vhost_sync_dirty_bitmap from 0 to mlast harvests every set bit of a    *)
(* page in the table, when every set bit lies at or below mlast: the      *)
(* region's own range clipped to mlast holds the page's word.             *)
(***************************************************************************)
LEMMA HarvestMapped ==
    ASSUME NEW bits \in SUBSET Nat, NEW m \in SUBSET Region, NEW mlast \in Nat,
           \A p \in bits : p <= mlast
    PROVE  \A p \in bits : p \in MemPages(m) => p \in Harvested(bits, m, 0, mlast)
<1> SUFFICES ASSUME NEW p \in bits, NEW r \in m, p \in RegionPages(r)
             PROVE  p \in Harvested(bits, m, 0, mlast)
  BY DEF MemPages
<1> DEFINE last  == RangeLast(r.gpa, r.size)
           start == IF 0 > r.gpa THEN 0 ELSE r.gpa
           end   == IF mlast < last THEN mlast ELSE last
<1>1. r.gpa \in Nat /\ last \in Nat /\ r.gpa <= p /\ p <= last /\ p \in Nat
  BY DEF Region, RegionPages, RangeLast
<1>2. start = r.gpa /\ end \in Nat /\ r.gpa <= p /\ p <= end /\ start <= end
  BY <1>1
<1>3. start \div PagesPerChunk <= p \div PagesPerChunk
      /\ p \div PagesPerChunk <= end \div PagesPerChunk
  BY <1>1, <1>2, DivMono
<1>4. <<r.gpa, last>> \in SyncRanges(m)
  BY DEF SyncRanges
<1>. QED  BY <1>2, <1>3, <1>4 DEF Harvested

(* Every bit set in dev->log lies in a word of the log.                    *)
BitsInLog == \A p \in log.bits : p \div PagesPerChunk < log.size

(* A page the table maps lies in a section of mem_sections.                *)
LEMMA MappedInSection ==
    ASSUME TypeOK, MRest, NEW r \in mem, NEW p \in RegionPages(r)
    PROVE  \E t \in SecSet(secs) : t \in Sections /\ p \in SecPages(t)
<1>1. <<p, r.uaddr + p - r.gpa>> \in MemMap(mem)
  BY DEF MemMap
<1>2. PICK t \in RamPresent : <<p, r.uaddr + p - r.gpa>> \in SMap(t)
  BY <1>1 DEF MRest, TableMatches
<1>3. p \in SecPages(t)
  BY <1>2 DEF SMap
<1>4. t \in SecSet(secs)
  BY DEF RamPresent, Present
<1>5. \A i \in 1 .. Len(secs) : secs[i] \in Sections
  BY DEF TypeOK
<1>. QED  BY <1>3, <1>4, <1>5 DEF SecSet

(* So the table lies below AddrTop, and maps nothing without a section.    *)
LEMMA MemBounded ==
    ASSUME TypeOK, MRest
    PROVE  /\ TableBounded(mem)
           /\ secs = <<>> => MemPages(mem) = {}
<1>1. ASSUME NEW r \in mem PROVE RangeLast(r.gpa, r.size) <= AddrTop
  <2>1. r.gpa \in Nat /\ r.size \in Nat \ {0}
    BY DEF TypeOK, Region
  <2>2. RangeLast(r.gpa, r.size) \in RegionPages(r)
    BY <2>1 DEF RegionPages, RangeLast
  <2>3. PICK t \in SecSet(secs) : t \in Sections /\ RangeLast(r.gpa, r.size) \in SecPages(t)
    BY <2>2, MappedInSection
  <2>4. RangeLast(t.gpa, t.size) <= AddrTop /\ t.gpa \in Nat /\ t.size \in Nat
    <3>1. t \in [gpa : Nat, size : Nat \ {0}, mr : MRs, off : Nat]
      BY <2>3, ConstAssumption
    <3>2. RangeLast(t.gpa, t.size) <= AddrTop
      BY <2>3, ConstAssumption
    <3>. QED  BY <3>1, <3>2
  <2>5. RangeLast(r.gpa, r.size) \in t.gpa .. RangeLast(t.gpa, t.size)
    BY <2>3 DEF SecPages
  <2>. QED  BY <2>1, <2>4, <2>5, ConstAssumption DEF RangeLast
<1>2. ASSUME secs = <<>>, NEW r \in mem, NEW p \in RegionPages(r) PROVE FALSE
  <2>1. SecSet(secs) = {}
    BY <1>2 DEF SecSet
  <2>. QED  BY <1>2, <2>1, MappedInSection
<1>. QED  BY <1>1, <1>2 DEF TableBounded, MemPages

(* The range a resize syncs ends at or after every set bit.                *)
LEMMA OldLogLast ==
    ASSUME TypeOK, BitsInLog
    PROVE  LET oldLast == IF log.size = 0 THEN AddrTop ELSE log.size * PagesPerChunk - 1
           IN  oldLast \in Nat /\ \A p \in log.bits : p <= oldLast
<1>0. log.size \in Nat /\ log.bits \subseteq 0 .. AddrTop /\ AddrTop \in Nat
      /\ PagesPerChunk \in Nat \ {0}
  BY ConstAssumption DEF TypeOK, Pages
<1>1. CASE log.size = 0
  BY <1>0, <1>1
<1>2. CASE log.size # 0
  <2>1. log.size * PagesPerChunk - 1 \in Nat
    BY <1>0, <1>2
  <2>2. \A p \in log.bits : p <= log.size * PagesPerChunk - 1
    BY <1>0, WordBound DEF BitsInLog
  <2>. QED  BY <1>2, <2>1, <2>2
<1>. QED  BY <1>1, <1>2

(***************************************************************************)
(* A sync of [0, mlast], with mlast past every set bit, over a table and  *)
(* a section list that is empty only when the table maps nothing, frees   *)
(* no bit of a mapped page unharvested while logging (a stopped device    *)
(* has nothing to harvest and is never resized).                          *)
(***************************************************************************)
LEMMA SyncNoDrop ==
    ASSUME TypeOK, NEW m \in SUBSET Region, NEW view, NEW mlast \in Nat,
           \A p \in log.bits : p <= mlast,
           log_enabled => started /\ (view # <<>> \/ MemPages(m) = {})
    PROVE  \A d \in Drops(log.bits \ SyncAll(log.bits, m, view, mlast), m, log_enabled) :
               d.logging => ~ d.mapped
<1> SUFFICES ASSUME NEW d \in Drops(log.bits \ SyncAll(log.bits, m, view, mlast), m, log_enabled),
                    d.logging
             PROVE  ~ d.mapped
  OBVIOUS
<1>0. PICK p \in log.bits \ SyncAll(log.bits, m, view, mlast) :
          d = [page |-> p, mapped |-> p \in MemPages(m), logging |-> log_enabled]
  BY DEF Drops
<1> log_enabled
  BY <1>0
<1> SUFFICES ASSUME p \in MemPages(m) PROVE FALSE
  BY <1>0
<1>1. log.bits \subseteq Nat
  BY DEF TypeOK, Pages
<1>2. started /\ view # <<>>
  OBVIOUS
<1>3. SyncAll(log.bits, m, view, mlast) = Harvested(log.bits, m, 0, mlast)
  BY <1>2 DEF SyncAll
<1>4. p \in Harvested(log.bits, m, 0, mlast)
  BY <1>1, HarvestMapped
<1>. QED  BY <1>3, <1>4

-----------------------------------------------------------------------------

(***************************************************************************)
(* What the log proofs add to KernelView and the table invariant: the     *)
(* table the kernel holds is bounded; while vhost_set_memory waits to push *)
(* the new table the log still covers the one the kernel has; while       *)
(* vhost_dev_set_log disables, the log base still covers the table; every *)
(* set bit lies in the log; and no step has dropped a mapped bit.          *)
(***************************************************************************)
LogInv ==
    /\ TableBounded(kmem)
    /\ started /\ pc = "sm_push" /\ log_enabled => LogSize(kmem) <= log.size
    /\ pc \in {"ld_vring", "ld_free"} => kbase /\ LogSize(mem) <= log.size
    /\ BitsInLog
    /\ NoMappedBitDropped

LInv == IInv /\ MRest /\ LogInv

(***************************************************************************)
(* Whenever the kernel of a running device has a logging flag set, its    *)
(* log base is set and covers the table it last received: the clauses of  *)
(* KernelView per handler step, and the two of LogInv for the steps       *)
(* between the pushes of vhost_set_memory and of vhost_migration_log.     *)
(***************************************************************************)
LEMMA ViewCovered ==
    ASSUME TypeOK, KernelView, LogInv, started, pc # "aborted",
           kfeat \/ \E q \in Queues : kvlog[q]
    PROVE  kbase /\ LogSize(kmem) <= log.size
<1>0. log_enabled \in BOOLEAN /\ kfeat \in BOOLEAN /\ kbase \in BOOLEAN
      /\ kvlog \in [Queues -> BOOLEAN] /\ pc \in PCs
  BY DEF TypeOK
<1>1. CASE pc \in {"idle", "sm_shrink"}
  <2>1. log_enabled
    BY <1>0, <1>1, Zenon DEF KernelView
  <2>. QED  BY <2>1, <1>1 DEF KernelView
<1>2. CASE pc = "sm_push"
  <2>1. log_enabled
    BY <1>0, <1>2, Zenon DEF KernelView
  <2>2. kbase
    BY <2>1, <1>2 DEF KernelView
  <2>. QED  BY <2>1, <2>2, <1>2 DEF LogInv
<1>3. CASE pc \in {"le_features", "le_vring"}
  BY <1>3 DEF KernelView
<1>4. CASE pc \in {"ld_vring", "ld_free"}
  BY <1>4 DEF KernelView, LogInv
<1>. QED  BY <1>0, <1>1, <1>2, <1>3, <1>4 DEF PCs

(* Model-checked as a property of VhostDev, and implied by LInv: every page *)
(* the running kernel may log lies inside the log its base points at.      *)
LEMMA LInvBounds ==
    ASSUME TypeOK, KernelView, LogInv
    PROVE  KernelLogInBounds
<1> SUFFICES ASSUME started, pc # "aborted", Loggable # {}
             PROVE  kbase /\ \A p \in Loggable : p \div PagesPerChunk < log.size
  BY DEF KernelLogInBounds
<1>1. kfeat \/ \E q \in Queues : kvlog[q]
  BY DEF Loggable
<1>2. kbase /\ LogSize(kmem) <= log.size
  BY <1>1, ViewCovered
<1>3. kmem \in SUBSET Region /\ TableBounded(kmem)
  BY DEF TypeOK, LogInv
<1>4. /\ \A r \in kmem : \A p \in RegionPages(r) : p \div PagesPerChunk < LogSize(kmem)
      /\ \A q \in Queues : RingPage[q] \div PagesPerChunk < LogSize(kmem)
  BY <1>3, LogSizeBound
<1>5. LogSize(kmem) \in Nat /\ log.size \in Nat
  BY <1>3, LogSizeType DEF TypeOK
<1>6. \A p \in Loggable : p \div PagesPerChunk < LogSize(kmem)
  BY <1>4 DEF Loggable
<1>7. \A p \in Loggable : p \div PagesPerChunk \in Int
  <2>1. Loggable \subseteq Nat
    <3>1. \A r \in kmem : RegionPages(r) \subseteq Nat
      BY <1>3 DEF Region, RegionPages, RangeLast
    <3>2. \A q \in Queues : RingPage[q] \in Nat
      BY ConstAssumption
    <3>. QED  BY <3>1, <3>2 DEF Loggable
  <2>. QED  BY <2>1, ConstAssumption
<1>. QED  BY <1>2, <1>5, <1>6, <1>7
-----------------------------------------------------------------------------
(***************************************************************************)
(* A step that leaves the kernel's table, the region table, the log base  *)
(* and the log's size alone, frees no bit, keeps every set bit in the     *)
(* log, and enters neither the push of vhost_set_memory nor the           *)
(* VHOST_SET_VRING_ADDR loop of disabling keeps LogInv.                    *)
(***************************************************************************)
LEMMA LogInvFrame ==
    ASSUME LogInv,
           kmem' = kmem, mem' = mem, kbase' = kbase, log'.size = log.size,
           BitsInLog', dropped' = {},
           started' /\ pc' = "sm_push" /\ log_enabled'
               => started /\ pc = "sm_push" /\ log_enabled,
           pc' \in {"ld_vring", "ld_free"} => pc \in {"ld_vring", "ld_free"}
    PROVE  LogInv'
BY Zenon DEF LogInv, TableBounded, NoMappedBitDropped

(* vhost_log_sync only clears harvested bits.                              *)
LEMMA LogSyncLogInv ==
    ASSUME TypeOK, LogInv, NEW s \in Sections, LogSync(s)
    PROVE  LogInv'
<1>1. /\ log' = [log EXCEPT !.bits = @ \ Harvested(log.bits, mem, s.gpa, s.gpa + s.size)]
      /\ dropped' = {}
      /\ UNCHANGED <<mem, kmem, started, log_enabled, kbase, pc>>
  BY Zenon DEF LogSync
<1>2. log'.size = log.size /\ log'.bits \subseteq log.bits
  BY <1>1 DEF TypeOK
<1>3. BitsInLog'
  BY <1>2 DEF LogInv, BitsInLog
<1>. QED  BY <1>1, <1>2, <1>3, LogInvFrame

(* The kernel's write sets the bit of a page in its table or of a used    *)
(* ring, which lies in the log (KernelLogInBounds).                        *)
LEMMA KernelWriteLogInv ==
    ASSUME TypeOK, KernelView, LogInv, NEW p \in Pages, KernelWrite(p)
    PROVE  LogInv'
<1>1. /\ log' = [log EXCEPT !.bits = @ \cup {p}]
      /\ dropped' = {}
      /\ started /\ pc # "aborted" /\ p \in Loggable
      /\ UNCHANGED <<mem, kmem, started, log_enabled, kbase, pc>>
  BY Zenon DEF KernelWrite, Quiet
<1>2. log'.size = log.size /\ log'.bits = log.bits \cup {p}
  BY <1>1 DEF TypeOK
<1>3. p \div PagesPerChunk < log.size
  BY <1>1, LInvBounds DEF KernelLogInBounds
<1>4. BitsInLog'
  BY <1>2, <1>3 DEF LogInv, BitsInLog
<1>. QED  BY <1>1, <1>2, <1>4, LogInvFrame

(* The switch on a stopped device only records log_enabled.                *)
LEMMA MigrationLogStoppedLogInv ==
    ASSUME LogInv, NEW e \in BOOLEAN, MigrationLogStopped(e)
    PROVE  LogInv'
<1>1. /\ dropped' = {} /\ pc = "idle" /\ pc' = "idle"
      /\ UNCHANGED <<mem, kmem, log, kbase>>
  BY Zenon DEF MigrationLogStopped, Quiet
<1>. QED  BY <1>1, LogInvFrame DEF LogInv, BitsInLog

(* VHOST_SET_FEATURES of enabling.                                        *)
LEMMA SetLogFeaturesLogInv ==
    ASSUME LogInv, SetLogFeatures
    PROVE  LogInv'
<1>1. /\ dropped' = {} /\ pc = "le_features" /\ pc' \in {"le_vring", "aborted"}
      /\ UNCHANGED <<mem, kmem, log, kbase>>
  BY Zenon DEF SetLogFeatures, Quiet
<1>. QED  BY <1>1, LogInvFrame DEF LogInv, BitsInLog

(* One VHOST_SET_VRING_ADDR of the loop: disabling stays in its loop or    *)
(* goes on to the free, enabling ends idle.                               *)
LEMMA SetVringAddrLogInv ==
    ASSUME TypeOK, LogInv, SetVringAddr
    PROVE  LogInv'
<1>1. /\ dropped' = {} /\ pc \in {"le_vring", "ld_vring"}
      /\ UNCHANGED <<mem, kmem, log, kbase>>
      /\ pc' \in {pc, "idle", "ld_free", "aborted"}
      /\ pc' = "ld_free" => pc = "ld_vring"
  BY DEF SetVringAddr, Quiet
<1>. QED  BY <1>1, LogInvFrame DEF LogInv, BitsInLog

(* Disabling on a running device keeps the log and its base: the kernel   *)
(* view of idle with logging on gives the clause of the loop.             *)
LEMMA MigrationLogDisableLogInv ==
    ASSUME TypeOK, KernelView, LogInv, MigrationLogDisable
    PROVE  LogInv'
<1>1. /\ dropped' = {} /\ pc = "idle" /\ started /\ log_enabled
      /\ pc' \in {"ld_vring", "aborted"}
      /\ UNCHANGED <<mem, kmem, log, kbase>>
  BY Zenon DEF MigrationLogDisable, Quiet
<1>2. kbase /\ LogSize(mem) <= log.size
  BY <1>1 DEF KernelView
<1>. QED  BY <1>1, <1>2, Zenon DEF LogInv, BitsInLog, TableBounded, NoMappedBitDropped

(***************************************************************************)
(* vhost_dev_log_resize: the new log is empty and its base is pushed, and *)
(* the sync of the old log's range, which covers every set bit, harvests  *)
(* every bit of a mapped page before the old log is freed, whenever        *)
(* logging is on and some section can carry the sync.                     *)
(***************************************************************************)
LEMMA LogResizeLogInv ==
    ASSUME TypeOK, BitsInLog, NEW n, NEW m \in SUBSET Region, NEW view,
           LogResize(n, m, view),
           log_enabled => started /\ (view # <<>> \/ MemPages(m) = {})
    PROVE  /\ log' = [size |-> n, bits |-> {}] /\ kbase' = TRUE
           /\ BitsInLog' /\ NoMappedBitDropped'
<1> DEFINE oldLast == IF log.size = 0 THEN AddrTop ELSE log.size * PagesPerChunk - 1
<1>1. oldLast \in Nat /\ \A p \in log.bits : p <= oldLast
  BY OldLogLast
<1>2. /\ log' = [size |-> n, bits |-> {}] /\ kbase' = TRUE
      /\ dropped' = Drops(log.bits \ SyncAll(log.bits, m, view, oldLast), m, log_enabled)
  BY Zenon DEF LogResize
<1>3. BitsInLog'
  BY <1>2 DEF BitsInLog
<1>4. NoMappedBitDropped'
  BY <1>1, <1>2, SyncNoDrop DEF NoMappedBitDropped
<1>. QED  BY <1>2, <1>3, <1>4

(* A free while logging is off, or at the end of disabling, drops bits    *)
(* no one will read.                                                       *)
LEMMA DropsNotLogging ==
    ASSUME NEW bits, NEW m
    PROVE  \A d \in Drops(bits, m, FALSE) : d.logging = FALSE
BY DEF Drops

(* VHOST_SET_MEM_TABLE hands the kernel the current table, which lies      *)
(* below the top of the address space.                                    *)
LEMMA SetMemTableLogInv ==
    ASSUME TypeOK, MRest, LogInv, SetMemTable
    PROVE  LogInv'
<1>1. /\ kmem' = mem /\ dropped' = {} /\ pc' \in {"sm_shrink", "idle"}
      /\ UNCHANGED <<log>>
  BY Zenon DEF SetMemTable, Quiet
<1>2. TableBounded(mem)
  BY MemBounded
<1>. QED  BY <1>1, <1>2, Zenon DEF LogInv, BitsInLog, TableBounded, NoMappedBitDropped

(* The end of disabling frees the log with logging off.                    *)
LEMMA FreeLogLogInv ==
    ASSUME TypeOK, LogInv, FreeLog
    PROVE  LogInv'
<1>1. /\ log' = NullLog /\ pc' = "idle" /\ kmem' = kmem
      /\ dropped' = Drops(log.bits, mem, FALSE)
  BY Zenon DEF FreeLog
<1>2. BitsInLog'
  BY <1>1 DEF BitsInLog, NullLog
<1>3. NoMappedBitDropped'
  BY <1>1, DropsNotLogging DEF NoMappedBitDropped
<1>. QED  BY <1>1, <1>2, <1>3, Zenon DEF LogInv, TableBounded

(* vhost_dev_start pushes the current table and, with logging on, an empty *)
(* log of the current need.                                                *)
LEMMA StartDevLogInv ==
    ASSUME TypeOK, MRest, LogInv, StartDev
    PROVE  LogInv'
<1>1. /\ pc' = "idle" /\ dropped' = {}
      /\ kmem' \in {kmem, mem}
      /\ log' \in {log, [size |-> LogSize(mem), bits |-> {}]}
  BY Zenon DEF StartDev, Quiet
<1>2. TableBounded(kmem')
  BY <1>1, MemBounded DEF LogInv
<1>3. BitsInLog'
  BY <1>1 DEF LogInv, BitsInLog
<1>. QED  BY <1>1, <1>2, <1>3, Zenon DEF LogInv, NoMappedBitDropped

(* vhost_dev_stop syncs the whole address space for every section before  *)
(* it frees the log; without a section the table maps nothing.             *)
LEMMA StopDevLogInv ==
    ASSUME TypeOK, MRest, LogInv, StopDev
    PROVE  LogInv'
<1>1. pc = "idle" /\ started /\ kmem' = kmem
  BY Zenon DEF StopDev
<1>2. CASE pc' = "aborted" /\ dropped' = {} /\ UNCHANGED <<log>>
  BY <1>1, <1>2, Zenon DEF LogInv, BitsInLog, TableBounded, NoMappedBitDropped
<1>3. CASE /\ dropped' = Drops(log.bits \ SyncAll(log.bits, mem, secs, AddrTop), mem, log_enabled)
           /\ log' = NullLog /\ pc' = "idle"
  <2>1. AddrTop \in Nat /\ \A p \in log.bits : p <= AddrTop
    BY ConstAssumption DEF TypeOK, Pages
  <2>2. secs = <<>> => MemPages(mem) = {}
    BY MemBounded
  <2>3. NoMappedBitDropped'
    BY <1>1, <1>3, <2>1, <2>2, SyncNoDrop DEF NoMappedBitDropped, TypeOK
  <2>4. BitsInLog'
    BY <1>3 DEF BitsInLog, NullLog
  <2>. QED  BY <1>1, <1>3, <2>3, <2>4, Zenon DEF LogInv, TableBounded
<1>. QED  BY <1>2, <1>3, Zenon DEF StopDev, Quiet

(* Enabling on a running device resizes the log while logging is still     *)
(* off, then goes on to VHOST_SET_FEATURES.                                *)
LEMMA MigrationLogEnableLogInv ==
    ASSUME TypeOK, LogInv, MigrationLogEnable
    PROVE  LogInv'
<1>1. /\ ~ log_enabled /\ pc' = "le_features" /\ kmem' = kmem
      /\ LogResize(LogSize(mem), mem, secs)
  BY Zenon DEF MigrationLogEnable
<1>2. BitsInLog' /\ NoMappedBitDropped'
  BY <1>1, LogResizeLogInv DEF TypeOK, LogInv
<1>. QED  BY <1>1, <1>2, Zenon DEF LogInv, TableBounded

(* The shrink after VHOST_SET_MEM_TABLE syncs over the current table.      *)
LEMMA ShrinkLogLogInv ==
    ASSUME TypeOK, KernelView, MRest, LogInv, ShrinkLog
    PROVE  LogInv'
<1>1. /\ pc = "sm_shrink" /\ pc' = "idle" /\ kmem' = kmem
      /\ LogResize(LogSize(mem), mem, secs)
  BY Zenon DEF ShrinkLog
<1>2. started
  BY <1>1 DEF KernelView
<1>3. secs = <<>> => MemPages(mem) = {}
  BY MemBounded
<1>4. BitsInLog' /\ NoMappedBitDropped'
  BY <1>1, <1>2, <1>3, LogResizeLogInv DEF TypeOK, LogInv
<1>. QED  BY <1>1, <1>4, Zenon DEF LogInv, TableBounded

(***************************************************************************)
(* vhost_set_memory up to VHOST_SET_MEM_TABLE.  On the way to the push the *)
(* kernel still holds the table of idle, the current one, so a log that   *)
(* covers it (or the grown log, larger still) covers what the kernel may  *)
(* log; a grow syncs the old log over the new table with the section list *)
(* that holds the changed section.                                         *)
(***************************************************************************)
LEMMA SetMemoryLogInv ==
    ASSUME TypeOK, KernelView, LogInv, NEW s \in Sections, NEW add \in BOOLEAN,
           pc = "idle", ~ add => s \in SecSet(secs), SetMemory(s, add),
           UNCHANGED <<kmem, started, log_enabled>>
    PROVE  LogInv'
<1> DEFINE view  == IF add THEN Append(secs, s) ELSE secs
           doAdd == add /\ s.mr \notin Logging
           mem1  == IF doAdd
                    THEN Assign(Unassign(mem, s.gpa, s.size), s.gpa, s.size, Hva(s))
                    ELSE Unassign(Unassign(mem, s.gpa, s.size), s.gpa, s.size)
           noop  == IF doAdd THEN ~ CmpMemory(mem, s.gpa, s.size, Hva(s))
                    ELSE Overlapping(mem, s.gpa, s.size) = {}
<1>1. mem1 \subseteq Region
  <2>1. s.gpa \in Nat /\ s.size \in Nat \ {0} /\ Hva(s) \in Nat
    BY SectionType
  <2>2. Unassign(mem, s.gpa, s.size) \in SUBSET Region
    BY <2>1, UnassignType DEF TypeOK
  <2>. QED  BY <2>1, <2>2, UnassignType, AssignType
<1>2. LogSize(mem1) \in Nat /\ log.size \in Nat /\ LogSlack \in Nat
      /\ LogSize(mem) \in Nat
  BY <1>1, LogSizeType, ConstAssumption DEF TypeOK
<1>3. view # <<>>
  <2>1. CASE add
    <3>1. secs \in Seq(Sections)
      BY DEF TypeOK
    <3>2. Len(Append(secs, s)) = Len(secs) + 1 /\ Len(secs) \in Nat
      BY <3>1
    <3>3. Append(secs, s) # <<>>
      BY <3>2
    <3>. QED  BY <2>1, <3>3 DEF view
  <2>2. CASE ~ add
    BY <2>2 DEF SecSet, view
  <2>. QED  BY <2>1, <2>2
<1>. HIDE DEF view, doAdd, mem1, noop
<1>4. \/ /\ pc' = "idle" /\ UNCHANGED <<log>> /\ dropped' = {}
      \/ /\ pc' = "aborted" /\ UNCHANGED <<log>> /\ dropped' = {}
      \/ /\ started
         /\ pc' = "sm_push"
         /\ IF log_enabled /\ log.size < LogSize(mem1)
            THEN LogResize(LogSize(mem1) + LogSlack, mem1, view)
            ELSE UNCHANGED <<log>> /\ dropped' = {}
  BY Zenon DEF SetMemory, Quiet, view, doAdd, mem1, noop
<1>5. CASE \/ pc' = "idle" /\ UNCHANGED <<log>> /\ dropped' = {}
           \/ pc' = "aborted" /\ UNCHANGED <<log>> /\ dropped' = {}
  BY <1>5, Zenon DEF LogInv, BitsInLog, TableBounded, NoMappedBitDropped
<1>6. CASE /\ started
           /\ pc' = "sm_push"
           /\ IF log_enabled /\ log.size < LogSize(mem1)
              THEN LogResize(LogSize(mem1) + LogSlack, mem1, view)
              ELSE UNCHANGED <<log>> /\ dropped' = {}
  <2>1. log_enabled => kmem = mem /\ LogSize(mem) <= log.size
    BY <1>6 DEF KernelView
  <2>2. CASE log_enabled /\ log.size < LogSize(mem1)
    <3>1. /\ log' = [size |-> LogSize(mem1) + LogSlack, bits |-> {}]
          /\ BitsInLog' /\ NoMappedBitDropped'
      BY <1>1, <1>3, <1>6, <2>2, LogResizeLogInv DEF LogInv
    <3>2. LogSize(kmem) <= log'.size
      BY <1>2, <2>1, <2>2, <3>1
    <3>. QED  BY <1>6, <3>1, <3>2, Zenon DEF LogInv, TableBounded
  <2>3. CASE ~ (log_enabled /\ log.size < LogSize(mem1))
    <3>1. log' = log /\ dropped' = {}
      BY <1>6, <2>3, Zenon
    <3>2. log_enabled => LogSize(kmem) <= log.size
      BY <2>1
    <3>. QED  BY <1>6, <3>1, <3>2, Zenon DEF LogInv, BitsInLog, TableBounded,
                  NoMappedBitDropped
  <2>. QED  BY <2>2, <2>3
<1>. QED  BY <1>4, <1>5, <1>6

(* A process that has aborted, and a stuttering step, change nothing.      *)
LEMMA UnchangedLogInv ==
    ASSUME LogInv, Aborted \/ UNCHANGED vars
    PROVE  LogInv'
<1>1. UNCHANGED <<mem, kmem, started, log_enabled, log, kbase, pc, dropped>>
  BY Zenon DEF Aborted, vars
<1>. QED  BY <1>1, Zenon DEF LogInv, BitsInLog, TableBounded, NoMappedBitDropped

LEMMA NextLogInv ==
    ASSUME TypeOK, KernelView, MRest, LogInv, [Next]_vars
    PROVE  LogInv'
<1>1. ASSUME NEW s \in Sections, RegionAdd(s) \/ RegionDel(s) PROVE LogInv'
  <2>1. CASE RegionAdd(s)
    BY <2>1, SetMemoryLogInv DEF RegionAdd
  <2>2. CASE RegionDel(s)
    BY <2>2, SetMemoryLogInv DEF RegionDel, SecSet
  <2>. QED  BY <1>1, <2>1, <2>2
<1>. QED
  BY <1>1, SetMemTableLogInv, ShrinkLogLogInv, LogSyncLogInv,
     MigrationLogStoppedLogInv, MigrationLogEnableLogInv,
     MigrationLogDisableLogInv, SetLogFeaturesLogInv, SetVringAddrLogInv,
     FreeLogLogInv, StartDevLogInv, StopDevLogInv, KernelWriteLogInv,
     UnchangedLogInv
  DEF Next

(* vhost_dev_init: no table, no log, nothing freed.                        *)
LEMMA InitLogInv == Init => LogInv
<1> SUFFICES ASSUME Init PROVE LogInv
  OBVIOUS
<1>1. kmem = {} /\ log.bits = {} /\ dropped = {} /\ pc = "idle"
  BY DEF Init, NullLog
<1>. QED  BY <1>1 DEF LogInv, TableBounded, BitsInLog, NoMappedBitDropped

(* LInv holds in every reachable state.                                    *)
THEOREM LogInvariant == Spec => []LInv
<1>1. Init => LInv
  BY InitType, InitKernelView, InitMInv, InitLogInv DEF LInv, IInv, MInv
<1>2. LInv /\ [Next]_vars => LInv'
  BY NextType, NextKernelView, MapStep, NextLogInv DEF LInv, IInv
<1>. QED  BY <1>1, <1>2, PTL DEF Spec

(***************************************************************************)
(* KernelLogInBounds for every instance: while the device runs, the kernel *)
(* logs only into dev->log at its pushed base, and every page of the       *)
(* table it holds and every used ring lies inside that log, through the   *)
(* grow-push-shrink order of vhost_set_memory, the resize-then-flags order *)
(* of enabling and the flags-then-free order of disabling.                 *)
(***************************************************************************)
THEOREM KernelLogInBoundsInvariant == Spec => []KernelLogInBounds
<1>1. LInv => KernelLogInBounds
  BY LInvBounds DEF LInv, IInv
<1>. QED  BY <1>1, LogInvariant, PTL

(***************************************************************************)
(* NoMappedBitDropped for every instance: no log resize, stop or free      *)
(* drops the bit of a page the table still maps while logging goes on:     *)
(* the sync before each free covers every bit the old log can hold.       *)
(***************************************************************************)
THEOREM NoMappedBitDroppedInvariant == Spec => []NoMappedBitDropped
<1>1. LInv => NoMappedBitDropped
  BY DEF LInv, LogInv
<1>. QED  BY <1>1, LogInvariant, PTL

-----------------------------------------------------------------------------
(***************************************************************************)
(* A stopped device holds no set bit: the kernel writes only while it     *)
(* runs, and vhost_dev_stop frees the log.  So the log vhost_dev_start    *)
(* replaces without a sync is empty.                                       *)
(***************************************************************************)
StoppedNoBits == ~ started => log.bits = {}

(* Each step keeps the stopped flag and loses bits, empties the log, or    *)
(* leaves the device started.                                              *)
LEMMA NextBitsFate ==
    ASSUME TypeOK, [Next]_vars
    PROVE  \/ started' = started /\ log'.bits \subseteq log.bits
           \/ log'.bits = {}
           \/ started'
<1>1. ASSUME NEW n, NEW m, NEW view, LogResize(n, m, view) PROVE log'.bits = {}
  BY <1>1, Zenon DEF LogResize
<1>2. ASSUME NEW s \in Sections, NEW add \in BOOLEAN, SetMemory(s, add),
             started' = started
      PROVE  log'.bits = {} \/ log' = log
  BY <1>1, <1>2, Zenon DEF SetMemory, Quiet
<1>3. ASSUME NEW s \in Sections, LogSync(s) PROVE started' = started /\ log'.bits \subseteq log.bits
  <2>1. log' = [log EXCEPT !.bits = @ \ Harvested(log.bits, mem, s.gpa, s.gpa + s.size)]
        /\ started' = started
    BY <1>3, Zenon DEF LogSync
  <2>. QED  BY <2>1 DEF TypeOK
<1>4. ASSUME NEW p \in Pages, KernelWrite(p) PROVE started'
  BY <1>4, Zenon DEF KernelWrite
<1>5. CASE \E s \in Sections : RegionAdd(s) \/ RegionDel(s)
  BY <1>5, <1>2, Zenon DEF RegionAdd, RegionDel
<1>6. CASE \/ SetMemTable \/ MigrationLogDisable \/ SetLogFeatures \/ SetVringAddr
           \/ (\E e \in BOOLEAN : MigrationLogStopped(e)) \/ Aborted \/ UNCHANGED vars
  BY <1>6, Zenon DEF SetMemTable, MigrationLogDisable, SetLogFeatures, SetVringAddr,
                     MigrationLogStopped, Aborted, vars
<1>7. CASE ShrinkLog \/ MigrationLogEnable
  BY <1>7, <1>1, Zenon DEF ShrinkLog, MigrationLogEnable
<1>8. CASE FreeLog \/ StopDev
  <2>1. log' = NullLog \/ UNCHANGED <<started, log>>
    BY <1>8, Zenon DEF FreeLog, StopDev
  <2>. QED  BY <2>1 DEF NullLog
<1>9. CASE StartDev
  <2>1. started' \/ log' = [size |-> LogSize(mem), bits |-> {}]
    BY <1>9, Zenon DEF StartDev
  <2>. QED  BY <2>1
<1>. QED  BY <1>3, <1>4, <1>5, <1>6, <1>7, <1>8, <1>9 DEF Next

LEMMA NextStoppedNoBits ==
    ASSUME TypeOK, StoppedNoBits, [Next]_vars
    PROVE  StoppedNoBits'
BY NextBitsFate DEF StoppedNoBits

-----------------------------------------------------------------------------
(* The step of DirtyBitsReported.                                          *)
ReportedStep ==
    log_enabled' =>
        \A p \in log.bits \ log'.bits :
            p \in MemPages(mem') => p \in {r.page : r \in reported'}

(***************************************************************************)
(* A sync of the bits got, reported for section s (none when got is       *)
(* empty), followed by a free of the rest: a bit of a page of m is         *)
(* reported while logging, since the free drops none (NoMappedBitDropped). *)
(***************************************************************************)
LEMMA SyncedOrDropped ==
    ASSUME NEW got, NEW m, NEW s, NoMappedBitDropped',
           reported' = IF got = {} THEN {} ELSE Reports(got, s),
           dropped' = Drops(log.bits \ got, m, log_enabled)
    PROVE  \A p \in log.bits :
               log_enabled /\ p \in MemPages(m) => p \in {r.page : r \in reported'}
<1> SUFFICES ASSUME NEW p \in log.bits, log_enabled, p \in MemPages(m)
             PROVE  p \in {r.page : r \in reported'}
  OBVIOUS
<1>1. CASE p \in got
  <2>1. reported' = Reports(got, s)
    BY <1>1
  <2>2. [page |-> p, sec |-> s, off |-> s.off + (p % PagesPerChunk)] \in Reports(got, s)
    BY <1>1 DEF Reports
  <2>. QED  BY <2>1, <2>2
<1>2. CASE p \notin got
  <2> DEFINE d == [page |-> p, mapped |-> TRUE, logging |-> TRUE]
  <2>1. d \in dropped'
    BY <1>2 DEF Drops
  <2>2. d.logging /\ d.mapped
    OBVIOUS
  <2>. QED  BY <2>1, <2>2 DEF NoMappedBitDropped
<1>. QED  BY <1>1, <1>2

(* vhost_dev_log_resize reports every bit of a page of the table it syncs *)
(* over, while logging.                                                    *)
LEMMA ResizeReported ==
    ASSUME NEW n, NEW m, NEW view, LogResize(n, m, view), NoMappedBitDropped'
    PROVE  \A p \in log.bits :
               log_enabled /\ p \in MemPages(m) => p \in {r.page : r \in reported'}
<1> DEFINE oldLast == IF log.size = 0 THEN AddrTop ELSE log.size * PagesPerChunk - 1
           got     == SyncAll(log.bits, m, view, oldLast)
<1>1. /\ reported' = IF got = {} THEN {} ELSE Reports(got, Head(view))
      /\ dropped' = Drops(log.bits \ got, m, log_enabled)
  BY Zenon DEF LogResize
<1>. HIDE DEF got
<1>. QED  BY <1>1, SyncedOrDropped

(* vhost_set_memory loses bits only by a resize over the new table.       *)
LEMMA SetMemoryReported ==
    ASSUME NEW s \in Sections, NEW add \in BOOLEAN, SetMemory(s, add),
           log_enabled' = log_enabled, NoMappedBitDropped'
    PROVE  ReportedStep
<1>1. log' = log \/ \E n, v : LogResize(n, mem', v)
  BY Zenon DEF SetMemory
<1>2. CASE log' = log
  BY <1>2 DEF ReportedStep
<1>3. CASE \E n, v : LogResize(n, mem', v)
  BY <1>3, ResizeReported DEF ReportedStep
<1>. QED  BY <1>1, <1>2, <1>3

(* Every step of the device satisfies ReportedStep, given that stopped     *)
(* devices hold no bits and the step drops no bit of a mapped page.       *)
LEMMA NextReported ==
    ASSUME TypeOK, StoppedNoBits, NoMappedBitDropped', [Next]_vars
    PROVE  ReportedStep
<1>1. CASE log.bits \subseteq log'.bits
  BY <1>1 DEF ReportedStep
<1>2. CASE ~ log_enabled'
  BY <1>2 DEF ReportedStep
<1>3. ASSUME NEW s \in Sections, RegionAdd(s) \/ RegionDel(s) PROVE ReportedStep
  <2>1. \E add \in BOOLEAN : SetMemory(s, add) /\ log_enabled' = log_enabled
    BY <1>3, Zenon DEF RegionAdd, RegionDel
  <2>. QED  BY <2>1, SetMemoryReported
<1>4. ASSUME ShrinkLog PROVE ReportedStep
  <2>1. LogResize(LogSize(mem), mem', secs) /\ log_enabled' = log_enabled
    BY <1>4, Zenon DEF ShrinkLog
  <2>. QED  BY <2>1, ResizeReported DEF ReportedStep
<1>5. ASSUME NEW s \in Sections, LogSync(s) PROVE ReportedStep
  <2> DEFINE got == Harvested(log.bits, mem, s.gpa, s.gpa + s.size)
  <2>1. /\ log' = [log EXCEPT !.bits = @ \ got]
        /\ reported' = Reports(got, s)
    BY <1>5, Zenon DEF LogSync
  <2>2. log.bits \ log'.bits \subseteq got
    BY <2>1 DEF TypeOK
  <2>3. \A p \in got : [page |-> p, sec |-> s, off |-> s.off + (p % PagesPerChunk)]
                         \in reported'
    BY <2>1 DEF Reports
  <2>4. ASSUME NEW p \in got PROVE p \in {r.page : r \in reported'}
    <3> DEFINE rr == [page |-> p, sec |-> s, off |-> s.off + (p % PagesPerChunk)]
    <3>1. rr \in reported' /\ rr.page = p
      BY <2>3
    <3>. QED  BY <3>1, Zenon
  <2>. QED  BY <2>2, <2>4 DEF ReportedStep
<1>6. ASSUME StartDev PROVE ReportedStep
  <2>1. ~ started
    BY <1>6 DEF StartDev
  <2>. QED  BY <2>1 DEF StoppedNoBits, ReportedStep
<1>7. ASSUME StopDev PROVE ReportedStep
  <2> DEFINE got == SyncAll(log.bits, mem, secs, AddrTop)
  <2>1. \/ /\ reported' = IF got = {} THEN {} ELSE Reports(got, Head(secs))
           /\ dropped' = Drops(log.bits \ got, mem, log_enabled)
           /\ UNCHANGED <<mem, log_enabled>>
        \/ UNCHANGED log
    BY <1>7, Zenon DEF StopDev
  <2>. HIDE DEF got
  <2>. QED  BY <2>1, SyncedOrDropped DEF ReportedStep
<1>8. CASE \/ SetMemTable \/ MigrationLogDisable \/ SetLogFeatures \/ SetVringAddr
           \/ (\E e \in BOOLEAN : MigrationLogStopped(e)) \/ Aborted \/ UNCHANGED vars
  <2>1. UNCHANGED log
    BY <1>8, Zenon DEF SetMemTable, MigrationLogDisable, SetLogFeatures, SetVringAddr,
                       MigrationLogStopped, Aborted, vars
  <2>. QED  BY <2>1, <1>1
<1>9. CASE \E p \in Pages : KernelWrite(p)
  <2>1. PICK p \in Pages : log' = [log EXCEPT !.bits = @ \cup {p}]
    BY <1>9, Zenon DEF KernelWrite
  <2>. QED  BY <2>1, <1>1 DEF TypeOK
<1>10. CASE MigrationLogEnable \/ FreeLog
  <2>1. ~ log_enabled'
    BY <1>10, Zenon DEF MigrationLogEnable, FreeLog
  <2>. QED  BY <2>1, <1>2
<1>. QED  BY <1>3, <1>4, <1>5, <1>6, <1>7, <1>8, <1>9, <1>10 DEF Next

(***************************************************************************)
(* DirtyBitsReported for every instance: no sync, resize, stop or start   *)
(* loses the dirty bit of a mapped page while migration goes on; each bit *)
(* that leaves the log is passed to memory_region_set_dirty in that step. *)
(***************************************************************************)
THEOREM DirtyBitsReportedHolds == Spec => DirtyBitsReported
<1>1. Init => LInv /\ StoppedNoBits
  BY InitType, InitKernelView, InitMInv, InitLogInv DEF LInv, IInv, MInv, StoppedNoBits,
     Init, NullLog
<1>2. LInv /\ StoppedNoBits /\ [Next]_vars => (LInv /\ StoppedNoBits)'
  BY NextType, NextKernelView, MapStep, NextLogInv, NextStoppedNoBits DEF LInv, IInv
<1>3. LInv /\ StoppedNoBits /\ (LInv /\ StoppedNoBits)' /\ [Next]_vars => [ReportedStep]_vars
  BY NextReported DEF LInv, IInv, LogInv
<1>. QED  BY <1>1, <1>2, <1>3, PTL DEF Spec, DirtyBitsReported, ReportedStep

=============================================================================
