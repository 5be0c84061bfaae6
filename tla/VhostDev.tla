------------------------------ MODULE VhostDev ------------------------------
(***************************************************************************)
(* The vhost device of hw/vhost.c: the memory listener that keeps the      *)
(* region table (dev->mem) in step with guest RAM, the dirty log           *)
(* (dev->log, dev->log_size) and its harvest, the migration-log switch,    *)
(* and vhost_dev_start / vhost_dev_stop, together with the one concurrent  *)
(* actor: the in-kernel vhost worker, which processes the queues while the *)
(* device is started and sets log bits for the guest pages it writes.      *)
(*                                                                         *)
(* All listener callbacks and lifecycle calls run under the global lock    *)
(* and never overlap (pc = "idle" between them).  Every ioctl on           *)
(* dev->control is a point where the kernel sees new state, so a handler   *)
(* that runs while the kernel works is split into steps at its ioctls.     *)
(* Addresses are counted in guest pages; a log word (vhost_log_chunk_t)    *)
(* covers PagesPerChunk pages, one bit per page.                           *)
(***************************************************************************)
EXTENDS Naturals, Sequences, FiniteSets, RegionTable

CONSTANTS
    Sections,       \* the MemoryRegionSections the memory API may report
    RamBase,        \* memory_region_get_ram_ptr, per memory region
    Logging,        \* memory regions with dirty logging on (e.g. VGA)
    NQ,             \* dev->nvqs
    RingPage,       \* the guest page holding the ring of each queue
    PagesPerChunk,  \* VHOST_LOG_CHUNK / VHOST_LOG_PAGE
    LogSlack,       \* VHOST_LOG_BUFFER, in log words
    AddrTop,        \* the last guest page: (target_phys_addr_t)~0
    CtlFail,        \* whether an ioctl with an error path may fail
    NoSec,          \* no section
    NoHva           \* no mapping (NULL)

Queues == 1 .. NQ
MRs    == DOMAIN RamBase

ASSUME ConstAssumption ==
    /\ NQ \in Nat \ {0}
    /\ PagesPerChunk \in Nat \ {0}
    /\ LogSlack \in Nat
    /\ AddrTop \in Nat
    /\ CtlFail \in BOOLEAN
    /\ RamBase \in [MRs -> Nat]
    /\ Logging \subseteq MRs
    /\ RingPage \in [Queues -> 0 .. AddrTop]
    /\ Sections \subseteq [gpa : Nat, size : Nat \ {0}, mr : MRs, off : Nat]
    /\ \A s \in Sections : RangeLast(s.gpa, s.size) <= AddrTop
    /\ NoSec \notin Sections
    /\ NoHva \notin Nat

Pages == 0 .. AddrTop

(* The host address a section starts at: get_ram_ptr(mr) + offset.        *)
Hva(s) == RamBase[s.mr] + s.off

SecPages(s) == s.gpa .. RangeLast(s.gpa, s.size)


VARIABLES
    secs,         \* dev->mem_sections, in order
    mem,          \* dev->mem, the region table
    kmem,         \* the table the kernel last received (VHOST_SET_MEM_TABLE)
    started,      \* dev->started
    log_enabled,  \* dev->log_enabled
    log,          \* dev->log: its size in words and the set bits (pages)
    kbase,        \* the kernel's log base is dev->log (not stale or null)
    kfeat,        \* the kernel has VHOST_F_LOG_ALL
    kvlog,        \* per queue, the kernel has VHOST_VRING_F_LOG
    vring,        \* vq->ring: the host address the ring was mapped at
    pc,           \* where the running handler is
    idx,          \* the queue a set_addr loop is at
    delsec,       \* the section vhost_region_del removes when done
    reported,     \* memory_region_set_dirty calls of the last step
    dropped       \* set log bits the last step freed without harvest

vars == <<secs, mem, kmem, started, log_enabled, log, kbase, kfeat, kvlog,
          vring, pc, idx, delsec, reported, dropped>>

NullLog == [size |-> 0, bits |-> {}]

-----------------------------------------------------------------------------
(* Variant: the word of the last page, not one past it.                    *)
LogSize_NoPlusOne(m) ==
    MaxOf({0} \cup {RangeLast(r.gpa, r.size) \div PagesPerChunk : r \in m}
              \cup {RingPage[q] \div PagesPerChunk : q \in Queues})

(* vhost_get_log_size: one word past the last word any region or used     *)
(* ring needs.                                                             *)
LogSize(m) ==
    MaxOf({0} \cup {RangeLast(r.gpa, r.size) \div PagesPerChunk + 1 : r \in m}
              \cup {RingPage[q] \div PagesPerChunk + 1 : q \in Queues})

(* The pages the kernel logs into its log base: every page of its table   *)
(* under VHOST_F_LOG_ALL, and the used ring of a queue with the log flag.  *)
Loggable ==
    (IF kfeat THEN UNION {RegionPages(r) : r \in kmem} ELSE {})
        \cup {RingPage[q] : q \in {i \in Queues : kvlog[i]}}

MemPages(m) == UNION {RegionPages(r) : r \in m}

(***************************************************************************)
(* vhost_dev_sync_region over every region and used ring                   *)
(* (vhost_sync_dirty_bitmap): for each range, the words from the one       *)
(* holding max(mfirst, rfirst) to the one holding min(mlast, rlast) are    *)
(* read and cleared whole; Harvested is the set of set bits they hold.     *)
(***************************************************************************)
SyncRanges(m) ==
    {<<r.gpa, RangeLast(r.gpa, r.size)>> : r \in m}
        \cup {<<RingPage[q], RingPage[q]>> : q \in Queues}

Harvested(bits, m, mfirst, mlast) ==
    {p \in bits :
        \E rg \in SyncRanges(m) :
            LET start == IF mfirst > rg[1] THEN mfirst ELSE rg[1]
                end   == IF mlast < rg[2] THEN mlast ELSE rg[2]
            IN  /\ start <= end
                /\ start \div PagesPerChunk <= p \div PagesPerChunk
                /\ p \div PagesPerChunk <= end \div PagesPerChunk}

(* memory_region_set_dirty(section->mr, offset_within_region + bit * PAGE) *)
(* for each harvested bit; bit is the page's index within its word.        *)
Reports(pages, s) ==
    {[page |-> p, sec |-> s, off |-> s.off + (p % PagesPerChunk)] : p \in pages}

(* Bits a step frees unharvested, tagged with whether the page is still   *)
(* in the region table and whether dirty logging goes on after the step.   *)
Drops(bits, m, logging) ==
    {[page |-> p, mapped |-> p \in MemPages(m), logging |-> logging] : p \in bits}

(***************************************************************************)
(* The same range synced for every section of view (resize and stop): the *)
(* first section drains every word of the range, the later ones find them *)
(* zero.  vhost_sync_dirty_bitmap does nothing unless logging and started. *)
(***************************************************************************)
SyncAll(bits, m, view, mlast) ==
    IF log_enabled /\ started /\ view # <<>>
    THEN Harvested(bits, m, 0, mlast)
    ELSE {}

(* Variant: the old log freed before it is synced.                         *)
LogResize_FreeFirst(n, m, view) ==
    /\ log' = [size |-> n, bits |-> {}]
    /\ kbase' = TRUE
    /\ reported' = {}
    /\ dropped' = Drops(log.bits, m, log_enabled)

(***************************************************************************)
(* vhost_dev_log_resize(dev, n) with the table m and the section list     *)
(* view: allocate the new log, VHOST_SET_LOG_BASE to it (asserted), sync   *)
(* the range the old log covers, free the old log.  The kernel stops       *)
(* writing the old log when the base moves, so the rest is one step.       *)
(***************************************************************************)
LogResize(n, m, view) ==
    LET oldLast == IF log.size = 0 THEN AddrTop
                   ELSE log.size * PagesPerChunk - 1
        got     == SyncAll(log.bits, m, view, oldLast)
    IN  /\ log' = [size |-> n, bits |-> {}]
        /\ kbase' = TRUE
        /\ reported' = IF got = {} THEN {} ELSE Reports(got, Head(view))
        /\ dropped' = Drops(log.bits \ got, m, log_enabled)

Quiet == reported' = {} /\ dropped' = {}

(* cpu_physical_memory_map of one page, as the sections in view map it.   *)
MapPage(view, p) ==
    IF \E i \in 1 .. Len(view) : p \in SecPages(view[i])
    THEN LET s == view[CHOOSE i \in 1 .. Len(view) : p \in SecPages(view[i])]
         IN  Hva(s) + p - s.gpa
    ELSE NoHva

(* Variant: only a ring starting at the range's first page is checked.    *)
RingsVerified_FirstPage(view, start, size) ==
    \A q \in Queues :
        RingPage[q] = start => MapPage(view, RingPage[q]) = vring[q]

(* vhost_verify_ring_mappings over [start, start + size).                  *)
RingsVerified(view, start, size) ==
    \A q \in Queues :
        RangesOverlap(start, size, RingPage[q], 1)
            => MapPage(view, RingPage[q]) = vring[q]

(* The removal of the first section starting at s.gpa (vhost_region_del). *)
RemoveSec(seq, s) ==
    LET i == CHOOSE j \in 1 .. Len(seq) :
                 /\ seq[j].gpa = s.gpa
                 /\ \A k \in 1 .. j - 1 : seq[k].gpa # s.gpa
    IN  [j \in 1 .. Len(seq) - 1 |-> IF j < i THEN seq[j] ELSE seq[j + 1]]

(* Variant: the section is never found in mem_sections, so it stays.      *)
FinishSetMemory_KeepSection ==
    /\ secs' = secs
    /\ delsec' = NoSec

(* The end of vhost_set_memory: vhost_region_del drops its section.        *)
FinishSetMemory ==
    /\ secs' = IF delsec = NoSec THEN secs ELSE RemoveSec(secs, delsec)
    /\ delsec' = NoSec

-----------------------------------------------------------------------------
Init ==
    /\ secs = <<>>
    /\ mem = {}
    /\ kmem = {}
    /\ started = FALSE
    /\ log_enabled = FALSE
    /\ log = NullLog
    /\ kbase = FALSE
    /\ kfeat = FALSE
    /\ kvlog = [q \in Queues |-> FALSE]
    /\ vring = [q \in Queues |-> NoHva]
    /\ pc = "idle"
    /\ idx = 1
    /\ delsec = NoSec
    /\ reported = {}
    /\ dropped = {}

(***************************************************************************)
(* vhost_set_memory(section, add), up to its first ioctl, with what its   *)
(* caller does around it: vhost_region_add appends the section to          *)
(* mem_sections first, vhost_region_del removes it only once               *)
(* vhost_set_memory has returned.  A section whose region logs dirty      *)
(* pages is removed, not added.  Unless the table is unchanged or the     *)
(* device is stopped, the rings the range touches are re-verified (a      *)
(* failure asserts) and, with logging on, the log grows before the new     *)
(* table is pushed.                                                        *)
(***************************************************************************)
SetMemory(s, add) ==
    LET view  == IF add THEN Append(secs, s) ELSE secs
        after == IF add THEN view ELSE RemoveSec(secs, s)
        doAdd == add /\ s.mr \notin Logging
        mem1  == IF doAdd
                 THEN Assign(Unassign(mem, s.gpa, s.size), s.gpa, s.size, Hva(s))
                 ELSE Unassign(Unassign(mem, s.gpa, s.size), s.gpa, s.size)
        noop  == IF doAdd THEN ~ CmpMemory(mem, s.gpa, s.size, Hva(s))
                 ELSE Overlapping(mem, s.gpa, s.size) = {}
    IN  \/ /\ noop \/ ~ started
           /\ mem' = IF noop THEN mem ELSE mem1
           /\ secs' = after
           /\ Quiet
           /\ UNCHANGED <<log, kbase, pc, delsec>>
        \/ /\ ~ noop /\ started
           /\ ~ RingsVerified(view, s.gpa, s.size)
           /\ pc' = "aborted"
           /\ Quiet
           /\ UNCHANGED <<secs, mem, log, kbase, delsec>>
        \/ /\ ~ noop /\ started
           /\ RingsVerified(view, s.gpa, s.size)
           /\ mem' = mem1
           /\ secs' = view
           /\ delsec' = IF add THEN NoSec ELSE s
           /\ IF log_enabled /\ log.size < LogSize(mem1)
              THEN LogResize(LogSize(mem1) + LogSlack, mem1, view)
              ELSE Quiet /\ UNCHANGED <<log, kbase>>
           /\ pc' = "sm_push"

(* vhost_region_add.  The memory API's contract: a section it adds         *)
(* overlaps no section present.                                            *)
RegionAdd(s) ==
    /\ pc = "idle"
    /\ s \notin {secs[i] : i \in 1 .. Len(secs)}
    /\ \A i \in 1 .. Len(secs) :
           ~ RangesOverlap(secs[i].gpa, secs[i].size, s.gpa, s.size)
    /\ SetMemory(s, TRUE)
    /\ UNCHANGED <<kmem, started, log_enabled, kfeat, kvlog, vring, idx>>

(* vhost_region_del.                                                        *)
RegionDel(s) ==
    /\ pc = "idle"
    /\ s \in {secs[i] : i \in 1 .. Len(secs)}
    /\ SetMemory(s, FALSE)
    /\ UNCHANGED <<kmem, started, log_enabled, kfeat, kvlog, vring, idx>>

(* vhost_set_memory: VHOST_SET_MEM_TABLE (asserted).  With logging on, a   *)
(* log larger than the new need plus the slack shrinks after the push.     *)
SetMemTable ==
    /\ pc = "sm_push"
    /\ kmem' = mem
    /\ IF log_enabled /\ log.size > LogSize(mem) + LogSlack
       THEN pc' = "sm_shrink" /\ UNCHANGED <<secs, delsec>>
       ELSE pc' = "idle" /\ FinishSetMemory
    /\ Quiet
    /\ UNCHANGED <<mem, started, log_enabled, log, kbase, kfeat, kvlog, vring, idx>>

ShrinkLog ==
    /\ pc = "sm_shrink"
    /\ LogResize(LogSize(mem), mem, secs)
    /\ pc' = "idle"
    /\ FinishSetMemory
    /\ UNCHANGED <<mem, kmem, started, log_enabled, kfeat, kvlog, vring, idx>>

(* vhost_log_sync: harvest the words of [start_addr, start_addr + size]   *)
(* (the code's end_addr is one past the section) for this section.        *)
LogSync(s) ==
    /\ pc = "idle"
    /\ s \in {secs[i] : i \in 1 .. Len(secs)}
    /\ log_enabled /\ started
    /\ LET got == Harvested(log.bits, mem, s.gpa, s.gpa + s.size)
       IN  /\ log' = [log EXCEPT !.bits = @ \ got]
           /\ reported' = Reports(got, s)
           /\ dropped' = {}
    /\ UNCHANGED <<secs, mem, kmem, started, log_enabled, kbase, kfeat, kvlog,
                   vring, pc, idx, delsec>>

(* vhost_migration_log on a stopped device only records the switch.       *)
MigrationLogStopped(enable) ==
    /\ pc = "idle"
    /\ ~ started
    /\ enable # log_enabled
    /\ log_enabled' = enable
    /\ Quiet
    /\ UNCHANGED <<secs, mem, kmem, started, log, kbase, kfeat, kvlog, vring,
                   pc, idx, delsec>>

(* Enabling on a running device: the log is sized to the current need and *)
(* its base pushed (vhost_dev_log_resize) before vhost_dev_set_log.        *)
MigrationLogEnable ==
    /\ pc = "idle"
    /\ started /\ ~ log_enabled
    /\ LogResize(LogSize(mem), mem, secs)
    /\ pc' = "le_features"
    /\ UNCHANGED <<secs, mem, kmem, started, log_enabled, kfeat, kvlog, vring,
                   idx, delsec>>

(* vhost_dev_set_log: VHOST_SET_FEATURES with or without F_LOG_ALL, then  *)
(* VHOST_SET_VRING_ADDR for each queue in index order.  A failure unwinds *)
(* and is returned to vhost_log_global_start/stop, which abort().          *)
MigrationLogDisable ==
    /\ pc = "idle"
    /\ started /\ log_enabled
    /\ \/ /\ kfeat' = FALSE
          /\ pc' = "ld_vring"
          /\ idx' = 1
       \/ /\ CtlFail
          /\ pc' = "aborted"
          /\ UNCHANGED <<kfeat, idx>>
    /\ Quiet
    /\ UNCHANGED <<secs, mem, kmem, started, log_enabled, log, kbase, kvlog,
                   vring, delsec>>

SetLogFeatures ==
    /\ pc = "le_features"
    /\ \/ /\ kfeat' = TRUE
          /\ pc' = "le_vring"
          /\ idx' = 1
       \/ /\ CtlFail
          /\ pc' = "aborted"
          /\ UNCHANGED <<kfeat, idx>>
    /\ Quiet
    /\ UNCHANGED <<secs, mem, kmem, started, log_enabled, log, kbase, kvlog,
                   vring, delsec>>

(* Variant: each ring flag sent as dev->log_enabled (the value the unwind  *)
(* path passes) instead of enable_log.                                     *)
SetVringAddr_OldFlag ==
    LET enable == pc = "le_vring"
    IN  /\ pc \in {"le_vring", "ld_vring"}
        /\ \/ /\ kvlog' = [kvlog EXCEPT ![idx] = log_enabled]
              /\ idx' = IF idx < NQ THEN idx + 1 ELSE idx
              /\ pc' = IF idx < NQ THEN pc ELSE IF enable THEN "idle" ELSE "ld_free"
              /\ log_enabled' = (IF idx = NQ /\ enable THEN TRUE ELSE log_enabled)
           \/ /\ CtlFail
              /\ pc' = "aborted"
              /\ UNCHANGED <<kvlog, idx, log_enabled>>
        /\ Quiet
        /\ UNCHANGED <<secs, mem, kmem, started, log, kbase, kfeat, vring, delsec>>

(* Variant: the loop index is never advanced.                             *)
SetVringAddr_NoAdvance ==
    LET enable == pc = "le_vring"
    IN  /\ pc \in {"le_vring", "ld_vring"}
        /\ \/ /\ kvlog' = [kvlog EXCEPT ![idx] = enable]
              /\ idx' = idx
              /\ pc' = IF idx < NQ THEN pc ELSE IF enable THEN "idle" ELSE "ld_free"
              /\ log_enabled' = (IF idx = NQ /\ enable THEN TRUE ELSE log_enabled)
           \/ /\ CtlFail
              /\ pc' = "aborted"
              /\ UNCHANGED <<kvlog, idx, log_enabled>>
        /\ Quiet
        /\ UNCHANGED <<secs, mem, kmem, started, log, kbase, kfeat, vring, delsec>>

(* vhost_virtqueue_set_addr(dev, vq, idx, enable_log) inside the loop.    *)
(* After the last queue, enabling is complete; disabling goes on to free  *)
(* the log.                                                                *)
SetVringAddr ==
    LET enable == pc = "le_vring"
    IN  /\ pc \in {"le_vring", "ld_vring"}
        /\ \/ /\ kvlog' = [kvlog EXCEPT ![idx] = enable]
              /\ idx' = IF idx < NQ THEN idx + 1 ELSE idx
              /\ pc' = IF idx < NQ THEN pc ELSE IF enable THEN "idle" ELSE "ld_free"
              /\ log_enabled' = (IF idx = NQ /\ enable THEN TRUE ELSE log_enabled)
           \/ /\ CtlFail
              /\ pc' = "aborted"
              /\ UNCHANGED <<kvlog, idx, log_enabled>>
        /\ Quiet
        /\ UNCHANGED <<secs, mem, kmem, started, log, kbase, kfeat, vring, delsec>>

(* The end of disabling: the log is freed without a harvest and without a *)
(* new log base; the kernel no longer logs.                                *)
FreeLog ==
    /\ pc = "ld_free"
    /\ log' = NullLog
    /\ kbase' = FALSE
    /\ log_enabled' = FALSE
    /\ reported' = {}
    /\ dropped' = Drops(log.bits, mem, FALSE)
    /\ pc' = "idle"
    /\ UNCHANGED <<secs, mem, kmem, started, kfeat, kvlog, vring, idx, delsec>>

(* Variant: the new log is allocated but VHOST_SET_LOG_BASE is not sent.  *)
StartDev_NoLogBase ==
    /\ pc = "idle"
    /\ ~ started
    /\ \A q \in Queues : MapPage(secs, RingPage[q]) # NoHva
    /\ started' = TRUE
    /\ kfeat' = log_enabled
    /\ kmem' = mem
    /\ kvlog' = [q \in Queues |-> log_enabled]
    /\ vring' = [q \in Queues |-> MapPage(secs, RingPage[q])]
    /\ log' = IF log_enabled THEN [size |-> LogSize(mem), bits |-> {}] ELSE log
    /\ Quiet
    /\ UNCHANGED <<kbase, secs, mem, log_enabled, pc, idx, delsec>>

(***************************************************************************)
(* vhost_dev_start: guest notifiers, VHOST_SET_FEATURES, SET_MEM_TABLE,   *)
(* vhost_virtqueue_init of each queue (its rings must map whole), then    *)
(* with logging on a log of the current need and SET_LOG_BASE.  The       *)
(* kernel is not attached before start returns, so the call is one step.  *)
(* A failure before SET_LOG_BASE unwinds to the state before the call;    *)
(* only what the kernel was sent differs, and the next successful start   *)
(* sends all of it again, so that outcome is a stuttering step.  A failed *)
(* SET_LOG_BASE unwinds the same way but leaves dev->log allocated.        *)
(***************************************************************************)
StartDev ==
    /\ pc = "idle"
    /\ ~ started
    /\ \A q \in Queues : MapPage(secs, RingPage[q]) # NoHva
    /\ \/ /\ started' = TRUE
          /\ kfeat' = log_enabled
          /\ kmem' = mem
          /\ kvlog' = [q \in Queues |-> log_enabled]
          /\ vring' = [q \in Queues |-> MapPage(secs, RingPage[q])]
          /\ IF log_enabled
             THEN log' = [size |-> LogSize(mem), bits |-> {}] /\ kbase' = TRUE
             ELSE UNCHANGED <<log, kbase>>
       \/ /\ log_enabled /\ CtlFail
          /\ log' = [size |-> LogSize(mem), bits |-> {}]
          /\ UNCHANGED <<started, kfeat, kmem, kvlog, vring, kbase>>
    /\ Quiet
    /\ UNCHANGED <<secs, mem, log_enabled, pc, idx, delsec>>

(* vhost_dev_stop: each queue is cleaned up (VHOST_GET_VRING_BASE, whose  *)
(* failure asserts), which detaches the kernel; then every section syncs   *)
(* the whole address space, and the log is freed.                          *)
StopDev ==
    /\ pc = "idle"
    /\ started
    /\ \/ /\ LET got == SyncAll(log.bits, mem, secs, AddrTop)
             IN  /\ reported' = IF got = {} THEN {} ELSE Reports(got, Head(secs))
                 /\ dropped' = Drops(log.bits \ got, mem, log_enabled)
          /\ started' = FALSE
          /\ log' = NullLog
          /\ kbase' = FALSE
          /\ UNCHANGED pc
       \/ /\ CtlFail
          /\ pc' = "aborted"
          /\ Quiet
          /\ UNCHANGED <<started, log, kbase>>
    /\ UNCHANGED <<secs, mem, kmem, log_enabled, kfeat, kvlog, vring, idx,
                   delsec>>

(* The kernel worker writes guest page p and logs it at its log base.     *)
KernelWrite(p) ==
    /\ started /\ pc # "aborted"
    /\ kbase
    /\ p \in Loggable
    /\ log' = [log EXCEPT !.bits = @ \cup {p}]
    /\ Quiet
    /\ UNCHANGED <<secs, mem, kmem, started, log_enabled, kbase, kfeat, kvlog,
                   vring, pc, idx, delsec>>

(* An assertion or abort() ended the process.                              *)
Aborted ==
    /\ pc = "aborted"
    /\ UNCHANGED vars

Next ==
    \/ \E s \in Sections : RegionAdd(s) \/ RegionDel(s) \/ LogSync(s)
    \/ SetMemTable \/ ShrinkLog
    \/ \E e \in BOOLEAN : MigrationLogStopped(e)
    \/ MigrationLogEnable \/ MigrationLogDisable
    \/ SetLogFeatures \/ SetVringAddr \/ FreeLog
    \/ StartDev \/ StopDev
    \/ \E p \in Pages : KernelWrite(p)
    \/ Aborted

Spec == Init /\ [][Next]_vars

(***************************************************************************)
(* Once a handler has made its first step, the rest of it is straight-line *)
(* code of the same thread, under the global lock, whose ioctls return:    *)
(* nothing it waits for can be withheld.  So the steps that continue a     *)
(* split handler are weakly fair.  Nothing else is: the listener, the      *)
(* migration code, the lifecycle calls and the kernel's writes may stop.  *)
(***************************************************************************)
Fairness ==
    /\ WF_vars(SetMemTable)
    /\ WF_vars(ShrinkLog)
    /\ WF_vars(SetLogFeatures)
    /\ WF_vars(SetVringAddr)
    /\ WF_vars(FreeLog)

FairSpec == Spec /\ Fairness

-----------------------------------------------------------------------------
PCs == {"idle", "sm_push", "sm_shrink", "le_features", "le_vring",
        "ld_vring", "ld_free", "aborted"}

(* The type invariant.  A region never has size 0: the assertions          *)
(* assert(reg->memory_size) of unassign and assign.                        *)
TypeOK ==
    /\ secs \in Seq(Sections)
    /\ mem \subseteq Region
    /\ kmem \subseteq Region
    /\ started \in BOOLEAN
    /\ log_enabled \in BOOLEAN
    /\ log \in [size : Nat, bits : SUBSET Pages]
    /\ kbase \in BOOLEAN
    /\ kfeat \in BOOLEAN
    /\ kvlog \in [Queues -> BOOLEAN]
    /\ vring \in [Queues -> Nat \cup {NoHva}]
    /\ pc \in PCs
    /\ idx \in Queues
    /\ delsec \in Sections \cup {NoSec}
    /\ reported \subseteq [page : Pages, sec : Sections, off : Nat]
    /\ dropped \subseteq [page : Pages, mapped : BOOLEAN, logging : BOOLEAN]

(***************************************************************************)
(* While the kernel runs, every page it may log lies inside the log its   *)
(* base points at, and that log is dev->log, allocated.  This is what the *)
(* grow-before-SET_MEM_TABLE / shrink-after order of vhost_set_memory, the *)
(* resize-before-features order of enabling and the flags-off-before-free *)
(* order of disabling are for.                                             *)
(***************************************************************************)
KernelLogInBounds ==
    (started /\ pc # "aborted" /\ Loggable # {})
        => /\ kbase
           /\ \A p \in Loggable : p \div PagesPerChunk < log.size

(***************************************************************************)
(* A log bit of a page the region table still maps is never freed         *)
(* unharvested while dirty logging goes on: vhost_dev_log_resize and       *)
(* vhost_dev_stop sync the old log before freeing it.                      *)
(***************************************************************************)
NoMappedBitDropped ==
    \A d \in dropped : d.logging => ~ d.mapped

(***************************************************************************)
(* No step loses a dirty page while migration goes on: every bit that     *)
(* leaves dev->log in a step after which logging is still on (a sync, a    *)
(* resize, a stop, a start over an old log) either is reported by a       *)
(* memory_region_set_dirty of that step or is the bit of a page the table *)
(* no longer maps.                                                         *)
(***************************************************************************)
DirtyBitsReported ==
    [][log_enabled' =>
          \A p \in log.bits \ log'.bits :
              p \in MemPages(mem') => p \in {r.page : r \in reported'}]_vars

(* The guest pages mapped by the table, with their host addresses.         *)
MemMap(m) ==
    UNION {{<<p, r.uaddr + p - r.gpa>> : p \in RegionPages(r)} : r \in m}

SectionMap(view) ==
    UNION {{<<p, Hva(t) + p - t.gpa>> : p \in SecPages(t)} :
              t \in {view[i] : i \in 1 .. Len(view)} \ {u \in Sections : u.mr \in Logging}}

(***************************************************************************)
(* The region table never holds two overlapping regions, and between      *)
(* callbacks it maps exactly the pages of the RAM sections present whose  *)
(* region does not log, each at its section's host address: the effect of *)
(* the unassign/assign/cmp/find_reg code over any sequence of events.      *)
(***************************************************************************)
RegionTableExact ==
    /\ \A r1, r2 \in mem : r1 # r2 => ~ RangesOverlap(r1.gpa, r1.size, r2.gpa, r2.size)
    /\ pc = "idle" => MemMap(mem) = SectionMap(secs)

(***************************************************************************)
(* The refinement mapping to the abstract page map: the sections present  *)
(* are mem_sections without the one vhost_region_del is removing, and the *)
(* map is the pages the region table translates.                          *)
(***************************************************************************)
PageMap == INSTANCE GuestPageMap
               WITH present <- {secs[i] : i \in 1 .. Len(secs)} \ {delsec},
                    map     <- MemMap(mem),
                    SecHva  <- Hva

(***************************************************************************)
(* The region table implements the page map: at every step, including the *)
(* steps in the middle of a handler and the kernel's, the pages the table *)
(* translates either stay as they are or change exactly as one section    *)
(* being added or removed changes them, whatever merging, shifting and    *)
(* splitting vhost_dev_assign/unassign_memory do to the regions.          *)
(***************************************************************************)
PageMapRefined == PageMap!Spec

(* No two regions of the table could have been merged: assign merges every *)
(* neighbour and unassign never leaves two pieces adjacent in both spaces. *)
MergeMaximal ==
    \A r1, r2 \in mem : r1 # r2 => ~ Adjacent(r1, r2.gpa, r2.size, r2.uaddr)

(***************************************************************************)
(* Between callbacks, a started device has given the kernel its current   *)
(* table, feature log bit and ring log flags, and with logging on the log *)
(* base is dev->log, large enough for vhost_get_log_size.                  *)
(***************************************************************************)
DeviceSynced ==
    (pc = "idle" /\ started)
        => /\ kmem = mem
           /\ kfeat = log_enabled
           /\ \A q \in Queues : kvlog[q] = log_enabled
           /\ log_enabled => kbase /\ LogSize(mem) <= log.size

(***************************************************************************)
(* What the kernel holds at each point of a handler.  While the table is  *)
(* changed the feature and ring flags agree with log_enabled and the log  *)
(* covers the new table (grown before SET_MEM_TABLE); once the table is   *)
(* pushed it is the kernel's.  vhost_dev_set_log sets VHOST_F_LOG_ALL     *)
(* first and then the ring flags in index order when enabling, clears     *)
(* them in the same order when disabling, and the log is freed only after *)
(* every flag is clear.                                                    *)
(***************************************************************************)
KernelView ==
    /\ pc \in {"sm_push", "sm_shrink", "le_features", "le_vring", "ld_vring",
               "ld_free"} => started
    /\ started /\ pc \in {"idle", "sm_push", "sm_shrink"}
           => /\ kfeat = log_enabled
              /\ \A q \in Queues : kvlog[q] = log_enabled
              /\ log_enabled => kbase /\ LogSize(mem) <= log.size
    /\ started /\ pc \in {"idle", "sm_shrink"} => kmem = mem
    /\ pc \in {"le_features", "le_vring"}
           => /\ ~ log_enabled /\ kbase /\ LogSize(mem) <= log.size /\ kmem = mem
              /\ kfeat = (pc = "le_vring")
              /\ \A q \in Queues : kvlog[q] = (pc = "le_vring" /\ q < idx)
    /\ pc \in {"ld_vring", "ld_free"}
           => /\ log_enabled /\ ~ kfeat /\ kmem = mem
              /\ \A q \in Queues : kvlog[q] = (pc = "ld_vring" /\ q >= idx)

(***************************************************************************)
(* A running queue's ring is never moved under the kernel: between         *)
(* callbacks, the ring page of every queue of a started device is either   *)
(* still mapped at the host address vhost_virtqueue_init gave the kernel   *)
(* (vq->ring), or not mapped by any section at all.  This is what the      *)
(* vhost_verify_ring_mappings assertion in vhost_set_memory is for, over   *)
(* any sequence of section removals and additions.                         *)
(***************************************************************************)
RingNeverRelocated ==
    (started /\ pc = "idle")
        => \A q \in Queues : MapPage(secs, RingPage[q]) \in {vring[q], NoHva}

(* No section of a memory region with dirty logging on (VGA) can be laid   *)
(* over a ring page.  vhost_set_memory re-verifies the rings only when the *)
(* region table changes, and such a section leaves the table as it is.    *)
RingsOutsideLogging ==
    \A s \in Sections :
        s.mr \in Logging => \A q \in Queues : RingPage[q] \notin SecPages(s)

(***************************************************************************)
(* The kernel is never handed a table that moves a ring: while the device *)
(* is started, the table last sent with VHOST_SET_MEM_TABLE translates     *)
(* each queue's ring page, if at all, to the vq->ring address              *)
(* vhost_virtqueue_init gave the kernel for that queue.  This is the      *)
(* guarantee vhost_verify_ring_mappings gives before each push.            *)
(***************************************************************************)
KernelRingsAgree ==
    started =>
        \A q \in Queues :
            \A e \in MemMap(kmem) : e[1] = RingPage[q] => e[2] = vring[q]

(***************************************************************************)
(* Every handler that has started returns: vhost_set_memory gets past its *)
(* push and shrink, and vhost_migration_log gets through the features and *)
(* every queue of the VHOST_SET_VRING_ADDR loop and the free, or the      *)
(* process aborts, however the kernel's writes interleave.                 *)
(***************************************************************************)
HandlerCompletes ==
    pc \in {"sm_push", "sm_shrink", "le_features", "le_vring", "ld_vring", "ld_free"}
        ~> pc \in {"idle", "aborted"}

(* Spec section 7: a failed start restores the prior state of the device, *)
(* and a stopped device (initially, or after vhost_dev_stop) holds no log. *)
StoppedHoldsNoLog ==
    (~ started /\ pc = "idle") => log = NullLog

(* A memory_region_set_dirty made for the section holding the page names  *)
(* the page's own offset in the section's memory region.                   *)
DirtyReportOffset ==
    \A r \in reported :
        r.page \in SecPages(r.sec) => r.off = r.sec.off + (r.page - r.sec.gpa)

(* Each memory_region_set_dirty is made for the section holding the page.  *)
DirtyReportOwner ==
    \A r \in reported : r.page \in SecPages(r.sec)

(* Spec section 8: while dirty logging goes on, a bit set in the log is    *)
(* reported before the log holding it is freed (by a resize or a stop).    *)
NoBitDroppedWhileLogging ==
    \A d \in dropped : ~ d.logging
=============================================================================
