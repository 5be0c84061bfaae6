------------------------- MODULE VhostDevSyncProofs -------------------------
(***************************************************************************)
(* Proofs that the kernel's view of the device (KernelView) is kept by     *)
(* every handler of hw/vhost.c, for every number of queues, sections and   *)
(* log geometry, and hence that the device is in step with the kernel      *)
(* between handlers (DeviceSynced).                                        *)
(*                                                                         *)
(* KernelView is inductive only together with TypeOK: the loop of          *)
(* vhost_dev_set_log needs idx \in 1 .. NQ and LogSize(mem) to be a        *)
(* number.  Each step of the proof that a handler keeps it settles the     *)
(* arithmetic (log sizes, the loop counter) with SMT first and leaves the  *)
(* Boolean flags to Zenon, which takes those facts as atoms.               *)
(***************************************************************************)
EXTENDS VhostDevProofs

IInv == TypeOK /\ KernelView

(* vhost_dev_init leaves the device stopped with no log and no flags; the *)
(* kernel view holds vacuously.                                            *)
LEMMA InitKernelView == Init => KernelView
BY Zenon DEF Init, KernelView

-----------------------------------------------------------------------------
(* The second push of vhost_set_memory: VHOST_SET_MEM_TABLE hands the new  *)
(* table to the kernel before the handler returns or shrinks the log.     *)
LEMMA SetMemTableKernelView ==
    ASSUME TypeOK, KernelView, SetMemTable
    PROVE  KernelView'
<1>1. /\ pc = "sm_push" /\ kmem' = mem /\ (pc' = "sm_shrink" \/ pc' = "idle")
      /\ UNCHANGED <<mem, started, log_enabled, log, kbase, kfeat, kvlog, idx>>
  BY Zenon DEF SetMemTable, FinishSetMemory
<1>. QED  BY <1>1, Zenon DEF KernelView

(* The shrink after the push: the new log is exactly vhost_get_log_size.  *)
LEMMA ShrinkLogKernelView ==
    ASSUME TypeOK, KernelView, ShrinkLog
    PROVE  KernelView'
<1>1. /\ pc = "sm_shrink" /\ pc' = "idle"
      /\ log' = [size |-> LogSize(mem), bits |-> {}] /\ kbase' = TRUE
      /\ UNCHANGED <<mem, kmem, started, log_enabled, kfeat, kvlog, idx>>
  BY Zenon DEF ShrinkLog, LogResize
<1>2. LogSize(mem') <= log'.size
  BY <1>1, LogSizeType DEF TypeOK
<1>. QED  BY <1>1, <1>2, Zenon DEF KernelView

(* A harvest clears bits and keeps the log.                                *)
LEMMA LogSyncKernelView ==
    ASSUME TypeOK, KernelView, NEW s \in Sections, LogSync(s)
    PROVE  KernelView'
<1>1. /\ log' = [log EXCEPT !.bits = @ \ Harvested(log.bits, mem, s.gpa, s.gpa + s.size)]
      /\ UNCHANGED <<mem, kmem, started, log_enabled, kbase, kfeat, kvlog, pc, idx>>
  BY Zenon DEF LogSync
<1>2. log'.size = log.size
  BY <1>1 DEF TypeOK
<1>. QED  BY <1>1, <1>2, Zenon DEF KernelView

(* The switch on a stopped device only records log_enabled.                *)
LEMMA MigrationLogStoppedKernelView ==
    ASSUME TypeOK, KernelView, NEW e \in BOOLEAN, MigrationLogStopped(e)
    PROVE  KernelView'
BY Zenon DEF MigrationLogStopped, KernelView

(* The kernel's write only sets a bit.                                     *)
LEMMA KernelWriteKernelView ==
    ASSUME TypeOK, KernelView, NEW p \in Pages, KernelWrite(p)
    PROVE  KernelView'
<1>1. /\ log' = [log EXCEPT !.bits = @ \cup {p}]
      /\ UNCHANGED <<mem, kmem, started, log_enabled, kbase, kfeat, kvlog, pc, idx>>
  BY Zenon DEF KernelWrite
<1>2. log'.size = log.size
  BY <1>1 DEF TypeOK
<1>. QED  BY <1>1, <1>2, Zenon DEF KernelView

(* vhost_dev_stop leaves the device stopped, or aborts.                    *)
LEMMA StopDevKernelView ==
    ASSUME TypeOK, KernelView, StopDev
    PROVE  KernelView'
<1>1. pc = "idle" /\ ((~ started' /\ pc' = "idle") \/ pc' = "aborted")
  BY Zenon DEF StopDev
<1>. QED  BY <1>1, Zenon DEF KernelView

(* The end of disabling: every flag is already clear when the log is freed *)
(* and log_enabled drops.                                                  *)
LEMMA FreeLogKernelView ==
    ASSUME TypeOK, KernelView, FreeLog
    PROVE  KernelView'
<1>1. /\ pc = "ld_free" /\ pc' = "idle" /\ log_enabled' = FALSE
      /\ UNCHANGED <<mem, kmem, started, kfeat, kvlog>>
  BY Zenon DEF FreeLog
<1>2. /\ kfeat = FALSE /\ kmem = mem
      /\ \A q \in Queues : kvlog[q] = (pc = "ld_vring" /\ q >= idx)
  BY <1>1 DEF KernelView
<1>3. \A q \in Queues : kvlog[q] = FALSE
  BY <1>1, <1>2 DEF TypeOK
<1>. QED  BY <1>1, <1>2, <1>3, Zenon DEF KernelView

(* Enabling on a running device: the log is resized to the current need   *)
(* and its base pushed before any flag is set.                             *)
LEMMA MigrationLogEnableKernelView ==
    ASSUME TypeOK, KernelView, MigrationLogEnable
    PROVE  KernelView'
<1>0. log_enabled \in BOOLEAN /\ started \in BOOLEAN
  BY DEF TypeOK
<1>1. /\ pc = "idle" /\ started /\ log_enabled = FALSE /\ pc' = "le_features"
      /\ log' = [size |-> LogSize(mem), bits |-> {}] /\ kbase' = TRUE
      /\ UNCHANGED <<mem, kmem, started, log_enabled, kfeat, kvlog, idx>>
  BY <1>0, Zenon DEF MigrationLogEnable, LogResize
<1>2. LogSize(mem') <= log'.size
  BY <1>1, LogSizeType DEF TypeOK
<1>3. kfeat = FALSE /\ kmem = mem /\ \A q \in Queues : kvlog[q] = FALSE
  BY <1>1 DEF KernelView
<1>4. \A q \in Queues : kvlog'[q] = (pc' = "le_vring" /\ q < idx')
  BY <1>1, <1>3
<1>. QED  BY <1>1, <1>2, <1>3, <1>4, Zenon DEF KernelView

(* Disabling starts by clearing VHOST_F_LOG_ALL; every ring still logs.    *)
LEMMA MigrationLogDisableKernelView ==
    ASSUME TypeOK, KernelView, MigrationLogDisable
    PROVE  KernelView'
<1>1. /\ pc = "idle" /\ started /\ log_enabled = TRUE
      /\ kvlog' = kvlog /\ UNCHANGED <<mem, kmem, started, log_enabled>>
      /\ \/ kfeat' = FALSE /\ pc' = "ld_vring" /\ idx' = 1
         \/ pc' = "aborted"
  BY Zenon DEF MigrationLogDisable
<1>2. kmem = mem /\ \A q \in Queues : kvlog[q] = TRUE
  BY <1>1 DEF KernelView
<1>3. CASE pc' = "aborted"
  BY <1>1, <1>3, Zenon DEF KernelView
<1>4. CASE kfeat' = FALSE /\ pc' = "ld_vring" /\ idx' = 1
  <2>1. \A q \in Queues : q >= idx'
    BY <1>4 DEF Queues
  <2>2. \A q \in Queues : kvlog'[q] = (pc' = "ld_vring" /\ q >= idx')
    BY <1>1, <1>2, <1>4, <2>1, Zenon
  <2>. QED  BY <1>1, <1>2, <1>4, <2>2, Zenon DEF KernelView
<1>. QED  BY <1>1, <1>3, <1>4

(* Enabling, after the resize: VHOST_F_LOG_ALL before any ring flag.       *)
LEMMA SetLogFeaturesKernelView ==
    ASSUME TypeOK, KernelView, SetLogFeatures
    PROVE  KernelView'
<1>1. /\ pc = "le_features" /\ kvlog' = kvlog
      /\ UNCHANGED <<mem, kmem, started, log_enabled, log, kbase>>
      /\ \/ kfeat' = TRUE /\ pc' = "le_vring" /\ idx' = 1
         \/ pc' = "aborted"
  BY Zenon DEF SetLogFeatures
<1>2. \A q \in Queues : kvlog[q] = FALSE
  BY <1>1 DEF KernelView
<1>3. CASE pc' = "aborted"
  BY <1>1, <1>3, Zenon DEF KernelView
<1>4. CASE kfeat' = TRUE /\ pc' = "le_vring" /\ idx' = 1
  <2>1. \A q \in Queues : ~ (q < idx')
    BY <1>4 DEF Queues
  <2>2. \A q \in Queues : kvlog'[q] = (pc' = "le_vring" /\ q < idx')
    BY <1>1, <1>2, <2>1, Zenon
  <2>. QED  BY <1>1, <1>4, <2>2, Zenon DEF KernelView
<1>. QED  BY <1>1, <1>3, <1>4

(* vhost_dev_start pushes the features, the table, the ring flags and,    *)
(* with logging on, a log of the current need, all from dev's own state.  *)
LEMMA StartDevKernelView ==
    ASSUME TypeOK, KernelView, StartDev
    PROVE  KernelView'
<1>0. log_enabled \in BOOLEAN /\ started \in BOOLEAN
  BY DEF TypeOK
<1>1. /\ pc = "idle" /\ pc' = "idle" /\ started = FALSE
      /\ UNCHANGED <<mem, log_enabled>>
      /\ \/ /\ started' = TRUE /\ kfeat' = log_enabled /\ kmem' = mem
            /\ kvlog' = [q \in Queues |-> log_enabled]
            /\ IF log_enabled
               THEN log' = [size |-> LogSize(mem), bits |-> {}] /\ kbase' = TRUE
               ELSE UNCHANGED <<log, kbase>>
         \/ started' = FALSE
  BY <1>0, Zenon DEF StartDev
<1>2. LogSize(mem) <= [size |-> LogSize(mem), bits |-> {}].size
  BY LogSizeType DEF TypeOK
<1>. QED  BY <1>1, <1>2, Zenon DEF KernelView

(***************************************************************************)
(* One VHOST_SET_VRING_ADDR of the loop of vhost_dev_set_log: the queues  *)
(* below idx have the new flag, the others the old one.  After the last   *)
(* queue, enabling has every flag set and records log_enabled; disabling  *)
(* has every flag clear before the log is freed.                           *)
(***************************************************************************)
LEMMA SetVringAddrKernelView ==
    ASSUME TypeOK, KernelView, SetVringAddr
    PROVE  KernelView'
<1>0. NQ \in Nat /\ idx \in 1 .. NQ
  BY ConstAssumption DEF TypeOK, Queues
<1>9. kvlog \in [Queues -> BOOLEAN] /\ log_enabled \in BOOLEAN
  BY DEF TypeOK
<1>1. /\ pc \in {"le_vring", "ld_vring"}
      /\ UNCHANGED <<mem, kmem, started, log, kbase, kfeat>>
      /\ \/ /\ kvlog' = [kvlog EXCEPT ![idx] = (pc = "le_vring")]
            /\ idx' = IF idx < NQ THEN idx + 1 ELSE idx
            /\ pc' = IF idx < NQ THEN pc
                     ELSE IF pc = "le_vring" THEN "idle" ELSE "ld_free"
            /\ log_enabled' = (IF idx = NQ /\ pc = "le_vring" THEN TRUE ELSE log_enabled)
         \/ pc' = "aborted"
  BY Zenon DEF SetVringAddr
<1>2. CASE pc' = "aborted"
  BY <1>1, <1>2, Zenon DEF KernelView
<1>3. ASSUME /\ kvlog' = [kvlog EXCEPT ![idx] = (pc = "le_vring")]
             /\ idx' = IF idx < NQ THEN idx + 1 ELSE idx
             /\ pc' = IF idx < NQ THEN pc
                      ELSE IF pc = "le_vring" THEN "idle" ELSE "ld_free"
             /\ log_enabled' = (IF idx = NQ /\ pc = "le_vring" THEN TRUE ELSE log_enabled)
      PROVE  KernelView'
  <2>0. \A q \in Queues : kvlog'[q] = IF q = idx THEN (pc = "le_vring") ELSE kvlog[q]
    BY <1>0, <1>3, <1>9 DEF Queues
  <2>1. CASE pc = "le_vring" /\ idx < NQ
    <3>1. idx' = idx + 1 /\ idx # NQ
      BY <1>0, <1>3, <2>1
    <3>2. pc' = "le_vring" /\ log_enabled' = log_enabled
      BY <1>3, <2>1, <3>1, Zenon
    <3>3. \A q \in Queues : kvlog[q] = (q < idx)
      BY <2>1 DEF KernelView
    <3>4. ASSUME NEW q \in Queues PROVE kvlog'[q] = (pc' = "le_vring" /\ q < idx')
      <4>1. (q < idx') <=> (q < idx \/ q = idx)
        BY <1>0, <3>1 DEF Queues
      <4>. QED  BY <2>0, <2>1, <3>2, <3>3, <4>1
    <3>. QED  BY <1>1, <2>1, <3>2, <3>4, Zenon DEF KernelView
  <2>2. CASE pc = "le_vring" /\ ~ (idx < NQ)
    <3>1. idx = NQ /\ \A q \in Queues : q # idx => q < idx
      BY <1>0, <2>2 DEF Queues
    <3>2. pc' = "idle" /\ log_enabled' = TRUE
      BY <1>3, <2>2, <3>1, Zenon
    <3>3. \A q \in Queues : kvlog[q] = (q < idx)
      BY <2>2 DEF KernelView
    <3>4. \A q \in Queues : kvlog'[q] = log_enabled'
      BY <2>0, <2>2, <3>1, <3>2, <3>3, Zenon
    <3>. QED  BY <1>1, <2>2, <3>2, <3>4, Zenon DEF KernelView
  <2>3. CASE pc = "ld_vring" /\ idx < NQ
    <3>1. idx' = idx + 1 /\ idx # NQ
      BY <1>0, <1>3, <2>3
    <3>2. pc' = "ld_vring" /\ log_enabled' = log_enabled
      BY <1>3, <2>3, <3>1, Zenon
    <3>3. \A q \in Queues : kvlog[q] = (q >= idx)
      BY <2>3 DEF KernelView
    <3>4. ASSUME NEW q \in Queues PROVE kvlog'[q] = (pc' = "ld_vring" /\ q >= idx')
      <4>1. (q >= idx') <=> (q >= idx /\ q # idx)
        BY <1>0, <3>1 DEF Queues
      <4>. QED  BY <2>0, <2>3, <3>2, <3>3, <4>1
    <3>. QED  BY <1>1, <2>3, <3>2, <3>4, Zenon DEF KernelView
  <2>4. CASE pc = "ld_vring" /\ ~ (idx < NQ)
    <3>1. idx = NQ /\ \A q \in Queues : q # idx => ~ (q >= idx)
      BY <1>0, <2>4 DEF Queues
    <3>2. pc' = "ld_free" /\ log_enabled' = log_enabled
      BY <1>3, <2>4, <3>1, Zenon
    <3>3. \A q \in Queues : kvlog[q] = (q >= idx)
      BY <2>4 DEF KernelView
    <3>4. \A q \in Queues : kvlog'[q] = (pc' = "ld_vring" /\ q >= idx')
      BY <2>0, <2>4, <3>1, <3>2, <3>3
    <3>. QED  BY <1>1, <2>4, <3>2, <3>4, Zenon DEF KernelView
  <2>. QED  BY <1>1, <2>1, <2>2, <2>3, <2>4
<1>. QED  BY <1>1, <1>2, <1>3

(***************************************************************************)
(* vhost_set_memory up to VHOST_SET_MEM_TABLE: when the table changes on   *)
(* a running device with logging on, a log smaller than the new table's   *)
(* need grows to need + VHOST_LOG_BUFFER and its base is pushed first, so *)
(* the kernel's log covers the table it is about to receive.               *)
(***************************************************************************)
LEMMA SetMemoryKernelView ==
    ASSUME TypeOK, KernelView, NEW s \in Sections, NEW add \in BOOLEAN,
           pc = "idle", SetMemory(s, add),
           UNCHANGED <<kmem, started, log_enabled, kfeat, kvlog, vring, idx>>
    PROVE  KernelView'
<1> DEFINE view  == IF add THEN Append(secs, s) ELSE secs
           after == IF add THEN view ELSE RemoveSec(secs, s)
           doAdd == add /\ s.mr \notin Logging
           mem1  == IF doAdd
                    THEN Assign(Unassign(mem, s.gpa, s.size), s.gpa, s.size, Hva(s))
                    ELSE Unassign(Unassign(mem, s.gpa, s.size), s.gpa, s.size)
           noop  == IF doAdd THEN ~ CmpMemory(mem, s.gpa, s.size, Hva(s))
                    ELSE Overlapping(mem, s.gpa, s.size) = {}
<1>1. mem1 \subseteq Region
  <2>1. s.gpa \in Nat /\ s.size \in Nat \ {0} /\ Hva(s) \in Nat
    BY SectionType
  <2>2. Unassign(mem, s.gpa, s.size) \in SUBSET Region
    BY <2>1, UnassignType DEF TypeOK
  <2>. QED  BY <2>1, <2>2, UnassignType, AssignType
<1>2. LogSize(mem1) \in Nat /\ log.size \in Nat /\ LogSlack \in Nat
  BY <1>1, LogSizeType, ConstAssumption DEF TypeOK
<1>. HIDE DEF view, after, doAdd, mem1, noop
<1>3. \/ /\ noop \/ ~ started
         /\ mem' = IF noop THEN mem ELSE mem1
         /\ UNCHANGED <<log, kbase, pc>>
      \/ pc' = "aborted"
      \/ /\ ~ noop /\ started
         /\ mem' = mem1
         /\ pc' = "sm_push"
         /\ IF log_enabled /\ log.size < LogSize(mem1)
            THEN LogResize(LogSize(mem1) + LogSlack, mem1, view)
            ELSE UNCHANGED <<log, kbase>>
  BY Zenon DEF SetMemory, view, after, doAdd, mem1, noop
<1>4. CASE /\ noop \/ ~ started
           /\ mem' = IF noop THEN mem ELSE mem1
           /\ UNCHANGED <<log, kbase, pc>>
  <2>1. CASE started
    <3>1. mem' = mem
      BY <1>4, <2>1, Zenon
    <3>. QED  BY <1>4, <3>1, Zenon DEF KernelView
  <2>2. CASE ~ started
    BY <1>4, <2>2, Zenon DEF KernelView
  <2>. QED  BY <2>1, <2>2
<1>5. CASE pc' = "aborted"
  BY <1>5, Zenon DEF KernelView
<1>6. CASE /\ ~ noop /\ started
           /\ mem' = mem1
           /\ pc' = "sm_push"
           /\ IF log_enabled /\ log.size < LogSize(mem1)
              THEN LogResize(LogSize(mem1) + LogSlack, mem1, view)
              ELSE UNCHANGED <<log, kbase>>
  <2>1. /\ kfeat = log_enabled /\ \A q \in Queues : kvlog[q] = log_enabled
        /\ log_enabled => kbase
    BY <1>6, Zenon DEF KernelView
  <2>2. CASE log_enabled /\ log.size < LogSize(mem1)
    <3>1. log' = [size |-> LogSize(mem1) + LogSlack, bits |-> {}] /\ kbase' = TRUE
      BY <1>6, <2>2, Zenon DEF LogResize
    <3>2. LogSize(mem1) <= log'.size
      BY <1>2, <3>1
    <3>. QED  BY <1>6, <2>1, <3>1, <3>2, Zenon DEF KernelView
  <2>3. CASE ~ (log_enabled /\ log.size < LogSize(mem1))
    <3>1. log' = log /\ kbase' = kbase
      BY <1>6, <2>3, Zenon
    <3>2. ~ (log.size < LogSize(mem1)) => LogSize(mem1) <= log.size
      BY <1>2
    <3>. QED  BY <1>6, <2>1, <2>3, <3>1, <3>2, Zenon DEF KernelView
  <2>. QED  BY <2>2, <2>3
<1>. QED  BY <1>3, <1>4, <1>5, <1>6

-----------------------------------------------------------------------------
(* A process that has aborted, and a stuttering step, change nothing.      *)
LEMMA UnchangedKernelView ==
    ASSUME KernelView, Aborted \/ UNCHANGED vars
    PROVE  KernelView'
<1>1. UNCHANGED vars
  BY Zenon DEF Aborted
<1>2. UNCHANGED <<mem, kmem, started, log_enabled, log, kbase, kfeat, kvlog, pc, idx>>
  BY <1>1, Zenon DEF vars
<1>. QED  BY <1>2, Zenon DEF KernelView

LEMMA NextKernelView == TypeOK /\ KernelView /\ [Next]_vars => KernelView'
<1> SUFFICES ASSUME TypeOK, KernelView, [Next]_vars PROVE KernelView'
  OBVIOUS
<1>1. ASSUME NEW s \in Sections, RegionAdd(s) \/ RegionDel(s) PROVE KernelView'
  <2>1. CASE RegionAdd(s)
    BY <2>1, SetMemoryKernelView DEF RegionAdd
  <2>2. CASE RegionDel(s)
    BY <2>2, SetMemoryKernelView DEF RegionDel
  <2>. QED  BY <1>1, <2>1, <2>2
<1>. QED
  BY <1>1, SetMemTableKernelView, ShrinkLogKernelView, LogSyncKernelView,
     MigrationLogStoppedKernelView, MigrationLogEnableKernelView,
     MigrationLogDisableKernelView, SetLogFeaturesKernelView,
     SetVringAddrKernelView, FreeLogKernelView, StartDevKernelView,
     StopDevKernelView, KernelWriteKernelView, UnchangedKernelView
  DEF Next

(***************************************************************************)
(* At every step of every handler the kernel holds what KernelView says:  *)
(* the table is pushed before the log shrinks, the log grows before the   *)
(* table is pushed, the ring flags follow VHOST_F_LOG_ALL in index order  *)
(* when logging starts and the log is freed only after every flag is      *)
(* cleared when it stops.                                                  *)
(***************************************************************************)
THEOREM KernelViewInvariant == Spec => []KernelView
<1>1. Init => IInv
  BY InitType, InitKernelView DEF IInv
<1>2. IInv /\ [Next]_vars => IInv'
  BY NextType, NextKernelView DEF IInv
<1>3. IInv => KernelView
  BY DEF IInv
<1>. QED  BY <1>1, <1>2, <1>3, PTL DEF Spec

(* Between callbacks a started device has pushed its whole state: the     *)
(* table the kernel uses is dev->mem, its feature and ring log flags are   *)
(* dev->log_enabled, and with logging on its log base is dev->log, large   *)
(* enough for vhost_get_log_size.                                          *)
LEMMA KernelViewSynced == KernelView => DeviceSynced
BY Zenon DEF KernelView, DeviceSynced

THEOREM DeviceSyncedInvariant == Spec => []DeviceSynced
BY KernelViewInvariant, KernelViewSynced, PTL
=============================================================================
