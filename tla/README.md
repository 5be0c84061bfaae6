# TLA+ models of hw/vhost.c (qemu-kvm 1.2.0)

This directory holds TLA+ models and proofs for the user-space side of vhost in
`src/qemu-kvm-1.2.0/hw/vhost.c`. That code keeps the in-kernel vhost worker in
step with the guest's memory map and with migration's dirty logging.

## The system

`vhost.c` is one `struct vhost_dev` driven by three kinds of caller. All of them
run under QEMU's global lock and never overlap:

* **The memory listener.** `vhost_region_add` and `vhost_region_del` keep:
  * `mem_sections`, the RAM sections the memory API reported;
  * `dev->mem`, the region table the kernel uses to translate guest addresses
    (built by `vhost_dev_unassign_memory` and `vhost_dev_assign_memory`).

  `vhost_set_memory` re-verifies the rings and grows or shrinks the dirty log
  around `VHOST_SET_MEM_TABLE`.
* **Migration.**
  * `vhost_log_global_start/stop` switch dirty logging (`vhost_migration_log`,
    `vhost_dev_set_log`). The switch sets `VHOST_F_LOG_ALL` and the per-queue
    `VHOST_VRING_F_LOG` flag one ioctl at a time.
  * `vhost_log_sync` harvests the log into QEMU's dirty bitmap
    (`vhost_sync_dirty_bitmap`, `vhost_dev_sync_region`).
* **The device lifecycle.** `vhost_dev_start` pushes features, the table, the
  rings and the log base. `vhost_dev_stop` cleans the queues up, makes a final
  harvest and frees the log.

The one concurrent actor is the **kernel worker**. While the device is started,
it sets log bits at the last log base it was given. It does so for every page
of its last table under `VHOST_F_LOG_ALL`, and for each used ring whose flag is
set. Every ioctl is a point where the kernel sees new state, so the model splits
a handler into steps at its ioctls. The worker may write between any two of
them.

## Modules

| Module | What it is |
|---|---|
| `RegionTable.tla` | The region table as a set of `[gpa, size, uaddr]` records. The array order is never observed. `UnassignPieces`/`Unassign` are `vhost_dev_unassign_memory` (no overlap / remove / shrink / shift / split). `Adjacent`, `Merged` and `Assign` are `vhost_dev_assign_memory`. `Overlapping` and `CmpMemory` are `vhost_dev_find_reg` and `vhost_dev_cmp_memory`. |
| `VhostDev.tla` | The device, the listener, migration, start/stop and the kernel worker. |
| `MCVhostDev.tla` | Constants for TLC: concrete sections and host addresses. |
| `VhostDevProofs.tla` | TLAPS: lemmas on the table, the log size and the harvest; the type invariant. |
| `VhostDevSyncProofs.tla` | TLAPS: `KernelView` is inductive with `TypeOK`; `DeviceSynced` follows. |
| `GuestPageMap.tla` | The abstract specification of the memory listener: a set of present sections and a map from guest page to host address. `Add` maps a new section's pages (a logging section maps nothing). `Del` unmaps them. |
| `VhostDevMapProofs.tla` | TLAPS: what unassign and assign do to the translations; `RegionTableExact` for every instance; the device refines `GuestPageMap`. |
| `VhostDevMergeProofs.tla` | TLAPS: unassign and assign never leave two regions that could merge (`MergeMaximal`). |
| `VhostDevRingProofs.tla` | TLAPS: the rings of a started device agree with the table and with the kernel's table (`KernelRingsAgree`); `RingNeverRelocated` wherever no logging section covers a ring page. |
| `VhostDevLogProofs.tla` | TLAPS: the bound that `vhost_get_log_size` puts on every page, and the syncs of resize and stop; `KernelLogInBounds`, `NoMappedBitDropped` and the action property `DirtyBitsReported` for every instance. |

### State of `VhostDev`

| Variable | Code |
|---|---|
| `secs` | `dev->mem_sections` (a sequence) |
| `mem` | `dev->mem` |
| `kmem` | the table last sent with `VHOST_SET_MEM_TABLE` |
| `started`, `log_enabled` | the fields of the same name |
| `log` | `dev->log_size` and the set bits, as pages |
| `kbase` | the kernel's log base is the current `dev->log` |
| `kfeat`, `kvlog` | `VHOST_F_LOG_ALL` and the per-queue `VHOST_VRING_F_LOG` as the kernel has them |
| `vring` | `vq->ring` |
| `pc`, `idx`, `delsec` | where a split handler is, its loop index, and the section `vhost_region_del` removes on return |
| `reported`, `dropped` | what the last step passed to `memory_region_set_dirty`, and which set bits it freed unreported |

Addresses are in guest pages. A log word holds `PagesPerChunk` pages.

### Actions

| Action | Code |
|---|---|
| `RegionAdd`, `RegionDel` | Each calls `SetMemory`: `vhost_set_memory` up to its `VHOST_SET_MEM_TABLE`. That covers the no-op checks, unassign/assign, the early return of a stopped device, the ring verification (its assertion failure is `pc = "aborted"`) and the grow-before-push `vhost_dev_log_resize`. |
| `SetMemTable` | The push itself. |
| `ShrinkLog` | The shrink after the push. |
| `LogSync` | `vhost_log_sync`. |
| `MigrationLogStopped`, `MigrationLogEnable`, `MigrationLogDisable`, `SetLogFeatures`, `SetVringAddr`, `FreeLog` | The steps of `vhost_migration_log`. A failed ioctl ends in `abort()` (`Aborted`). |
| `StartDev` | `vhost_dev_start`, as one step: the kernel is not attached before it returns. A failure before `VHOST_SET_LOG_BASE` unwinds to the prior `vhost_dev` state and is a stutter. A failed `VHOST_SET_LOG_BASE` leaves `dev->log` allocated. |
| `StopDev` | `vhost_dev_stop`. The cleanup assertion is `Aborted`. |
| `KernelWrite` | The worker. It is modelled from the spec (§5) because the kernel is not in this repository. |

## Properties and runs

`TypeOK` is the type invariant, and includes the nonzero region size that
unassign and assign assert. The other properties:

* `RegionTableExact`: the table maps exactly the pages of the RAM sections in
  `mem_sections` that do not log, each at its section's host address. A
  section being removed is included until `vhost_region_del` drops it.
* `MergeMaximal` (spec §8): no two regions are adjacent in both guest and host
  address. `Assign` relies on this to merge with at most one neighbour on each
  side.
* `KernelLogInBounds`: every page the kernel may log lies inside the log its
  base points at. This is what grow-before-push and shrink-after-push are for.
* `NoMappedBitDropped`: no step frees a set bit of a page still in the table
  without reporting it. This covers resize, stop and disable.
* `DirtyBitsReported` (an action property, `[][...]_vars`): in every step
  after which logging is still on, each bit that leaves `dev->log` is passed to
  `memory_region_set_dirty` in that step, unless its page is no longer mapped.
  This covers a sync, a resize, a stop, and a start that replaces an old log.
  Unlike `NoMappedBitDropped`, it does not rely on the `dropped` record. It
  relates the log before a step to the log and the reports after it.
* `DeviceSynced`: between handlers, a started device has pushed its table, its
  log flags and a log base large enough for `vhost_get_log_size`.
* `KernelView`: what the kernel holds at each `pc` of each split handler. It is
  the inductive strengthening of `DeviceSynced`.
* `RingNeverRelocated`: between handlers, a started device's ring page is
  mapped at the host address the kernel uses (`vq->ring`), or not mapped at
  all. `vhost_verify_ring_mappings` is meant to guarantee this.
* `KernelRingsAgree`: while the device is started, the table last sent with
  `VHOST_SET_MEM_TABLE` translates each ring page, if at all, to that queue's
  `vq->ring`. This is what the ring check guarantees the kernel. It relates
  `kmem`, pushed in one handler, to `vring`, set by `vhost_dev_start`
  possibly many handlers earlier. Unlike `RingNeverRelocated` it also holds
  with a logging section over a ring: that section changes `mem_sections`
  but not the table.
* `HandlerCompletes` (liveness): every `vhost_set_memory` and every
  `vhost_migration_log` that has begun returns or aborts.
* `PageMapRefined`: the device implements `GuestPageMap` (see Refinement).
* `StoppedHoldsNoLog`: a stopped device between handlers holds no log.

### Refinement

`VhostDev!PageMap` instantiates `GuestPageMap` with:

* `present` = the sections of `mem_sections` without `delsec`, the section
  that `vhost_region_del` is removing;
* `map` = `MemMap(mem)`, the translations of the region table;
* `SecHva` = `Hva`.

A removal is abstract as soon as `vhost_set_memory` has unassigned it, even
though `mem_sections` drops it only on return. With this mapping, merging,
shifting, shrinking and splitting regions are invisible, and every step of
`vhost.c` is an `Add`, a `Del` or a stutter. A logging section is in `present`
but maps nothing, as `vhost_set_memory` turns its add into a removal.

| Run | cfg | Result |
|---|---|---|
| `main` | `MCVhostDev.cfg` | passes (≈737k distinct states, 1.5–3 min): the invariants and the action property `DirtyBitsReported` |
| `queues` | `MCVhostDev_queues.cfg` | passes (≈14k states) |
| `report_offset` | `MCVhostDev_DirtyReportOffset.cfg` | **violated** |
| `report_owner` | `MCVhostDev_DirtyReportOwner.cfg` | **violated** |
| `unmapped_drop` | `MCVhostDev_NoBitDroppedWhileLogging.cfg` | **violated** |
| `relocate` | `MCVhostDev_relocate.cfg` | passes (≈29k states): `RingNeverRelocated` and `KernelRingsAgree` with RAM sections only |
| `progress` | `MCVhostDev_progress.cfg` | passes: `HandlerCompletes` under `FairSpec`, two queues |
| `pagemap` | `MCVhostDev_pagemap.cfg` | passes (≈228k states, about 1 min): `PageMapRefined` |
| `ring_logging` | `MCVhostDev_RingNeverRelocated.cfg` | **violated** |
| `start_leak` | `MCVhostDev_StoppedHoldsNoLog.cfg` | **violated** |

### Bounds

The `main` run uses six pages in three log words of two pages each, one queue
whose ring is on page 1, and seven sections:

* A, B and E are one RAM block contiguous in host memory. Adding them merges
  them. Deleting B splits the merged region; deleting A or E shifts or shrinks it.
* B2 maps page 2 from another block.
* V is a VGA section with logging on. It is removed, never added.
* C lies in the last log word, so the log grows and shrinks around it.
* A2 maps the ring's page from another block, so the ring relocates and the
  verification assertion fires.

With `LogSlack = 1` both the grow and the shrink branches happen. `CtlFail`
lets every ioctl with an error path fail. The `queues` run uses two queues in
two regions, so that the `vhost_dev_set_log` loop iterates and stops half-way.

The `relocate` run replaces the ring's section with RAM from another block,
with failures on. The `pagemap` run checks the refinement on six sections
without failures (the refinement is proved for every instance anyway). The
`ring_logging` run adds a VGA section over the ring's page.

The sections are chosen so that every case of unassign (none, whole, shrink, shift, split) and of assign
(below, above, both, none) can occur. No symmetry is used: sections differ in
their addresses.

### Fairness

`FairSpec` adds weak fairness on the steps that continue a handler already
begun: `SetMemTable`, `ShrinkLog`, `SetLogFeatures`, `SetVringAddr` and
`FreeLog`. In the code these are straight-line statements of one call under
the global lock, and their ioctls return. Nothing else is fair: the memory
API, migration and the device lifecycle call in when they choose, and the
kernel may write or not.

`HandlerCompletes` is checked with `CtlFail = FALSE`. With failures on, fairness
of an action with an `abort()` disjunct is satisfied by aborting. The property
would then hold even for a loop that never advances, and its mutant
(`SetVringAddr_NoAdvance`) would not be caught.

### Mutants

Each property of a passing run is broken by a plausible bug in the code it
is about. The mutant operators sit next to the definitions they replace:

| Mutant | Bug | Breaks |
|---|---|---|
| `Merged_SizeShort` | merged size one short | `TypeOK` |
| `LogSize_NoPlusOne` | log size without `+ 1` | `KernelLogInBounds` |
| `LogResize_FreeFirst` | free before sync | `NoMappedBitDropped`, `DirtyBitsReported` |
| `UnassignPieces_ShiftShort` | shift without `+ 1` | `RegionTableExact` |
| `AdjBelow_NoPlusOne` | adjacency tested as `prlast != start_addr` | `MergeMaximal` |
| `StartDev_NoLogBase` | no `VHOST_SET_LOG_BASE` on start | `DeviceSynced`, `KernelView` |
| `SetVringAddr_OldFlag` | ring flag sent as `dev->log_enabled`, the value the unwind passes | `KernelView`, `DeviceSynced` in the `queues` run |
| `RingsVerified_FirstPage` | only a ring starting at the range's first page is verified | `RingNeverRelocated`, `KernelRingsAgree` |
| `SetVringAddr_NoAdvance` | the `vhost_dev_set_log` loop never advances its index | `HandlerCompletes` |
| `FinishSetMemory_KeepSection` | `vhost_region_del` never drops the section from `mem_sections` | `PageMapRefined` |

## Findings

1. **Wrong dirty offset (line 58).** A harvested bit is reported at
   `offset_within_region + bit * VHOST_LOG_PAGE`, where `bit` is the index
   inside its 64-page word. The word's address and the section's start are
   dropped. Spec §4.3 gives `offset_within_region + (addr + b*PAGE - s)`. A
   dirty page outside the first word of a section is marked at the wrong offset.
2. **Pages reported against the wrong section (lines 280, 950, 97).**
   `vhost_dev_log_resize` and `vhost_dev_stop` sync the whole range once per
   section. The first section drains every word and reports every page against
   its own memory region. `vhost_log_sync` passes one past the section's end,
   which can reach the next section's first word.
3. **Bits of unmapped pages dropped across a resize (line 280).** The resize
   harvest intersects the old log's range with the new table. Bits the kernel
   set for pages that the same call just removed are freed unreported. Spec §8
   says a resize loses no bit, but §4.3's definition of sync has the same gap.
   `NoMappedBitDropped` shows that pages still mapped are never lost.
4. **A logging section over a running ring is never verified (line 390).**
   `vhost_set_memory` turns the add of a section whose region logs into a
   removal. A removal for which `vhost_dev_find_reg` finds no region returns
   before `vhost_verify_ring_mappings`. So once the RAM under a running ring is
   removed, a VGA-like section placed there is never checked, and the kernel
   keeps the old ring address. Spec §4.4 has the same order.
5. **Log leaked by a failed start (line 915).** `vhost_dev_start` allocates
   `hdev->log` (lines 908-910). A failed `VHOST_SET_LOG_BASE` jumps to
   `fail_log` without freeing it. The stopped device keeps the log, and the
   next start overwrites it with a new `g_malloc0`. Spec §4.5 says a failed
   start unwinds in reverse.

## Proofs

The proofs check with `tlapm` (1.4.5) for every value of the constants allowed
by `ConstAssumption`:

| Theorem | Module | Statement |
|---|---|---|
| `TypeCorrect` | `VhostDevProofs` | `Spec => []TypeOK` |
| `KernelViewInvariant` | `VhostDevSyncProofs` | `Spec => []KernelView` |
| `DeviceSyncedInvariant` | `VhostDevSyncProofs` | `Spec => []DeviceSynced` |
| `MapInvariant` | `VhostDevMapProofs` | `Spec => []MInv` |
| `RegionTableExactInvariant` | `VhostDevMapProofs` | `Spec => []RegionTableExact` |
| `PageMapRefinement` | `VhostDevMapProofs` | `Spec => PageMapRefined` |
| `LogInvariant` | `VhostDevLogProofs` | `Spec => []LInv` |
| `KernelLogInBoundsInvariant` | `VhostDevLogProofs` | `Spec => []KernelLogInBounds` |
| `NoMappedBitDroppedInvariant` | `VhostDevLogProofs` | `Spec => []NoMappedBitDropped` |
| `DirtyBitsReportedHolds` | `VhostDevLogProofs` | `Spec => DirtyBitsReported` |
| `MergeMaximalInvariant` | `VhostDevMergeProofs` | `Spec => []MergeMaximal` |
| `RingTableInvariant` | `VhostDevRingProofs` | `Spec => []RInv` |
| `KernelRingsAgreeInvariant` | `VhostDevRingProofs` | `Spec => []KernelRingsAgree` |
| `RingNeverRelocatedInvariant` | `VhostDevRingProofs` | `ASSUME RingsOutsideLogging PROVE Spec => []RingNeverRelocated` |

`ConstAssumption` says that:

* `NQ` and `PagesPerChunk` are positive;
* sections have nonzero size and lie below `AddrTop`;
* ring pages are pages;
* `NoSec` and `NoHva` are fresh.

`DeviceSynced` is not inductive: it says nothing in the middle of a handler.
`KernelView` strengthens it with what the kernel holds at each `pc`. Its `le_`
and `ld_` cases say that queues below `idx` carry the new flag and the others
the old one. The inductive invariant is `IInv == TypeOK /\ KernelView`. There
is one lemma per action, and the key steps are:

* `SetMemory`: with logging on, either the log grew to
  `LogSize(mem1) + LogSlack`, or it was already at least `LogSize(mem1)`.
* `ShrinkLog`: the shrink only happens after `kmem = mem`.
* `SetVringAddr`: after the last queue, every flag equals `log_enabled`.
* `FreeLog`: every flag is already clear when the log is freed.

Lemmas on the table (`UnassignPiecesType`, `MergedType`) prove that no region
of size 0 is ever produced.

**The region table.** `RegionTableExact` is not inductive: in the middle of
`vhost_set_memory` the table has already lost the section that
`mem_sections` still lists. The inductive invariant is
`MInv == TypeOK /\ MRest`, where `MRest` says:

* no two regions share a page (`DisjointTable`);
* no two sections of `mem_sections` share a page (`SecsDisjoint`);
* a pending removal `delsec` is listed, and exists only at `sm_push` or
  `sm_shrink` (`DelsecOK`);
* the table's translations are exactly the mappings of the present non-logging
  sections (`TableMatches`, which is `PageMap!MapExact`).

The argument rests on lemmas about the code's helpers:

* `UnassignMap`: `vhost_dev_unassign_memory` removes exactly the range's
  pages and keeps every other translation, whichever of its five cases
  applies.
* `AssignMap`: on a disjoint table with the range free,
  `vhost_dev_assign_memory` adds exactly the range's translations. The merged
  region's pages are the range plus its neighbours', at the same host
  addresses (`MergedPages`).
* `OverlapIff`: `ranges_overlap` is page intersection.
* `AppendSec` and `RemoveSecExact`: the list operations of
  `vhost_region_add/del`.

Then, for each step:

* `AddStep`: an added RAM section's range is free in the table (`FreeRange`),
  so `vhost_dev_cmp_memory` always reports a change. A logging section's
  double unassign of a free range changes nothing.
* `DelStep`: either way out of `vhost_set_memory` removes the section's
  pages.
* `FinishStep` and `FrameStep`: every other step is an abstract stutter.

`MapStep` combines these into one step of `GuestPageMap` or a stutter, which
gives the refinement.

**The log.** `KernelLogInBounds` rests on three facts.

* `MaxOfBound`: a nonempty set of naturals bounded by `N` has a maximum, and
  `MaxOf` is it. `LogSize` is such a `MaxOf`. The proof takes the least
  element of `{N - x : x \in S}` by `WFMin` of `WellFoundedInduction` over
  `<` on `Nat`, so no induction with an operator parameter is needed.
* `LogSizeBound`: for a table below `AddrTop`, the word of every page of a
  region and of every ring lies below `LogSize`.
* `MemBounded`: every region of the table lies inside a section
  (`TableMatches`), and so below `AddrTop`.

The invariant is not inductive as it stands. The kernel's table `kmem` may
differ from `mem` inside `vhost_set_memory`. `LInv == IInv /\ MRest /\ LogInv`
strengthens it. `LogInv` says:

* the kernel's table lies below `AddrTop`;
* at `sm_push` with logging on, the log covers the table the kernel still
  holds;
* in the disabling loop (`ld_vring`, `ld_free`) the log base is set and covers
  the table;
* every set bit lies in a word of the log (`BitsInLog`), so the kernel's
  writes never leave it;
* `NoMappedBitDropped` itself.

`ViewCovered` shows that, at every `pc` of a running device, a set log flag
means the log base is set and covers `kmem`. From this, `LInvBounds` derives
`KernelLogInBounds`.

For `NoMappedBitDropped`, the lemmas are these:

* `OldLogLast`: the range a resize syncs ends past every set bit. This
  follows from `BitsInLog`, through `WordBound`. With `log_size` 0 the range
  is the whole address space.
* `HarvestMapped`: a sync of that range over a table harvests every set bit of
  a page the table maps.
* `SyncNoDrop`: nothing mapped is freed unharvested, provided some section
  carries the sync. With an empty `mem_sections` the table maps nothing
  (`MemBounded`).

Each action has a lemma. `SetMemoryLogInv` carries the grow-before-push
argument: the kernel still holds the idle table, which is `mem`, and the log
covers it or has just grown past `LogSize(mem1)`.

`DirtyBitsReported` needs one more invariant, `StoppedNoBits`: a stopped
device holds no set bit, so the log that `vhost_dev_start` replaces is empty.
The argument has two parts:

* `SyncedOrDropped`: in a resize or a stop, a lost bit was either harvested,
  and then reported, or freed unharvested, and then `NoMappedBitDropped` in
  the next state excludes a mapped page.
* `NextReported`: the step lemma, combined with the invariants by `PTL`.

**Merging.** Two regions could merge when one ends where the other begins,
in guest-physical and in userspace address alike (`Touch`). `MergeMaximal`
says no two regions of the table touch (`Maximal`, by `MaximalIff`). It is
inductive with `TypeOK` alone:

* `PieceShape`: a piece that `vhost_dev_unassign_memory` leaves of a region
  keeps the region's host offset. It starts at the region's start or just
  past the range, and it ends at the region's end or just before the range.
  Its first and last pages lie outside the range.
* `PiecesTouch`: two pieces that touch come from regions that touched. That is
  impossible for two distinct regions of a maximal table. A region cannot
  touch itself.
* `AssignMaximal`: a region that touches the merged one touches the new range,
  and so was one of the neighbours merged away. Or it touches the neighbour
  below or above that the merge absorbed, which is ruled out because the
  table was maximal. The merged region lies on the offset of its neighbours.

Neither argument needs the table to be disjoint. `AdjBelow_NoPlusOne`, the
mutant of the merge test, breaks exactly `AssignMaximal`.

**The rings.** `RingTable` says that, while the device is started, every
translation of a ring page in the region table is that queue's `vq->ring`.
It holds for every instance, and `RInv == MInv /\ RingTable` is inductive:

* `AddRing`: `vhost_region_add` adds translations only for the new section's
  pages (`AddStep`). If one of them is a ring page and the table changed on a
  started device, `vhost_set_memory` ran the ring check over `mem_sections`
  with the section appended (`RingInRange`: a one-page range at the ring
  overlaps the section). The new section shares no page with the listed ones
  (`AddedApart`), so `cpu_physical_memory_map` finds the ring in it
  (`MapPageAt`), and the check compares exactly the new translation with
  `vq->ring`.
* `DelRing`: a removal only takes translations away.
* `StartRing`: `vhost_dev_start` sets each `vq->ring` by mapping the ring page
  over `mem_sections`. Between callbacks the table translates each page as the
  RAM section holding it does (`TableMatches`), and that section is the one
  the mapping finds.
* Every other step keeps the table, the rings and `started` (`RingFrame`).

`KernelRingsAgree` follows step by step. Every `VHOST_SET_MEM_TABLE` pushes
`mem` while `RingTable` holds for it (`KernelRingPush`), and no other step
changes `kmem` or `vq->ring` (`KernelRingFrame`).

`RingNeverRelocated` is false in general. The `ring_logging` run violates it
with a logging section over a ring page: `vhost_set_memory` turns that add
into a removal of a range the table does not map, so no check runs. The
theorem therefore assumes `RingsOutsideLogging`: no section of a logging
region covers a ring page. The `relocate` and `main` instances satisfy it.
Under it, `RingFromTable` shows that the section holding a ring page between
callbacks is a RAM section the table translates, so `RingTable` gives the
result. The hypothesis is exactly what the violation shows to be needed.

### Model-checked only

* `HandlerCompletes` is a liveness property under fairness, with `ENABLED` in
  `WF`. That is beyond what TLAPS can prove here.

## Not modelled

* `vhost_dev_init` (beyond producing `Init`), `vhost_dev_cleanup` and
  `vhost_dev_query`.
* The host notifiers (`vhost_dev_enable/disable_notifiers`).
* The empty listener callbacks: `begin`, `commit`, `region_nop`,
  `eventfd_add/del`, and the FIXME `log_start/log_stop`.
* The desc/avail/used mappings of `vhost_virtqueue_init`, folded into the
  ring page.
* `vhost_section`: every modelled section is RAM of the system address space.
* The log buffer's contents beyond the set bits, and memory ownership: the
  leak of finding 5 is shown by the log staying allocated on a stopped
  device. A second allocation is not modelled.
