# Verification of the Radeon 9200 Picasso96 driver

TLA+ modules, TLC configurations and TLAPS proofs for the driver in `src/`: a
Picasso96 chip driver for the ATI Radeon 9200 (R200) on 68k Amigas, with a 3D
service ("Radeon3D") that lends the card's command processor (CP) to client
programs, some of them on a PowerPC.

## 1. The system

| Part | Code (`src/src/` unless given) | State it keeps | Operations |
|---|---|---|---|
| CP ring | `radeon_cp.c` | ring in VRAM, `WritePointer`, RB_RPTR, RB_WPTR, `Ready` | reserve, commit (wrap, pad, post, read back, kick), abort, configure |
| Fences | `radeon_cp.c` | `NextFence`, `PendingFence`, `PendingUnfenced`, scratch register | submit, test, wait, drain, abort, recover |
| Engine arbitration | `radeon_accel.c` | `AccelState`, `AccelPending`, `Need2DRestore`, `AccelRecoveryTried` | prepare for 2D or 3D, synchronise, recover, software fallback |
| Engine lease | `radeon3d_service.c`, `radeon_accel.c` | `LeaseActive`, `LeaseDevice`, `LeaseGrantTicks` | acquire, heartbeat, release, expiry and reclaim |
| PowerPC programs | `tools/phase2`, `tools/phase3` | a control block in VRAM, a ring pointer and fence of their own | publish, poll through a cache, submit, answer |
| Service sessions | `radeon3d_service.c`, `radeon9200.c` | session lists, generation, calls in flight, owner pins | open, close, lock, unlock, attach, detach, invalidate |
| Pools | `radeon3d_service.c` | segment mask, surface table | allocate, free, import, release |
| Requests | `radeon3d_service.c` | none; the client's memory | validate batches, dispatches, bitmaps, buffers, fences |
| Samples | `radeon3d_service.c`, `tools/radeon3dinfo.c` | a ring of samples | record, dump without a lock |
| 2D operations and caches | `radeon_accel.c` | register shadow, host data path, line surface, staged line | the Picasso96 callbacks |
| Private VRAM | `dma.c` | `MemorySize` | allocate, free |
| Bring-up, library | `radeon9200.c`, `radeon_cp.c`, `library.c` | board record, bus registers, open counts | LibInit to LibExpunge, InitChip, features, release |
| BIOS | `radeon_bios.c` | a ROM copy, borrowed registers | read, interpret tables, POST, settle memory |
| Display, cursor | `radeon_mode.c`, `radeon_cursor.c`, `radeon9200.c` | CRTC, PLL, DAC, transmitter, sprite | SetGC, SetDAC, SetClock, SetPanning, SetDisplay, SetDPMSLevel, sprite calls |
| Debug build | `radeon_debug.c`, `radeon_cp.c` | counters, probe results | boot probes, accounting hooks |

**How they meet.** Picasso96 calls the 2D and display callbacks with
`BoardLock` held; client tasks call the service, which checks the session under
`ServiceLock`, takes `BoardLock`, and checks again (`LockServiceBoard`). Both
then reach the engine: 2D by writing registers, 3D through the CP ring.
`AccelPending` is the single tag for whose work is unfinished. A timeout
anywhere ends in `RecoverEngine`, which resets the chip, restarts the ring and
advances the service generation, so that every session becomes stale in the
middle of other tasks' calls. A lease holder writes the ring and its write
pointer itself, under no lock at all. Private VRAM is carved off the memory
that Picasso96, the surfaces and the cursor live in.

**What is hard.** Two locks taken in an order that requires a check, a release
and a second check; sessions closed while calls are in flight and freed later;
posted PCI writes; a ring that wraps with one slot kept free; sequence numbers
that skip zero, wrap as signed 32-bit numbers, are lost to failed commits and
start again after a recovery; one pending tag for two engines; a recovery that
may be tried once; fence-less submissions; a lease that expires, is reclaimed
or outlives its session; a block that two processors read without coherent
caches; registers not written because a shadow says so; copies between
overlapping rectangles; a start that fails at any of eight places; display
calls in any order. `PROJECT.json` lists each at its line.

**What makes each part correct.** Ring: nothing unread is overwritten, what is
announced has arrived, a commit returns. Fences: none is seen early, waits
wait for what they say. Arbitration: what is in flight is what the tag names,
the CPU draws alone, an unsafe engine stays off. Sessions: no use after free,
balanced counts and pins, a call's body has the board, no deadlock. Pools:
disjoint, within bounds, not given away while fenced work draws there.
Requests: whatever a client does to its memory, the engine stays inside what
the session owns. Samples: no torn sample is taken. 2D: painted is what was
asked for. Bring-up: what is taken is given back, also after a failure
half-way. BIOS: borrowed registers are returned without undoing what the
tables set up, tables do not lead outside the image. Display: what is lit is a valid mode with its clock, palette and
cursor.

## 2. The modules

| Module | Models | Run |
|---|---|---|
| `CpQueue` | abstract promise of the ring: a bounded FIFO of dwords, a submission enters whole | CpRing |
| `CpRing` | the ring, dword by dword | CpRing, CpRingStall |
| `Service` | sessions, locks, pins, attach and detach, segments | Service, ServiceReattach |
| `Draw2D` | the 2D callbacks, their caches and what is painted | Draw2D |
| `Bios`, `Bringup`, `Engine`, `Display` | POST; library and board; who has the engine; modes and cursor | Driver (and EngineRingInSync, EngineReleaseKeepsDesktop, DisplayDark) |
| `Driver` | the four side by side | Driver |
| `CpFence`, `Pools`, `Samples`, `Requests`, `DirectRing`, `OneShot`, `Probes`, `Accounts` | fences; surfaces; samples; validation; PowerPC ring of phase 3 and of phase 2; boot probes; counters | Clients (and CpFenceDrained, PoolsRace) |
| `Clients` | those side by side | Clients |
| `MC...` | the small instances | |
| `CpRingProofs`, `ServiceProofs`, `Draw2DProofs`, `EngineProofs`, `DirectRingProofs`, `DebugProofs` | theorems about one module each, the last two about DirectRing and OneShot, Probes and Accounts | |
| `DriverProofs`, `ClientsProofs` | theorems about Bringup, Bios, Display, fences, Pools, Samples and Requests, and about the composites | |

**Side by side.** The parts that `Driver` and `Clients` put together share no
variables: the code reaches one from another by a call under the same lock, and
each module states at its boundary what the other does (a submission is one
step of `CpFence`, a recovery has three outcomes in `Engine`). A behaviour of a
composite is one of a part, chosen by `part`, while the others rest in an
initial state. What holds of the composite holds of each part, at the cost of
their sum and not of their product. A property such as `PictureRight` is the
conjunction of the named properties of one part.

### CpQueue and CpRing

State: ring memory `vram`, the hardware pointers, `writePointer`
(`state->WritePointer`), the stream being committed, how much of it is stored
(`copied`), which stores are still posted on the bus, and where the committing
task is (`pc`). `CpCommitStream` builds the stream with fence tail and padding;
`ReservePoll`, `ReserveStalled`, `ReserveDeadline` are `CpReserve`;
`StoreDword` the copy in two segments; `Readback` and `KickWptr` its end.
`Land` (external) lets posted stores arrive in any order; `CpFetch` (external)
reads one dword. Abort and reconfiguration come between commits, as
`BoardLock` orders them. `CpCommit` of 2D batches is `CpCommitStream` without a
fence. `KickWptr` ignores a failing register write; `RadeonWrite32` fails only
without a register base, which callers exclude.

### CpFence

One submission is one step, because callers hold `BoardLock`; the ring inside
it is `CpRing`. `flight` lists the submissions not yet complete, each with the
number that covers it. The tail of a fence waits until the engines are idle:
for 3D streams the packet says so, for 2D batches ISYNC_CPSCRATCH_IDLEGUI does.
Polling loops are represented by their last poll. `MaxAhead` keeps fewer than
2^31 numbers between the scratch register and the next number, which no code
enforces and the size of the ring implies, failing commits apart.

### Service

Tasks are processes with a program counter; the two semaphores are owners. A
section under `ServiceLock` that takes no other lock is one step. An operation
is `Begin` (open, close, call, draw, attach, detach) followed by `Continue`
steps, the parts between lock operations. Memory of a session structure is a
`Device` that can be reused; `handle` tells two lives of the same memory apart.
Closing the last pin of an expunged owner releases the board inside
`CloseOwnerPin`, as the code warns. `FreeDeviceSegments` clears bits without a
lock; each bit is one step, as the 68k's read-modify-write bit instructions are.

### Engine

`engine` is a record of the driver's fields and of the hardware they stand for:
`host` is the host-endian bit of DP_DATATYPE, `flight` the work not finished.
Every function that waits for hardware is an operator from a state to the set
of its outcomes (`ok`, `e`): it succeeds, or times out, or recovers with one of
three results. `AndThen` and `OrElse` are C's `&&` and `||`, so
`SynchronizeEngine`, `RadeonPrepare3D` and `PrepareMmioEngine` read as in the
source. Calls hold `BoardLock` and are one step, except software drawing. One
hardware callback stands for all, as each has its own action in `Draw2D`. The
lease holder (external) may append to the ring while the lease is active, is
assumed to stop when it is reclaimed, and passes its last fence or 0 to
`ReleaseLease` as the interface asks. All sessions use one interface version.

### Bringup, Bios

`Bringup` has `LibInit`, `LibOpen`, `LibClose`, `LibExpunge` (delayed while
sessions are open), `InitChip` in the parts between which `ServiceLock` is
free, `InitRadeonFeatures`, abort, recovery and release. `RadeonCpInit` is
cut where it can fail, and every failure undoes what came before. Memory is a
stack of blocks (`mem.blocks`) with their rounding. The prometheus card
(external) that calls `InitChip` holds the library open meanwhile, and calls
for features once. `Bios` reads the ROM through seven borrowed registers,
walks images and headers, and interprets the tables entry by entry: a table is
a sequence of cells, a register the set of its bits, memory is counted in MB.
An entry of a table writes any register of the card's window, those included
that the call borrows; only the ROM's address is configuration space and out of
a table's reach, and a store outside the window ends the POST. The functions
save registers when they borrow them (`saved`), `SetFramebufferLocation` after
the POST and anew. `due` is history: the registers as found, with what the
tables wrote. Of the registers that count in MB or pages (memory size,
aperture, framebuffer, AGP, base, divider) the model takes what a store leaves
there from the entry, masked or not.

### Display

The display callbacks one at a time, in any order: the PLL search with its
limits, the ladder of pixel clocks, the wait for the PLL that may fail, the DAC
and palette, panning, power levels, the transmitter, the cursor's place with
clipping and double-scan. The register writes of one call are one step.
Frequencies are scaled so that products stay in TLC's integers.

### Draw2D

A board of sixteen addresses. Before each call a pixel holds the binary digits
of its own address as planes, so a pixel copied from the wrong place is told
apart. A callback is an action: validation (with the bias of a surface that
begins below the register's granule), choice between engine and software,
register writes through the shadow, painting by what the *registers* then
hold, and comparison with what Picasso96 asked for. Other engine work
(`Submit3D`, `WaitBlitter`, a recovery inside a wait) overwrites registers
between calls. A callback that goes in passes (rows of a template that do not
fit the staging block, planes of a planar bitmap) submits each pass behind the
check that the code makes before it. `restore` is `Need2DRestore`; `slipped`
records that a wait has dropped it without the restore (section 3).

### Pools, Requests, Samples

`Pools` keeps the table of the auxiliary pool, its first fit, and the unlocked
cleanup as separate steps (find the entry, clear it), with the submissions that
draw to a surface. `Requests` is validation as a process of its own: the
service copies or reads the client's memory, checks, and emits, while another
task of the client rewrites the memory between any two steps. `Samples` has
`RecordExecSample`'s stores, the number zeroed first and published last and the
fields in any order between, against the copying reader of `radeon3dinfo.c`,
word by word.

### DirectRing, OneShot

`phase3host` takes the lease and publishes the ring in a control block;
`ppcphase3` polls it through its cache, submits fenced batches and answers in
the block. `cached` is what the PowerPC would read. `OneShot` is `phase2host`
and `ppcphase2` on the same ring variables. The lease clock runs: a host that
stops heartbeating loses the lease.

### Probes, Accounts

The boot probes of a debug build, with a set of faults the card may have, and
the counters of the callbacks against a history of what happened: `done` has
every call that returned, by callback and outcome, numbered in each kind.
`accel` is the accelerator with the counters of the engine's own hooks (waits,
recoveries, drains before a fallback, streamed templates). It is followed
through every path of a call: each wait may fail, and a failed one calls
`RecoverEngine` then and there (which does nothing once a recovery was tried
that did not bring the command processor back), whether under
`PrepareMmioEngine`, `PrepareSoftwareFallback`, a submission or `RadeonWaitBlitter`, and the call
goes on with what the recovery left. `Ways` lists what a call may come to, an
outcome with the accelerator after it. Between calls the 3D service uses the
same engine (`ServiceUsesEngine`): it submits, recovers, leases the ring and
ends the lease. Waits for the command processor have no hook and are not
counted. `FinalAccelState` is left out, as the lease changes the state without
a hook.

## 3. What is checked

| Run | Question | Bounds, and why they are enough |
|---|---|---|
| CpRing | `NoOverwrite`, `RefinesQueue` (every step is one of `CpQueue` or a stutter), `CommitReturns` | 8 dwords, alignment 2, streams of 2, 4 and 6: every aligned wrap place, full and empty ring, posted stores in all orders (313 thousand states) |
| Service | use after free, counts, the body of a call, cleanup, exclusive segments, `OperationsEnd` | two tasks, two structures, two opens, one attachment, three generations: a structure is reused, a recovery and a detach meet every step of a call and a close (510 thousand states) |
| Draw2D | `PaintsAsAsked`, `NothingLost`, `CachesCoherent` | two calls in any order with everything between: a stale cache needs one call to fill and one to use it; three bitmaps, one unaligned, one outside (16 thousand states) |
| Driver | POST, bring-up, engine, display | ROMs with one defect each, every failing step of a start, two sessions and interface versions 18 and 20, six display calls (96 thousand states) |
| Clients | fences, pools, samples, requests, PowerPC, debug | 16 numbers with the wrap and the skipped zero near the start; two sessions and two pool entries; a ring of two samples with five written; every dispatch, bitmap and fence of small numbers and every batch one dword away from a good one; two hosts and two children; every single fault of a probed card; two debug calls with the service between them, and the one tick that would be seen twice (1.2 million states) |
| CpRingStall | `StallMeansHung` | finding 1 |
| CpFenceDrained | `DrainedMeansIdle` | finding 2 |
| ServiceReattach | `SegmentsExclusive`, two attachments | finding 3 |
| EngineRingInSync | `RingInSync` | finding 4 |
| EngineReleaseKeepsDesktop | `ReleaseKeepsDesktop` | finding 5 |
| DisplayDark | `ReleasedIsDark` | finding 6 |
| PoolsRace | `SurfacesAlwaysDisjoint` | finding 7 |

Symmetry is used for interchangeable sessions, in runs without liveness. The
constraint `NotOvertaken` of Clients cuts the pool's behaviours where two
tasks are freeing entries at once: that is finding 7, beyond which `PoolSound`
is lost; the run shows it holds otherwise. `FetchGuarded`, `TagCoversWork` and
`SoftwareAlone` are claimed up to interface 18: from 19 on they fail for the
reason finding 2 shows (the documentation calls the feature parked), and with
leases because a lease can be granted and released around work that is
pending.

**Deadlock.** Service, Driver, Clients, DisplayDark and PoolsRace do not check
it, all others do: the systems of those five may rest once the bounds on
opens, calls, samples or attachments are used up, and a card's POST or a
request ends for good. In Service, `OperationsEnd` forbids resting inside an
operation.

**Fairness.** CpRing assumes weak fairness of the committing task's own steps:
the task is scheduled. Nothing is assumed of the CP; that the commit returns
although the CP may stop is the point. Service assumes strong fairness of each
task's `Continue`: Exec queues the waiters of a semaphore first-in first-out,
so one that is free again and again is given to each in turn, and a step that
waits for no lock needs only the scheduler. `Begin` is not fair: no client need
do anything. No other property is a liveness property; waiting loops elsewhere
are represented by how they end, with a timeout always possible.

**Findings.** (1) `CpReserve` does not reset its stall budget on progress,
against its comments. (2) `RadeonCpWait` forgets fence-less submissions after
its fence. (3) A session left from an earlier attachment frees segments of the
current one. (4) Closing a lease holder that submitted leaves the driver's
write pointer behind the hardware's. (5) Releasing a lease after a failed
recovery marks work pending that nothing can end, so software drawing is
refused from then on. (6) The release of the board clears every bit of
FP_GEN_CNTL but the two that light the panel. (7) The cleanup of a closed
session changes the surface table without the lock its comment requires.

**Seen while modelling, claimed by no run.** A half-failed POST leaves the card
looking posted at a warm restart (`radeon_bios.c:841`); HOST_PATH_CNTL is left
0 on success (`radeon_bios.c:914`); `SetGC` overwrites CRTC_GEN_CNTL and with
it the cursor's enable; `SetPanning` does not refresh the cursor; the staging
block is not given back until the next `InitChip`; a planar bitmap
drawn with no plane selected notes MMIO work without having written a register
(`radeon_accel.c:2095`, `:2240`), so that after 3D work the next wait is for
MMIO alone and clears `Need2DRestore` with nothing restored (`:388`), against
the comment at `:418` (`slipped` in Draw2D, after which nothing is claimed of
the registers until the engine is set up again); "every release path runs a
full drain" (`radeon3d_service.c:1374`) is not so for fence-less work; a lease
granted at clock 0 never expires; a heartbeat between `LeaseBlocks`'s check and
the reclaim is lost; `MeasureMmio` and `MeasureCpBatch` never run, as the timer
is not open yet; `RadeonCpWait` has the stall budget of finding 1; a session
may test fences of other sessions; releasing one surface forgets the fence of
the others (`LastFence` is cleared); `BlitRectNoMaskComplete` takes two
different bitmaps of one pitch and one aligned base for the same one and picks
its direction from their biased coordinates (`radeon_accel.c:1279`), which is
not enough where a biased row runs into the next row, against "safe overlap
direction selection" (`README.md:107`): in the units of the Draw2D run, with a
pitch of 4 and bitmaps at 4 and 6, a copy of three by two pixels overwrites
what its second row has yet to read.

## 4. What is proved

Each theorem is for every value of the constants that satisfy the assumptions
its module names. Unless said otherwise a theorem states `Spec => []P`.

| Module | Theorem | States |
|---|---|---|
| `CpRingProofs` | `RingInvariant`, `RingTypeCorrect`, `RingNoOverwrite` | the inductive invariant, `TypeOK`, `NoOverwrite` |
| | `RingImplementsQueue` | `Spec => RefinesQueue`: the ring implements `CpQueue` |
| `ServiceProofs` | `ServiceInvariant`, `ServiceTypeCorrect`, `NeverUsedAfterFree`, `CountsAlwaysBalance`, `BodyAlwaysHasBoard`, `ClosedAlwaysCleaned` | the inductive invariant, `TypeOK`, `NoUseAfterFree`, `CountsBalance`, `BodyHasBoard`, `ClosedIsCleaned` |
| | `OneAttachmentSegments` | `SegmentsExclusive`, if `MaxAttach <= 1` |
| `Draw2DProofs` | `Draw2DInvariant`, `Draw2DTypeCorrect`, `NothingIsLost`, `CachesStayCoherent` | the inductive invariant, `Draw2DTypeOK`, `NothingLost`, `CachesCoherent` |
| | `FillsPaintAsAsked` | `Draw2DSpec => [][Fill => PaintsAsAsked']_d2vars`: `PaintsAsAsked` after `FillRect`, `InvertRect`, `BlitPattern` and `BlitTemplate` |
| | `CopiesPaintAsAsked` | `Draw2DSpec => [][Copy => PaintsAsAsked']_d2vars`: `PaintsAsAsked` after `BlitRect`, and after `BlitRectNoMaskComplete` of bitmaps that the driver tells apart (`Told`) |
| | `LinesPaintAsAsked` | `Draw2DSpec => [][Line => PaintsAsAsked']_d2vars`: `PaintsAsAsked` after `DrawLine` |
| `EngineProofs` | `EngineInvariant`, `EngineStaysKept`, `UnsafeIsFinal` | the inductive invariant, `EngineKept`, the action property `UnsafeStays` |
| | `FetchStaysGuarded`, `TagAlwaysCovers`, `SoftwareStaysAlone` | `FetchGuarded`, `TagCoversWork`, `SoftwareAlone`, up to interface 18 |
| `DriverProofs` | `BringupInvariant`, `BringupTypeCorrect`, `MemoryStaysTiled`, `ReadyStaysRunning`, `BusGivenBack`, `EmptyStaysClean`, `PrometheusStaysHeld` | the inductive invariant, `BringupTypeOK`, `MemoryTiled`, `ReadyIsRunning`, and the three parts of `NothingLeftBehind` |
| | `BiosInvariant`, `BorrowedComesBack`, `AcceptedIsUsable` | the inductive invariant of the POST, `BorrowedReturned`, `CardUsable` |
| | `DisplayInvariant`, `PictureStaysRight`, `NoModeDangles`, `ClockStaysRunning` | the inductive invariant of the display, `PictureRight`, `NoDanglingMode`, two of the three parts of `ClockRight` |
| | `NothingStaysBehind`, `DriverTypeCorrect` | of `Driver`: `NothingLeftBehind`, `DriverTypeOK` |
| `DirectRingProofs` | `DirectRingSound` | `DirectSpec => [](RingShared /\ HandshakeSound)` |
| | `OneShotRingSound` | `OneShotSpec => [](RingShared /\ OneShotSound)` |
| `ClientsProofs` | `FenceInvariant`, `FenceStaysUnseen`, `PendingStaysLast`, `WaitStaysExact` | of `CpFence`: the inductive invariant, `FenceNeverEarly`, `PendingFenceIsLast`, `WaitSeesFence` |
| | `FencesStayAnswered`, `PoolStaysSound`, `TargetsStay`, `SamplesStayWhole`, `RequestsStayInside` | of `Clients`: `FencesAnswered`, `PoolSound`, `FencedWorkKeepsTarget`, `SamplesWhole`, `RequestsInside` |
| | `RingStaysShared`, `HandshakesStaySound`, `GivesUpOnlyUnready` | of `Clients`: `RingShared`, `HandshakesSound`, the action property `GivesUpUnready` |
| | `DebugStaysHonest`, `ClientsTypeCorrect` | of `Clients`: `DebugHonest`, `ClientsTypeOK` |
| `DebugProofs` | `ProbesStaySound` | `ProbesSpec => [](ProbesSound /\ ProbesTypeOK)` |
| | `AccountsStayBalanced` | `AccountsSpec => [](AccountsBalance /\ AccountsTypeOK)` |

**Assumptions.** They say what the code's constants satisfy and no more:
sizes are numbers and what divides is not 0; tasks and session structures are
finitely many; a fence number exists, and fewer than half the range is ahead of
the scratch register (see CpFence above); the number word of a sample is not
one of its fields; the framebuffer's least size is not 0 (`radeon9200.c:213`),
the reference divider's mask holds at least 12 (`radeon_bios.c:776`) and an
aperture is at most 512 MB; a board's reference clock and divider are not 0
and the startup screen fits the least memory; the granules of pitch and offset
are not 0, the staging block begins at a granule (`radeon_accel.c:1497`) and
the widest row that is staged has a pitch that its register holds; the registers of the published
stream are distinct; a lease expires after at least five half seconds (ten in
the code, `radeon_accel.c:452`), and a grant's batches are fewer than half the
range of the fence numbers (at most 100000 of 2^32, `phase3_regs.h:79`); the
probes' fills of `CP_DEBUG_MAX_DWORDS` do not end at the ring's end (they start
behind 4 units of 16384, and 16380 is no multiple of 256), where
`radeon_cp.c:610` would take the write pointer's return to 0 for a crossing;
scratch registers hold integers, and the bounds on calls and time are numbers.
`AskedAssumption` says that what a client passes fits the
types of the arguments, and nothing else of it. `SourceAssumption` says that
pens are sets of planes, a pattern's phase is not negative (`UWORD`) and its
2^`Size` rows fill the brush of eight in whole repetitions, opcodes are
numbers (`UBYTE`), and lines are along an axis or a diagonal: of the others the
model has no dots (section 5).

None of the safety properties is inductive by itself:

* **Ring.** A store misses the unread dwords only because the reservation that
  let it start found room, and later fetches only make more. `IInv` adds that
  the write pointer is RB_WPTR outside of a kick, that nothing is posted
  outside of a copy, and that a writing task still has the room it reserved.
  `StoresMissUnread` is the arithmetic of the two segments modulo the ring
  size. For the refinement `QInv` adds that every dword of the stream copied
  so far is either posted or already in its place (`StoresLanded`), so that
  when the kick announces it, the ring behind the write pointer reads as the
  queue with the submission appended, and that the stream being copied is the
  one that the caller committed (`StreamCommitted`).
* **Fences.** `Ordered` says where every number lies: covers of submissions
  are ahead of the scratch register and not beyond the next number, they do
  not fall along the flight and rise behind a fenced one, the next number is
  at most half the range ahead, and the pending fence is the last in flight.
  `AheadShifts` moves all distances when a fence tail writes the scratch
  register; `TakeAhead` is the skipped zero; the invariant says nothing of the
  flight while the CP is off, as numbering starts anew.
* **Service.** A lock is owned by exactly the task whose program counter is in
  a section under it, so that two tasks exclude each other by their program
  counters. A session's `calls` is the number of tasks inside a call on it; a
  closing session whose calls are over has been handed to exactly one task to
  clean up; `pins` and `sessions` are the cardinalities of the sets of tasks
  and sessions that hold them; a session on the list is of the present
  generation while a call's body runs. The cardinalities move by one element
  at a time, which is most of the proof. `SegmentsExclusive` needs that the
  mask is of this attachment; `MaxAttach <= 1` says so, and `ServiceReattach`
  shows that it is needed.
* **Engine.** The functions of the driver compose by `AndThen` and `OrElse`, so
  the proof is by contract: `Follows` is what every function promises of each
  of its outcomes (a sound engine, no new session or lease, no way back from
  UNSAFE), with one lemma per function and
  `FollowsTransitive` to chain them. `Sound` ties tag, pending work, lease and CP; `Early` is what holds up to interface 18.
* **2D.** `Sound` says of the card, between the calls and inside of them, that
  the shadow has what the registers have and the host data path is as it is
  believed to be, unless the baseline is still owed or was dropped
  (`Reliable`); that a recovery is barred only once the engine is given up;
  and that the line remembered is a line of this memory. `Quiet` adds, between
  calls, that the aperture may hold an old line only while work is noted. The
  functions of a callback each wait or write and promise their caller
  something of every outcome, so the lemmas go from the register write to the
  callback. That a drawing is not lost is arithmetic: what the validation
  rejects lies outside of the bitmap's memory, the bias of an unaligned base
  included.
* **Bringup.** Blocks are carved in one order whatever is left out (`Rank`), so
  each is the lowest when its turn to be freed comes; `AllocateTiles` and
  `FreeTiles` are about `dma.c` alone. `Whole` ties bus, command processor and
  service in each phase of `InitChip`, and the openers of prometheus.library
  to what the board's driver still uses.
* **POST.** `Lent` lists by phase which registers are borrowed: what is lent
  has its copy equal to `due`, what is not has `due` itself, and the tables
  run while nothing is lent. Were the copies those of the call's beginning, the
  framebuffer's move would undo what the POST wrote. Table entries are read inside
  the image because the walk starts inside it and every step is checked
  against its end.
* **Display.** `Steady` holds after every call whatever it did, `LitRight` of
  what is lit, and `Promised` of each call that has succeeded since the mode
  was set (`since`): palette, memory read, clock, panel's row, cursor. The register
  functions of a call (`ProgramTiming`, `ConfigureDac`, `SetClock`...) each
  have a lemma saying which fields they write.
* **Pools.** While no two cleanups free entries at once, every surface of a
  session (and the one its task is about to list or to free) is in the table
  exactly once, entries nobody is clearing do not intersect (`Tidy`), and the
  place that the first fit has reached does not intersect the entries it has
  passed since it moved (`Passed`). Work that carries a fence is waited for by
  the last fence of a session that still has the surface (`Flight`).
* **Samples.** A slot whose number is not 0 is whole; the last samples are all
  there but the one being overwritten; what the reader has copied of a sample
  it keeps is of one sample, because the number was the same before and after.
* **Requests.** What is emitted is what was accepted, the service having read
  the whole request once before it looks at it. That an accepted batch draws inside its target is shown by
  executing it: `Executed` is a recursive function over the batch, and the
  proof follows it by a least counterexample (`WFMin` of WellFoundedInduction,
  which takes no operator), with lemmas for each register the stream sets.
* **PowerPC ring.** `CommonInv` is what both exchanges keep. `RingAgrees` says
  what lies between the pointers: whole batches (`WholeUnits`); the driver's
  own view of where the ring ends, as long as no child moved it (`Settled`);
  under a lease, the child's batches numbered from the grant on, with SCRATCH_REG0
  at the last one executed (`NumberedAs`), and room behind them for the one
  it is writing (`Laying`). `Granting` ties the lease, the host's place and
  the grant the child holds. That much is the ring; that the child's grant is
  this host's is the exchange. In phase 3 (`DirectPart`): an echo of this
  host's generation comes from a child that came to it (`Echoes`), HOST_READY
  stands for a whole grant (`Posts`), and the half seconds since the last
  heartbeat, added up over the host's steps, stay below the expiry
  (`Renewed`), which is why five are needed. In phase 2 (`OnePart`): the ring's
  word is clear until the grant, so that a copy of the first line that names
  this host was taken after it, and of the second line there is none.
  The model ends a grant at the wrap of the fence numbers (section 5), and so
  do these theorems.
* **Probes.** `ProbesInv` says what is in the ring at each place of the probes:
  the fences queued (`FencesQueued`), the fills (`NoopsQueued`) or the buffer
  dispatched (`BufferQueued`), in the order they were submitted, that the ring
  is empty and nothing pending between two tests, and which tests have passed
  before it (`TestsPassed`). The write pointer of the n-th fill is `4 + n *
  DebugMax`, which is why the last stream is the one that crosses the end. A
  verdict in the results stands for what the card did (`VerdictsRight`), also
  of the cases before a hang that was recovered.
* **Counters.** Each counter equals a number of calls that returned by some
  outcomes, so the invariant carries those equalities through a call under way
  (`Pending` is the one that has passed the lock's check and not returned).
  `Ledger` says that numbers in a kind are never reused, so that the call
  that returns is new to `done` and every sum grows by exactly one.
  `TimeBalances` charges a call the ticks since its sample at most, as calls
  do not overlap under `BoardLock`. Of the engine's counters `EngineInv` is kept
  along every function of a path, with one lemma each: they agree with each
  other and with the state (`EngineCounted`), the one failed recovery is the
  one behind which the engine is unsafe for good, as the recovery is then barred
  (`EngineTried`), and a wait that failed was answered by a recovery
  (`Answered`), which does not hold between the wait and the recovery and is
  what `RecoverEngine` owes its callers.
* **Types.** Most of `ClientsTypeOK` is a part of the invariants above. Two
  parts were not: the submissions in flight fit their bound (`FenceBounds`),
  for which an abort must keep the first of them, and a child's `submits` are
  its batches (`CountsBatches`).
* **The picture.** `FillsPaintAsAsked` follows a fill, a pattern or a template
  from validation to the last pixel: the surface's biased rectangle lies where the bitmap's does
  (`Sited`, `SpotIs`), the registers hold what the submission asked for,
  whether they were written or the shadow spared the write (`Coherent` of the
  invariant), the pixels lie apart, so that the order in which the engine takes
  them is of no matter (`RectDrawn`), the byte order turned twice is as it was
  (`CombinedIs`), and a refusal is made up for by software (`SurfaceShows`).
  For the bits of a pattern it needs that the brush's phase meets the pixel's
  own (`BrushBit` against `PatternBit`), and for those of a template that what
  is staged or fed to the host data path is read back in the order it was put.
  It needs the planes of a pixel to be whole bytes (`PlaneAssumption`).
  `CopiesPaintAsAsked` needs the order of the pixels too: `InOrder` says that
  none is read after the walk painted it. It follows from the corners when the
  bitmap is one (`OneLayout`), from the addresses when the pitch is one and
  the walk is along or against memory as a whole (`OrderPitch`), and from
  nothing when the extents are disjoint. Where the driver takes two bitmaps
  for one it is false (section 3), hence `Told`. `LinesPaintAsAsked` needs that
  a line found on the remembered surface is `Sited` there as one worked out
  anew would be; a line along an axis is then a filled rectangle, and of a
  diagonal each dot is a rectangle of one pixel painted over the picture of
  the dots before it (`Dotted`, `DotDrawn`, `DotsAre`).
* **Side by side.** The parts of Driver and of Clients share no variable, so
  an invariant of one is kept by the steps of the others; the theorems about
  the composites are lifted from those of their parts.

Each invariant was first checked by TLC on the small instance.

Only model-checked: `PaintsAsAsked` of Draw2D after planar blits; `ClockRight` as a whole, whose third part says that the
dividers found for the clocks on the ladder are in the PLL's range: that is a
fact about the numbers of a board and false for arbitrary ones. Out of the
prover's reach: liveness under fairness and ENABLED (`CommitReturns`,
`OperationsEnd`), and what folds compute over all inputs. The properties of
runs that end in a violation are false, so there is nothing of them to prove.

Worth proving next: `PaintsAsAsked` after the remaining callbacks. Planar blits
are rectangles of bits whose passes leave each other's pixels alone.

## 5. What the models take for granted

* There is one board (`docs/02:114`, `docs/03:390`).
* What Picasso96 passes for a line lies in whole rows of its bitmap, and every
  2D callback that `Engine` lets through submits something.
* The bitmaps of the Draw2D run that share an aligned base are one bitmap or do
  not overlap.
* Lines are along an axis or a diagonal: which dots the engine sets for another
  slope is in no source, the driver gives it the two ends only. Validation,
  caching and programming of a line do not depend on it.
* Engine registers keep what is written; GMC_DST_CLIPPING clear means the
  default scissor; a soft reset of the host data path drops the aperture's
  read-ahead.
* The CP fetches units of four dwords; the probes commit whole units of
  sixteen.
* PowerPC stores reach memory, its loads may be served from its cache until it
  is flushed; one child at a time is started while its host waits.
* The numbers of a PowerPC program end at the wrap: a batch that skips zero is
  the last of its grant in the runs. The next one would get fence 1 again, as
  `ppcphase3.c:287` skips zero for one batch without moving on.
* Board memory is a multiple of the page that `dma.c` rounds to.
* A wait of a probe times out only when the card hangs.
* In Accounts one callback runs at a time, the service between callbacks, and a
  recovery's register writes succeed (they fail only outside the window).
* Execution sample numbers do not come round to 0.

## 6. What is not modelled

* What is drawn by 3D batches and by the PowerPC programs, which dwords of a
  segment are fetched when (so the reuse of a segment under a fence-less
  dispatch has no property), and a heartbeat inside `LeaseBlocks`.
* `Radeon3DFreeRetiredDevices` at the library's end, the wrap of the 32-bit
  generation.
* PCI probing and the callback table; the library's function table, C runtime
  shims.
* The trace port and the access counters of debug builds, the two
  measurements that never run; in Accounts the copies and patterns, which are
  counted as inversions are, and planar blits and lines, which are counted so
  too but wait for the FIFO with no template (a reason why `EngineAccounts`
  has "at most" for FIFO waits).
* Order and timing of register writes within a display call, delays in BIOS
  tables.
* Byte order inside the copy loops (covered exhaustively by
  `tools/test_cp_copy.py`), microcode, register definitions.
* The remaining tools, which exercise the screen and print, and the
  third-party kits.
