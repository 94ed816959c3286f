# libnvwal in TLA+

libnvwal is a write-ahead log library for NVDIMM. Worker threads put log bytes
into buffers of their own, a *flusher* thread copies them to segments on NVDIMM
and announces epochs durable, an *fsyncer* thread moves full segments to disk,
and cursors read durable logs back. Almost nothing is protected by a lock; the
order of single loads and stores carries the correctness argument. These modules
model that order, TLC checks them on small instances, and TLAPS proves what
matters most for all instances. Paths below are relative to the repository root
(`src/nvwal_api.c`, `include/nvwal_api.h`).

## 1. Inventory

| Part | Code | State | Operations | Module |
|---|---|---|---|---|
| Writers, epoch frames | `nvwal_api.c` 137-330 | ring of frames (epoch, head, tail, tag), circular buffer | `nvwal_on_wal_write`, `nvwal_tag_epoch`, `nvwal_has_enough_writer_space` | WriterFlusher |
| Epochs SE and DE | `nvwal_api.c` 118-134 | `stable_epoch_`, `durable_epoch_` | `nvwal_advance_stable_epoch` | WriterFlusher |
| Epoch arithmetic | `nvwal_api.h` | none | increment, add, compare, with wrap-around | EpochArith |
| Flusher | `nvwal_api.c` 378-692 | current segment, head of the epoch | copy, move on to the next segment, conclude an epoch | WriterFlusher, Segments, Restart |
| Fsyncer | `nvwal_api.c` 712-839 | fsync flags, `last_synced_dsid_`, files | look, copy, fsync, complete, record | Segments, Restart |
| Segment pins | `nvwal_impl_pin.c` | a counter | read and flusher lock, try and unconditional | PinLock |
| Log cursor | `nvwal_impl_cursor.c` | position, prefetched metadata, pinned segment | open, next, close | Segments (one segment), Cursor (the walk) |
| Metadata store | `nvwal_mds.c` | page buffer, page file, control block | write epoch, page out, iterate, roll back, recover | Mds |
| Metadata queries | `nvwal_mds.c`, `nvwal_api.c` 68-97 | search bounds | lower and upper bound | MdsSearch |
| Thread life | `nvwal_impl_init.c` 60-145 | `thread_state` | start, wait, stop | ThreadState, Startup |
| Start and shutdown | `nvwal_impl_init.c` 154-838, `nvwal_mds.c` 87-741, `nvwal_util.c` | files, descriptors, mappings | `nvwal_init` in three modes, `nvwal_uninit` | Startup |
| Restart | `nvwal_impl_init.c` 502-565, 730-772 | control block, epoch metadata, NV segments | resume from DE or from `resuming_epoch_` | Restart (log), Mds (metadata) |
| What the client is promised | comments in `nvwal_types.h`, `nvwal_api.h` | a log of epochs | write, commit, announce, crash, recover | DurableLog (abstract) |

How they interact: writers and flusher meet in the frames; flusher and fsyncer
in a segment's flags; both meet cursors in the pin and in `last_synced_dsid_`;
flusher and cursors meet in the metadata store; the client's host thread meets
both worker threads in `thread_state`; a process meets its predecessor in the
control block, the metadata, the NV segments and the files.

The hard behaviours, with their lines and the properties that watch them, are
the `hazards` of `PROJECT.json`: lock-free hand-over, reuse of frames, buffers,
pages and segments under a reader, stop requests in the middle of a loop,
crashes between durable steps, restarts from what they leave, calls that fail
halfway through a start, failing fsync, offsets at the end of a segment.

## 2. Modules and how they correspond to the code

Every load or store another thread can observe is a step of its own; stretches
that nobody else can tell apart are one step, and a comment says so. Atomics are
sequentially consistent. Names follow the source (`durable_epoch_` is
`durable_epoch`). Operators with a comment "Variant:" are plausible mistakes in
the code; no specification uses them, they serve to see that a property notices.
`PROJECT.json` maps every definition to its lines.

* **PinLock** - `nv_reader_pins_`: the load and the compare-and-swap of the
  reader's try, the flusher's compare-and-swap, both releases.
* **WriterFlusher** - writers, threads that advance SE, and the flusher. Bytes
  are numbered per writer, so that a lost, doubled or overwritten byte shows. The
  NV segments are one stream (`nv_log`), the metadata one sequence (`mds`). The
  client is external: it asks for space before each write, gives epochs in order,
  and runs at most `MaxAhead` epochs ahead of SE. It may tag an epoch before it
  has written in it, and with 0: `tagged` keeps only the tags that reach a frame.
* **Segments** - flusher, fsyncer, cursors and `nvwal_uninit` on a ring of
  segments; a cell of a segment holds the dsid it was last written for.
  `build` distinguishes builds: an unoptimised one ("O0") clears
  `fsync_completed_` and `fsync_requested_` with two stores, gcc -O2 with one.
* **ThreadState** - the word by which threads start and stop.
* **Startup** - composes ThreadState (which it extends) with the steps of
  `nvwal_init` and `nvwal_uninit`. Of a file it keeps the size (absent, empty,
  whole) and whose data it holds; the control file also has the configuration
  and whether epochs and synced segments exist. `durable` is what a crash leaves;
  one while the configuration is persisted leaves any subset of the cache lines
  that hold its fields (`TornConfigs`).
  `held` are the descriptors and mappings the context remembers, `open` those the
  process has: the difference is what gets lost or is released twice. Every step
  may fail (`IoFails`) or refuse (`Refuse`), and ends in `nvwal_impl_uninit`. All
  three modes and the checks against the previous configuration are modelled;
  names of files only by which file they name. **MCStartup** gives the
  configurations: two valid ones, one with defaults to be filled in, and two that
  are refused at different places.
* **Restart** - flusher and fsyncer in their durable steps: copies into NV are
  volatile until `pmem_persist`, so a crash keeps any subset of them. After a
  crash `nvwal_init` rebuilds segments and flusher from control block and
  metadata. Each log has its own number and fills one cell, so that a region that
  is shifted, overwritten or lost shows. `last_synced_dsid_` is stored first, where
  the flusher sees it, and persisted in a step of its own. `HazardsOfCrash` and
  `HazardsAt` name the crashes and restarts the code does not survive; `Hazards`
  says which of them may happen. A DE that goes back fails an assertion:
  `FlusherAssertFails` is the build that ends there, and in one without assertions
  the flusher goes on.
* **DurableLog** - the promise: a log that grows by one whole epoch at a time,
  never changes, and loses at a restart only what the client gives up by
  `resuming_epoch_`. Restart implements it (`ImplementsDurableLog`); its `log` is
  read through the metadata from segments and files as a reader would.
* **EpochArith** - increment, add and compare of `nvwal_api.h` in a range of
  `2 * Half` numbers that skips 0; only theorems, no states.
* **Mds** - `mds_write_epoch` in its durable steps, paging, optimistic reads,
  rollback, crash and `mds_recover`. An entry is `epoch_id_` and "the rest", so
  that a torn copy of a cache line can be expressed; `TornCopies` says which
  copies may tear. Unsynced parts of the page
  file survive a crash to an arbitrary length.
* **MdsSearch** - the two binary searches; the predicate is the set of epochs
  for which it holds.
* **Cursor** - the walk over epochs and segments while the flusher concludes
  more epochs. `build` is "O0" if the build loads `durable_epoch_` twice in
  `cursor_fetch_epoch_metadata`, and "O2" if it loads it once.

Epochs are natural numbers in all modules but EpochArith, whose theorems entitle
them to that. The runs use the modules directly, Startup through MCStartup; each
`.cfg` gives the constants their values.

Modules rest on each other where one takes another's result as a step:
Segments takes a pin in one step (PinLock: exclusion and exact count); Cursor
takes epoch regions as adjacent (WriterFlusher: `EpochRegionsAreExact`) and
opening a segment as one step (Segments); MdsSearch takes entries as constant
(Mds: `IteratorGetsItsEpoch`); Restart takes the hand-over of a segment
between flusher and fsyncer as Segments shows it, a metadata entry as one durable
step (Mds), and the logs of an epoch as complete (WriterFlusher). These links are
by argument. Startup composes formally: the thread's steps are those of
ThreadState, and the host's stop decides when memory may be released.

## 3. Runs

### Runs that pass

| Run | Shows |
|---|---|
| pin | three readers and a flusher: exact counter, exclusion; the flusher gets in once readers stop coming |
| writers_flusher | two writers, two threads advancing SE: whoever wins the race SE moves on; durable epochs are complete in NV; unless the flusher fails, stable epochs become durable and their bytes reach NV |
| one_writer | buffer, frames and segments wrap around, and a stop may come at any time: NV still holds the writer's bytes once and in order, regions are exact, a reused frame is one no longer needed, the buffer never fills up, and the last tag of an epoch that reached a frame and is not 0 becomes durable with it |
| segments | flusher, fsyncer, a cursor, failures and shutdown, both builds: pinned segments stay, nobody waits for ever; optimised build: what is recycled or recorded as synced is completely on disk |
| startup | three calls of `nvwal_init` in any mode and configuration, two threads, a failing call, two crashes, also inside the persist of the configuration: one worker, documented transitions, stopping returns; whoever works has its memory; nothing stays open or is released twice; a created instance starts again with its configuration once that is persisted, is given up by nothing but CreateTruncate, and has all of its own data and nobody else's |
| mds | a reader gets the metadata of its epoch and never reads past the end of the file; crashes and rollbacks outside the paging of a page keep every durable epoch readable |
| query_bounds | the searches return the right epoch for monotone predicates |
| cursor | both builds: every byte once and in order, nothing before or beyond durable epochs, and the end is reached; optimised build: nothing beyond the end asked for |
| restart | two crashes between any two visible or durable steps, outside the four kinds named in `Hazards`, restarts at DE or earlier, with and without assertions: the program implements DurableLog; announced epochs survive; each segment not yet on disk has its NV segment; full segments reach the disk after the restart |

### Runs in which a statement of the repository fails

Each checks one statement of a comment, header or assertion; the quotation and
the line are in `findings` of `PROJECT.json`.

| Run | The code's behaviour |
|---|---|
| stop_loses_logs | a stop request during the loop over writers still announces the epoch durable |
| cursor_wrong_segment | `fsync_completed_` is set before `last_synced_dsid_`; the segment is recycled in between and a cursor takes it for its own |
| restart_spanning | after a restart at an epoch that lies in two segments the next epoch is recorded with a region that begins in the wrong segment |

Where a flaw would hide everything behind it, the passing runs exclude its
trigger by a named constant or bound: `CrashWhilePaging = FALSE`,
`FsyncMayFail = FALSE`, `TornCopies = "first"`, `Hazards = {}`,
`RepeatsTruncate = TRUE`, a hypothesis `build = "O2"` in
three properties, a single writer when stops are allowed or epochs are tagged,
`MaxAhead` below `FrameCount - 1`, and epochs of at most one segment in run
cursor. What these exclude is not shown by any passing run; the `note` of each
hazard in `PROJECT.json` says so.

### Other disagreements met while modelling

These have no run of their own. The first group can be reproduced by changing a
constant or dropping a hypothesis:

* A crash between appending a page (`nvwal_mds.c` 1242) and making the next page's
  first epoch durable (1265) loses metadata: `mds_recover` assigns the buffer to
  the old page, whose first entry may be overwritten, and the page is appended
  twice, although it "Restores epoch metadata to the latest consistent durable
  state" (971). `CrashWhilePaging = TRUE`, `EveryDurableEpochIsReadable`.
* Whole segments in the middle of an epoch that ends at offset 0 are skipped
  (`nvwal_impl_cursor.c` 304; the comment at 308 has only the last segment in
  mind): `MaxEpochBytes` above twice the segment size, `ReadsEveryByteOnce`.
* A restart finds no NV segment for the one in which DE ends if that is on disk
  already (`"synced_ahead"`), and reads a recycled segment if the fsyncer had
  released and not yet recorded it (`"unrecorded"`): either in `Hazards`,
  `DurableEpochsReadBack`.
* The fsyncer stores `last_synced_dsid_` (`nvwal_api.c` 825) before it persists it
  (826). A flusher that concludes an epoch in between does not persist the part of
  the epoch in that segment, "If it's already on disk, definitely persisted." (471).
  A crash may then lose the number and the copies, and the restart reads NV:
  `"unpersisted"` in `Hazards`, `DurableEpochsReadBack`.
* CreateIfNotExists and Restart take what an interrupted CreateTruncate left of an
  instance for one (`nvwal_impl_init.c` 493), though a new instance is created "if
  and only if the folder is completely empty" (`nvwal_types.h` 247):
  `RepeatsTruncate = FALSE`, `OwnData` and `CompleteInstanceStarts`.
* `fsync()` results are ignored (`nvwal_api.c` 815, `nvwal_mds.c` 263).
  `FsyncMayFail = TRUE` breaks `RecycledSegmentIsOnDisk` and
  `SyncedSegmentIsOnDisk` in Segments and
  `EveryDurableEpochIsReadable` in Mds.
* Unoptimised build: the fsyncer may see a segment's flags half reset
  (`nvwal_api.c` 683); without `build = "O2"` `SyncedSegmentIsOnDisk` fails,
  though `nvwal_types.h` 677 says "Resets to 0 without race".
* Unoptimised build: a cursor may show an epoch beyond its end
  (`nvwal_impl_cursor.c` 213); `ShowsOnlyWhatWasAsked` without `build = "O2"`.
* A crash between truncating the page file and lowering `paged_mds_epoch_`
  (`nvwal_mds.c` 1303) makes the recovery read past the end of the file:
  `CrashWhilePaging = TRUE`, `NobodyReadsPastTheEnd`.
* After an append that ended halfway (`nvwal_mds.c` 256) a restart appends the page
  again behind the half one, and every later entry is at the wrong offset:
  `CrashWhilePaging = TRUE`, `EveryDurableEpochIsReadable`, also if the only crash
  added is the one after the failed append.
* An iterator that read an epoch before may take a torn copy of a recycled
  entry for a prefetched one (`nvwal_mds.c` 1131): `TornCopies = "any"`,
  `IteratorGetsItsEpoch`.
* A reused frame keeps its old tag (`nvwal_api.c` 588), which may replace the one
  another writer assigned: two writers of three bytes, two tags, three epochs, two
  frames, `TagsBecomeDurable`.
* The assert of `nvwal_on_wal_write` admits SE + 4, the space computation counts
  up to DE + 4: `MaxAhead = FrameCount - 1`, `BufferNeverFull`.

Passing runs reach these, and their properties leave them open; a theorem says it
of the last:

* `nvwal_tag_epoch` "Overwrites any previously assigned metadata, and assigned
  metadata becomes durable when epoch becomes durable" (`nvwal_api.h` 207). A writer
  without a frame of the epoch, one that has not logged in it yet, gets 0 and its
  tag is dropped (`nvwal_api.c` 280); a tag 0 overwrites the frame, and the flusher
  then keeps what it had (588-591), so that the epoch shows an earlier epoch's tag.
  Run one_writer does both; `TagsBecomeDurable` says what becomes of the other
  tags, and which tag such an epoch may show.
* The configuration is persisted by one `pmem_memcpy_persist` of more than a
  kilobyte (`nvwal_impl_init.c` 579). A crash inside the first one may leave the
  version and not the rest; the next `nvwal_init` takes the instance for an
  existing one and refuses the very configuration it was created with (387-421),
  in every mode but CreateTruncate. Run startup reaches this;
  `CompleteInstanceStarts` begins at the return of the persist.
* After a restart at a `resuming_epoch_` two or more epochs before DE, the next
  epoch lowers DE in the control block, and the assertion of
  `mds_update_durable_epoch` (`nvwal_mds.c` 889) fails: in run restart the action
  `FlusherAssertFails` happens. Without assertions DE goes back.
* `init_existing_nvram_segment` computes a dsid in `uint32_t`
  (`nvwal_impl_init.c` 738-739). Once the last synced dsid is beyond 2^32 by the
  number of segments, the result is a segment already on disk, against the
  assertion that follows (theorem `ExistingDsidWraps`).

The rest follows from reading the code: a second thread that calls
`nvwal_flusher_main` or `nvwal_fsyncer_main` while the first runs is refused only
without assertions, and fails the one of `nvwal_impl_init.c` 76 otherwise; a failed
`mmap()` leaves `MAP_FAILED` in the cursor (`nvwal_impl_cursor.c` 132), for which
`nvwal_cursor_is_valid` (`nvwal_api.h` 359) is true, so that a client must go by the
error code, as the one of Cursor does; `nvwal_pin_read_try_lock` also returns 0 when
it loses against another reader (`nvwal_impl_pin.h` 72 says only while being
recycled); `nvwal_wait_for_flusher_start` waits for ever for a thread that
started and ended (`nvwal_impl_init.c` 84); `mds_latest_epoch` names an epoch
shortly before it is durable (`nvwal_mds.h` 94); a cursor at its end stands at
`end_epoch_`, outside the invariant of `nvwal_types.h` 822; a Restart of an
instance whose creation was interrupted after its control file and metadata creates
the segments (`nvwal_types.h` 239 says it creates nothing); a buffer file without
its size is mapped without a look at the size (`nvwal_mds.c` 690; the comment at
`nvwal_impl_init.c` 429 says integrity is checked there); three functions of
`nvwal_mds.c` (lines 182, 479, 567) lose a descriptor when a later step fails,
which `NothingStaysOpen` allows by name.

### Bounds

Every bound is a constant in a `.cfg`. They are small, but large enough for the
cases that matter: the buffers (3 bytes) and segments (1 to 3) are shorter
than what is written, so that both wrap; a ring of 3 frames is gone round, and
a ring of 2 segments far enough for a recycled segment to be recycled again;
pages of 2 epochs are filled and recycled at least twice; iterators and cursors
prefetch 2 epochs from ranges that are longer; epochs of the cursor end before, at and after the end of a segment. One cursor
and one iterator suffice in Segments, Cursor and Mds: cursors meet each other
only in the pin counter, which PinLock has with three readers, and iterators
not at all. Two callers suffice for the race of `nvwal_advance_stable_epoch`,
where one compare-and-swap wins against another. Liveness makes run segments
expensive, so its segments have one cell; a segment is copied in one piece there.
Restart has two segments of two cells and five logs: epochs end in the middle and
at the end of a segment, a segment is recycled, and a second crash may hit what the
first restart wrote. Startup needs three calls of `nvwal_init`: one creates, one
is interrupted, one finds what is left; two segments show one initialised and the
other not. `kNvwalEpochFrameCount` is 5 in the code and smaller in the runs; only its
relation to `MaxAhead` matters, which `ConfigAssumption` states and
`ReusedFrameCorrect` proves for all values. Two tagged epochs (`MaxTagged`) suffice
for one tag to meet another's remains. `UInt32Range` is 64 in the runs, beyond every
dsid there; theorems have it as it is.

Deadlock is not checked where the system may stop: a flusher that was stopped or
failed, a bound that is reached, a worker that has ended.

### Fairness

* PinLock: threads inside a lock function go on, holders release, and a refused
  flusher tries again (`nvwal_pin_flusher_unconditional_lock` loops). Readers
  can starve the flusher, so liveness is stated for readers that stop coming.
  Likewise two flushers could starve each other; the WAL has one.
* WriterFlusher: weak fairness of the flusher thread, as the operating system
  schedules it. Nothing is assumed of the client, so liveness is stated for
  epochs that are stable and for bytes of epochs up to the one to flush next.
* Segments: both threads are scheduled, `nvwal_uninit` continues once begun, and
  clients close cursors.
* ThreadState: a worker looks at the word in every round; it may fail, and is not
  required to. Whether threads are ever started is not assumed.
* Startup: as in ThreadState. `nvwal_init` itself is not assumed to return.
* Restart: flusher and fsyncer of a running process are scheduled; that a process
  is started again is not assumed.
* Cursor: the caller goes on.

## 4. Proofs

All proofs are checked by TLAPS. They stand in modules of their own, which extend
the component's module.

* **PinLockProofs** (from `PinAssumption`: finitely many readers, none of them a
  flusher): `PinCountCorrect` and `PinExcludes`. The inductive invariant is types,
  exact count and exclusion together: exclusion alone does not say what a
  successful compare-and-swap has seen.
* **ThreadStateProofs** (no assumption): `OneWorker`, `DownMeansQuiet`,
  `DocumentedStates`. The invariant adds that somebody works only while the word
  says so, and what the host knows of the word at each point of the stop.
* **WriterFlusherTypeProofs** (from `ConfigAssumption`): `TypeCorrect`, with
  `CopyFits` (what was loaded fits the current segment) as the strengthening.
* **WriterFlusherEpochProofs** (from the types): `StableWindowHolds` and
  `AdvanceAssertHolds`. The invariant `EpochInv` says that a caller's expected
  value is not beyond DE, and that the flusher's target is DE+1, and is SE if it
  was seen stable.
* **WriterFlusherRingProofs** (from both): `ReusedFrameCorrect`. `RingInv` says
  that epochs fall by at least one per step back along the ring, so the frame
  that is taken next is `FrameCount` epochs old, which the client's horizon puts
  at or below DE.
* **RestartProofs** (from `RestartAssumption`): `AnnouncedIsDurable`; the invariant
  adds that a running process has announced exactly its own DE, and that just before
  the announcement the control block is one ahead of it. `ExistingDsidIsRight`: what
  `init_existing_nvram_segment` computes satisfies its three assertions for every
  number of segments, from uniqueness of remainders, as long as the last synced
  dsid and one more round fit in `UInt32Range`. `ExistingDsidWraps`: beyond the
  range by one round, what it computes is on disk already.
* **EpochArith** (from `Half` at least 2): `IncrementSkipsInvalid`,
  `AddIsRepeatedIncrement`, `NearbyEpochsAreOrdered`; remainders are first turned
  into plain case distinctions, the rest is linear arithmetic.
* **MdsSearchProofs** (from `MdsSearchAssumption`): `QueryCorrect`, from a loop
  invariant that splits the epochs at `low` and `high`.

Only model-checked: all liveness (fairness and ENABLED are outside the prover's
reach); the invariants about the contents of the NV log
(`NvLogFollowsWriters`, `DurableLogsAreInNv`, `EpochRegionsAreExact`); and
everything in Segments, Mds, Cursor and Startup beyond ThreadState; and the
refinement of DurableLog. What recursive definitions
compute for every input could not be proved with this prover either; no module
needs one so far.

## 5. Not modelled

* Weak memory beyond the tearing and double loads named above.
* Path handling and the fallback without `O_DIRECT`; several page files
  (`kNvwalMdsMaxPagefiles` is 1); files of another size than the configuration's;
  an instance of another library version; two processes on one folder.
* Metadata that a `resuming_epoch_` leaves behind in the pages of the store
  (`nvwal_impl_init.c` 522): Restart simply overwrites an entry.
* File names of dsids beyond 32 bits (`nvwal_util.c` 77). The restart's arithmetic on
  such dsids is modelled, see `ExistingDsidWraps`; no run goes that far.
* A rollback to epoch 0 when pages have been paged out, which would read the page
  file at a negative offset.
* Debug output, examples and experiments.

## 6. Plan

1. *Done*: PinLock, WriterFlusher, Segments, ThreadState, Mds, MdsSearch, Cursor,
   then Restart with DurableLog, Startup, EpochArith.
2. **A reader's view**: a refinement from Cursor and from WriterFlusher to
   DurableLog (a reader gets durable epochs in order; an epoch commits with the
   bytes of all writers), as Restart has it for crashes.
3. **Composition** of Segments with Mds for a cursor that reads metadata and
   segments while both are recycled, and of Restart with Mds for a restart at an
   earlier epoch.
4. **Proofs**: `PinnedSegmentStays` and `RecycledSegmentIsOnDisk` of Segments,
   `PagedIsOnDisk` of Mds, `ReadsEveryByteOnce` of Cursor for epochs of at most one
   segment, `SegmentsCoverTheWindow` of Restart, and `NvLogFollowsWriters`.
