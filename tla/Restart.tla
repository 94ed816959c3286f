-------------------------------- MODULE Restart --------------------------------
(***************************************************************************)
(* What a crash leaves of the log, and what nvwal_init makes of it: the    *)
(* flusher and the fsyncer of nvwal_api.c, seen through what reaches NVDIMM *)
(* and disk, and the restart of nvwal_impl_init.c.                         *)
(*                                                                         *)
(* Copies into NV segments stay in the CPU caches until pmem_persist, so a *)
(* crash keeps or loses each of them; so does the number of the last       *)
(* synced segment between its store and its persist.  Durable epoch, epoch *)
(* metadata and fsynced files are durable.  Every log has a number of its  *)
(* own and fills one cell of a segment.  Handshakes, pins, errors and the  *)
(* stopping of threads are the module Segments, the pages of the metadata  *)
(* store are the module Mds, the files are the module Startup.  A clean    *)
(* shutdown writes nothing that a crash would not leave: nvwal_uninit only *)
(* releases memory and descriptors, so Crash stands for both.              *)
(***************************************************************************)
EXTENDS Integers, Sequences, SequencesExt

CONSTANTS
  SegmentCount,     \* segment_count_ = nv_quota_ / segment_size_
  SegmentSize,      \* cells of a segment
  ResumingEpochs,   \* values of config_.resuming_epoch_ (0: not given)
  Hazards,          \* which of the kinds of crash and restart named in HazardsOfCrash
                    \* and HazardsAt may happen
  UInt32Range,      \* 2^32 in the code: numbers of a uint32_t
  MaxDsid,          \* bound: the segment at which the flusher stops writing
  MaxEpoch,         \* bound: the last epoch that becomes durable
  MaxLogs,          \* bound: logs that are ever written
  MaxCrashes        \* bound: crashes

ASSUME RestartAssumption ==
  /\ SegmentCount \in Nat \ {0, 1} /\ SegmentSize \in Nat \ {0}
  /\ ResumingEpochs \subseteq Nat
  /\ Hazards \subseteq {"spanning", "synced_ahead", "unrecorded", "unpersisted"}
  /\ UInt32Range \in Nat \ {0}
  /\ MaxDsid \in Nat /\ MaxEpoch \in Nat /\ MaxLogs \in Nat /\ MaxCrashes \in Nat

Indexes == 0..(SegmentCount - 1)
Cells   == 1..SegmentSize
Dsids   == 1..(MaxDsid + SegmentCount)
Epochs  == 1..MaxEpoch
kNvwalInvalidEpoch == 0
kNvwalInvalidDsid  == 0
NoMeta == [from_seg |-> 0, from_off |-> 0, to_seg |-> 0, to_off |-> 0]
NoFile == <<>>
Lost   == <<0>>  \* the content of an epoch nobody counts on any more

VARIABLES
  \* durable: what NV segments hold in the end, disk files, metadata, control block
  \* (last_synced_dsid as the threads see it, and as far as it was persisted)
  nv_durable, disk, meta, cb_durable_epoch, last_synced_dsid, persisted_synced_dsid,
  \* NV segments as the running process sees them, and NvwalLogSegment by index
  nv, dsid, written_bytes, fsync_requested, fsync_completed,
  \* NvwalContext and the flusher
  up, durable_epoch, current_dsid, head_dsid, head_off, fpc, new_meta,
  \* the fsyncer
  spc, sync_dsid,
  \* history: logs written so far, those of the epoch in progress and of each
  \* durable epoch, the last epoch announced to the client, crashes
  log_count, pending, logs, announced, crashes

syncedVars  == <<last_synced_dsid, persisted_synced_dsid>>
durableVars == <<nv_durable, disk, meta, cb_durable_epoch, syncedVars>>
segmentVars == <<dsid, written_bytes, fsync_requested, fsync_completed>>
flusherVars == <<durable_epoch, current_dsid, head_dsid, head_off, fpc, new_meta>>
fsyncerVars == <<spc, sync_dsid>>
historyVars == <<log_count, pending, logs, announced, crashes>>
vars == <<durableVars, nv, segmentVars, up, flusherVars, fsyncerVars, historyVars>>

flusher_get_segment_from_dsid(d) == (d - 1) % SegmentCount
Cur      == flusher_get_segment_from_dsid(current_dsid)
Upcoming == flusher_get_segment_from_dsid(current_dsid + 1)

Zeroed == [i \in Indexes |-> [x \in Cells |-> 0]]

Init ==
  /\ nv_durable = Zeroed /\ nv = Zeroed
  /\ disk = [d \in Dsids |-> NoFile]
  /\ meta = [e \in Epochs |-> NoMeta]
  /\ cb_durable_epoch = kNvwalInvalidEpoch
  /\ last_synced_dsid = kNvwalInvalidDsid /\ persisted_synced_dsid = kNvwalInvalidDsid
  /\ dsid = [i \in Indexes |-> i + 1] /\ written_bytes = [i \in Indexes |-> 0]
  /\ fsync_requested = [i \in Indexes |-> FALSE]
  /\ fsync_completed = [i \in Indexes |-> FALSE]
  /\ up = TRUE /\ durable_epoch = kNvwalInvalidEpoch
  /\ current_dsid = 1 /\ head_dsid = 1 /\ head_off = 0
  /\ fpc = "write" /\ new_meta = NoMeta /\ spc = "look" /\ sync_dsid = 0
  /\ log_count = 0 /\ pending = <<>> /\ logs = [e \in Epochs |-> Lost]
  /\ announced = kNvwalInvalidEpoch /\ crashes = 0

----------------------------------------------------------------------------
(* The flusher.                                                            *)

\* flusher_copy_one_writer_to_nv: a log of the epoch DE+1 goes to the current segment,
\* without drain or persist; a full segment is handed to the fsyncer.
FlusherWrite ==
  /\ up /\ fpc = "write"
  /\ log_count < MaxLogs /\ current_dsid < MaxDsid
  /\ nv' = [nv EXCEPT ![Cur][written_bytes[Cur] + 1] = log_count + 1]
  /\ written_bytes' = [written_bytes EXCEPT ![Cur] = @ + 1]
  /\ log_count' = log_count + 1 /\ pending' = Append(pending, log_count + 1)
  /\ IF written_bytes[Cur] + 1 = SegmentSize
     THEN /\ fsync_requested' = [fsync_requested EXCEPT ![Cur] = TRUE]
          /\ fpc' = "full"
     ELSE UNCHANGED <<fsync_requested, fpc>>
  /\ UNCHANGED <<durableVars, dsid, fsync_completed, up, durable_epoch, current_dsid,
                 head_dsid, head_off, new_meta, fsyncerVars, logs, announced, crashes>>

\* flusher_move_onto_next_nv_segment: recycle the next segment once it is on disk.
FlusherMoveOn ==
  /\ up /\ fpc = "full"
  /\ fsync_requested[Upcoming] => fsync_completed[Upcoming]
  /\ dsid' = [dsid EXCEPT ![Upcoming] = current_dsid + 1]
  /\ written_bytes' = [written_bytes EXCEPT ![Upcoming] = 0]
  /\ fsync_requested' = [fsync_requested EXCEPT ![Upcoming] = FALSE]
  /\ fsync_completed' = [fsync_completed EXCEPT ![Upcoming] = FALSE]
  /\ current_dsid' = current_dsid + 1
  /\ fpc' = "write"
  /\ UNCHANGED <<durableVars, nv, up, durable_epoch, head_dsid, head_off, new_meta,
                 fsyncerVars, historyVars>>

\* The cells of segment d that belong to region m.
RegionCells(m, d) ==
  {x \in Cells : /\ d = m.from_seg => x > m.from_off
                 /\ d = m.to_seg   => x <= m.to_off}

\* Variant: only the segment in which the epoch ends is persisted.
PersistedCellsOfLastSegment(m) ==
  [i \in Indexes |-> IF i = flusher_get_segment_from_dsid(m.to_seg)
                     THEN RegionCells(m, m.to_seg) ELSE {}]

\* The cells pmem_persist is called for: a segment on disk is skipped, by the value
\* of last_synced_dsid that the flusher sees.
PersistedCells(m) ==
  [i \in Indexes |->
     UNION {RegionCells(m, d) : d \in {d \in m.from_seg..m.to_seg :
              d > last_synced_dsid /\ flusher_get_segment_from_dsid(d) = i}}]

\* flusher_conclude_stable_epoch, when the client has advanced SE to DE+1: persist
\* the logs of the epoch ...
FlusherPersist ==
  /\ up /\ fpc = "write" /\ durable_epoch < MaxEpoch
  /\ LET m == [from_seg |-> head_dsid, from_off |-> head_off,
               to_seg |-> dsid[Cur], to_off |-> written_bytes[Cur]]
     IN  /\ new_meta' = m
         /\ nv_durable' = [i \in Indexes |-> [x \in Cells |->
                             IF x \in PersistedCells(m)[i] THEN nv[i][x] ELSE nv_durable[i][x]]]
  /\ fpc' = "meta"
  /\ UNCHANGED <<disk, meta, cb_durable_epoch, syncedVars, nv, segmentVars, up,
                 durable_epoch, current_dsid, head_dsid, head_off, fsyncerVars, historyVars>>

\* Variant: the durable epoch is announced without the control block.
FlusherWriteMetaOnly ==
  /\ up /\ fpc = "meta"
  /\ meta' = [meta EXCEPT ![durable_epoch + 1] = new_meta]
  /\ fpc' = "announce"
  /\ UNCHANGED <<nv_durable, disk, cb_durable_epoch, syncedVars, nv, segmentVars, up,
                 durable_epoch, current_dsid, head_dsid, head_off, new_meta, fsyncerVars,
                 historyVars>>

\* ... mds_write_epoch persists its metadata ...
FlusherWriteMeta ==
  /\ up /\ fpc = "meta"
  /\ meta' = [meta EXCEPT ![durable_epoch + 1] = new_meta]
  /\ fpc' = "de"
  /\ UNCHANGED <<nv_durable, disk, cb_durable_epoch, syncedVars, nv, segmentVars, up,
                 durable_epoch, current_dsid, head_dsid, head_off, new_meta, fsyncerVars,
                 historyVars>>

\* mds_update_durable_epoch asserts that DE in the control block never goes back.
\* It does after a restart at a resuming_epoch two or more epochs before it.
DurableEpochGoesBack == durable_epoch + 1 < cb_durable_epoch

\* ... then DE in the control block (the epoch is durable from here on).  In a build
\* with assertions the process ends here if DE goes back (FlusherAssertFails); one
\* without lowers it ...
FlusherUpdateDurableEpoch ==
  /\ up /\ fpc = "de"
  /\ cb_durable_epoch' = durable_epoch + 1
  /\ logs' = [logs EXCEPT ![durable_epoch + 1] = pending]
  /\ pending' = <<>>
  /\ fpc' = "announce"
  /\ UNCHANGED <<nv_durable, disk, meta, syncedVars, nv, segmentVars, up, durable_epoch,
                 current_dsid, head_dsid, head_off, new_meta, fsyncerVars, log_count,
                 announced, crashes>>

\* ... and tell the other threads.
FlusherAnnounce ==
  /\ up /\ fpc = "announce"
  /\ durable_epoch' = durable_epoch + 1
  /\ announced' = durable_epoch + 1
  /\ head_dsid' = dsid[Cur] /\ head_off' = written_bytes[Cur]
  /\ fpc' = "write" /\ new_meta' = NoMeta
  /\ UNCHANGED <<durableVars, nv, segmentVars, up, current_dsid, fsyncerVars, log_count,
                 pending, logs, crashes>>

FlusherStep ==
  \/ FlusherWrite \/ FlusherMoveOn \/ FlusherPersist \/ FlusherWriteMeta
  \/ FlusherUpdateDurableEpoch \/ FlusherAnnounce

----------------------------------------------------------------------------
(* The fsyncer: nvwal_fsync_main and fsyncer_sync_one_segment_to_disk.     *)

SyncIndex == IF last_synced_dsid = kNvwalInvalidDsid THEN 0 ELSE last_synced_dsid % SegmentCount

FsyncerLook ==
  /\ up /\ spc = "look"
  /\ ~fsync_completed[SyncIndex] /\ fsync_requested[SyncIndex]
  /\ sync_dsid' = dsid[SyncIndex]
  /\ spc' = "copy"
  /\ UNCHANGED <<durableVars, nv, segmentVars, up, flusherVars, historyVars>>

\* Write and fsync the file (a crash on the way is part of Crash).
FsyncerCopy ==
  /\ up /\ spc = "copy"
  /\ disk' = [disk EXCEPT ![sync_dsid] = nv[SyncIndex]]
  /\ spc' = "complete"
  /\ UNCHANGED <<nv_durable, meta, cb_durable_epoch, syncedVars, nv, segmentVars, up,
                 flusherVars, sync_dsid, historyVars>>

FsyncerComplete ==
  /\ up /\ spc = "complete"
  /\ fsync_completed' = [fsync_completed EXCEPT ![SyncIndex] = TRUE]
  /\ spc' = "record"
  /\ UNCHANGED <<durableVars, nv, dsid, written_bytes, fsync_requested, up, flusherVars,
                 sync_dsid, historyVars>>

\* The store to the control block: the flusher sees it from here on ...
FsyncerRecord ==
  /\ up /\ spc = "record"
  /\ last_synced_dsid' = sync_dsid
  /\ spc' = "persist"
  /\ UNCHANGED <<nv_durable, disk, meta, cb_durable_epoch, persisted_synced_dsid, nv,
                 segmentVars, up, flusherVars, sync_dsid, historyVars>>

\* ... and a crash keeps it from here on.
FsyncerPersist ==
  /\ up /\ spc = "persist"
  /\ persisted_synced_dsid' = last_synced_dsid
  /\ spc' = "look" /\ sync_dsid' = 0
  /\ UNCHANGED <<nv_durable, disk, meta, cb_durable_epoch, last_synced_dsid, nv,
                 segmentVars, up, flusherVars, historyVars>>

FsyncerStep ==
  FsyncerLook \/ FsyncerCopy \/ FsyncerComplete \/ FsyncerRecord \/ FsyncerPersist

----------------------------------------------------------------------------
(* A crash and the restart after it.                                       *)

\* The logs of the durable epochs.
DurableLogs == UNION {Range(logs[e]) : e \in 1..cb_durable_epoch}

\* The kinds of crash from which the log does not come back: the control block does
\* not say that the fsyncer's segment is on disk,
\*   "unrecorded":  and the flusher has recycled it, for it was released before;
\*   "unpersisted": and its NV copy lacks a log of a durable epoch, which the flusher
\*                  did not persist as it saw the segment on disk.
HazardsOfCrash ==
  LET i == flusher_get_segment_from_dsid(sync_dsid)
  IN  {h \in {"unrecorded", "unpersisted"} :
         /\ spc \in {"record", "persist"} /\ last_synced_dsid' # sync_dsid
         /\ \/ h = "unrecorded" /\ dsid[i] # sync_dsid
            \/ /\ h = "unpersisted" /\ spc = "persist" /\ dsid[i] = sync_dsid
               /\ \E x \in Cells : nv[i][x] \in DurableLogs /\ nv_durable'[i][x] # nv[i][x]}

\* The kinds of restart at epoch de that do not bring the log back.
HazardsAt(de) ==
  LET m == meta[de]
  IN  {h \in {"spanning", "synced_ahead"} :
         \/ h = "spanning" /\ de # kNvwalInvalidEpoch /\ m.from_seg # m.to_seg
         \/ h = "synced_ahead" /\ last_synced_dsid >=
              IF de = kNvwalInvalidEpoch THEN 1 ELSE m.to_seg}

DirtyCells == {c \in Indexes \X Cells : nv[c[1]][c[2]] # nv_durable[c[1]][c[2]]}

\* Of what was not persisted some reaches NVDIMM, the rest does not; a file that was
\* being written is of no use.
ProcessEnds ==
  /\ crashes < MaxCrashes
  /\ \E kept \in SUBSET DirtyCells :
       nv_durable' = [i \in Indexes |-> [x \in Cells |->
                        IF <<i, x>> \in kept THEN nv[i][x] ELSE nv_durable[i][x]]]
  /\ nv' = nv_durable'
  /\ last_synced_dsid' \in {last_synced_dsid, persisted_synced_dsid}
  /\ persisted_synced_dsid' = last_synced_dsid'
  /\ HazardsOfCrash \subseteq Hazards
  /\ disk' = IF spc = "copy" THEN [disk EXCEPT ![sync_dsid] = NoFile] ELSE disk
  /\ up' = FALSE /\ crashes' = crashes + 1 /\ pending' = <<>>
  /\ dsid' = [i \in Indexes |-> kNvwalInvalidDsid]
  /\ written_bytes' = [i \in Indexes |-> 0]
  /\ fsync_requested' = [i \in Indexes |-> FALSE]
  /\ fsync_completed' = [i \in Indexes |-> FALSE]
  /\ durable_epoch' = kNvwalInvalidEpoch /\ current_dsid' = 1 /\ head_dsid' = 1 /\ head_off' = 0
  /\ fpc' = "write" /\ new_meta' = NoMeta /\ spc' = "look" /\ sync_dsid' = 0
  /\ UNCHANGED <<meta, cb_durable_epoch, log_count, logs, announced>>

Crash == up /\ ProcessEnds

\* The assertion of mds_update_durable_epoch, with the epoch's metadata written.
FlusherAssertFails == up /\ fpc = "de" /\ DurableEpochGoesBack /\ ProcessEnds

\* Variant: every segment is taken to be in the round of the last synced one.
ExistingDsidSameRound(i) ==
  IF last_synced_dsid = kNvwalInvalidDsid THEN i + 1
  ELSE ((last_synced_dsid - 1) \div SegmentCount) * SegmentCount + i + 1

\* init_existing_nvram_segment: the dsid of NV segment i, from the last synced one.
\* Dsids are uint64_t, but the round and what is computed from it are uint32_t.
ExistingDsid(i) ==
  LET synced_cycles == ((last_synced_dsid - 1) \div SegmentCount) % UInt32Range
      round == (synced_cycles * SegmentCount + i + 1) % UInt32Range
  IN  IF last_synced_dsid = kNvwalInvalidDsid THEN i + 1
      ELSE IF round > last_synced_dsid THEN round ELSE round + SegmentCount

\* Variant: the fsyncer is not asked for the segments that were full.
ResumeExistingNoRequest(m) ==
  /\ current_dsid' = m.to_seg /\ head_dsid' = m.from_seg /\ head_off' = m.to_off
  /\ dsid' = [i \in Indexes |-> ExistingDsid(i)]
  /\ written_bytes' = [i \in Indexes |->
       IF ExistingDsid(i) > m.to_seg THEN 0
       ELSE IF ExistingDsid(i) = m.to_seg THEN m.to_off ELSE SegmentSize]
  /\ fsync_requested' = [i \in Indexes |-> FALSE]
  /\ UNCHANGED <<nv, nv_durable>>

\* The flusher resumes in the segment in which the durable epoch ends.
ResumeExisting(m) ==
  /\ current_dsid' = m.to_seg /\ head_dsid' = m.from_seg /\ head_off' = m.to_off
  /\ dsid' = [i \in Indexes |-> ExistingDsid(i)]
  /\ written_bytes' = [i \in Indexes |->
       IF ExistingDsid(i) > m.to_seg THEN 0
       ELSE IF ExistingDsid(i) = m.to_seg THEN m.to_off ELSE SegmentSize]
  /\ fsync_requested' = [i \in Indexes |-> ExistingDsid(i) < m.to_seg]
  /\ UNCHANGED <<nv, nv_durable>>

\* init_fresh_nvram_segment for every segment.
ResumeFresh ==
  /\ current_dsid' = 1 /\ head_dsid' = 1 /\ head_off' = 0
  /\ dsid' = [i \in Indexes |-> i + 1]
  /\ written_bytes' = [i \in Indexes |-> 0]
  /\ fsync_requested' = [i \in Indexes |-> FALSE]
  /\ nv' = Zeroed /\ nv_durable' = Zeroed

\* impl_init_no_error_handling on an existing instance.  A resuming_epoch before DE
\* gives up the epochs after it; one after DE is refused, and so are missing files.
nvwal_init(resuming_epoch) ==
  LET de == IF resuming_epoch = kNvwalInvalidEpoch THEN cb_durable_epoch ELSE resuming_epoch
  IN  /\ ~up
      /\ resuming_epoch <= cb_durable_epoch
      /\ \A d \in 1..last_synced_dsid : disk[d] # NoFile
      /\ HazardsAt(de) \subseteq Hazards
      /\ up' = TRUE /\ durable_epoch' = de /\ announced' = de
      /\ IF de = kNvwalInvalidEpoch THEN ResumeFresh ELSE ResumeExisting(meta[de])
      /\ logs' = [e \in Epochs |-> IF e > de THEN Lost ELSE logs[e]]
      /\ UNCHANGED <<disk, meta, cb_durable_epoch, syncedVars, fsync_completed, fpc, new_meta,
                     fsyncerVars, log_count, pending, crashes>>

Next ==
  \/ FlusherStep \/ FlusherAssertFails \/ FsyncerStep \/ Crash
  \/ \E resuming_epoch \in ResumingEpochs : nvwal_init(resuming_epoch)

Spec == Init /\ [][Next]_vars

\* The threads of a running instance are scheduled; nobody has to crash or restart.
FairSpec == Spec /\ WF_vars(FlusherStep) /\ WF_vars(FsyncerStep)

----------------------------------------------------------------------------
(* Properties.                                                             *)

\* What a segment holds: its file once the fsyncer is done with it, else NV.
Content(d) ==
  IF d <= last_synced_dsid \/ (spc = "record" /\ d = sync_dsid)
  THEN disk[d] ELSE nv[flusher_get_segment_from_dsid(d)]

\* The logs in region m.
LogsIn(m) ==
  FlattenSeq([k \in 1..(m.to_seg - m.from_seg + 1) |->
    LET d == m.from_seg + k - 1
    IN  SubSeq(Content(d), IF d = m.from_seg THEN m.from_off + 1 ELSE 1,
                           IF d = m.to_seg THEN m.to_off ELSE SegmentSize)])

\* Whatever crashes and restarts happened, the region recorded for a durable epoch
\* holds exactly the logs written in it, in their order: "We complete bumping up DE
\* exactly at the time we durably bump up this variable" (NvwalControlBlock), the
\* order of the persists in flusher_conclude_stable_epoch, and the positions
\* nvwal_init takes over.
DurableEpochsReadBack ==
  \A e \in 1..cb_durable_epoch : logs[e] # Lost => LogsIn(meta[e]) = logs[e]

\* The running program implements DurableLog: read through metadata, segments and disk
\* files, the log grows by exactly the logs of an epoch when DE reaches the control
\* block, and no copy, recycling, fsync, crash or restart in between changes a byte of
\* a durable epoch or takes one away.
Abstract == INSTANCE DurableLog WITH
  Logs <- 1..MaxLogs, GivenUp <- Lost, open <- pending,
  log <- [e \in 1..cb_durable_epoch |-> IF logs[e] = Lost THEN Lost ELSE LogsIn(meta[e])],
  de <- IF ~up THEN cb_durable_epoch
        ELSE IF fpc = "announce" THEN durable_epoch + 1 ELSE durable_epoch
ImplementsDurableLog == Abstract!Spec

\* An epoch announced to the client is durable in the control block first, so that
\* no crash takes it back: "If the increment didn't reach NV, it didn't happen".
AnnouncedEpochsSurvive == announced <= cb_durable_epoch

\* Each segment between the last synced and the current one has an NV segment to
\* itself, which carries its dsid, after a restart as before (the asserts in
\* init_existing_nvram_segment and flusher_conclude_stable_epoch).
SegmentsCoverTheWindow ==
  up /\ spc # "record" =>
    \A d \in (last_synced_dsid + 1)..current_dsid : dsid[flusher_get_segment_from_dsid(d)] = d

\* A segment that was full when the process ended is copied to disk after the
\* restart: init_existing_nvram_segment asks the fsyncer for it again.
FullSegmentsReachDisk ==
  \A d \in 1..MaxDsid : up /\ d < current_dsid ~> last_synced_dsid >= d \/ ~up

=============================================================================
