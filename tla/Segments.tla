------------------------------- MODULE Segments -------------------------------
(***************************************************************************)
(* The life of the NV segments: the flusher fills them one after the other *)
(* and recycles them in a ring, the fsyncer copies full ones to disk, and  *)
(* cursors read logs of durable epochs from NV or from disk                *)
(* (nvwal_api.c, nvwal_impl_cursor.c).                                     *)
(*                                                                         *)
(* The three meet in the flags of a segment, in its pin counter and in     *)
(* last_synced_dsid_ of the control block, each loaded and stored by       *)
(* itself; a pin is taken or released in one step (module PinLock says     *)
(* why).  A cell of a segment stands for some of its bytes and holds the   *)
(* dsid whose logs were last copied into it.  Assertions are not part of   *)
(* the steps: what they say is stated as properties.                       *)
(***************************************************************************)
EXTENDS Integers, FiniteSets

CONSTANTS
  SegmentCount,     \* segment_count_ = nv_quota_ / segment_size_
  SegmentSize,      \* cells of a segment
  Cursors,          \* open log cursors
  MaxDsid,          \* bound: the last segment the flusher writes to
  Builds,           \* "O0" clears the fsync flags with two stores, "O2" with one
  FailuresAllowed,  \* may open() or write() fail in the fsyncer?
  FsyncMayFail,     \* may fsync() fail?
  StopAllowed       \* may nvwal_uninit stop the threads?

ASSUME SegmentsAssumption ==
  /\ SegmentCount \in Nat \ {0, 1}
  /\ SegmentSize \in Nat \ {0}
  /\ MaxDsid \in Nat \ {0}
  /\ Builds \subseteq {"O0", "O2"} /\ FailuresAllowed \in BOOLEAN
  /\ FsyncMayFail \in BOOLEAN /\ StopAllowed \in BOOLEAN

Indexes == 0..(SegmentCount - 1)
Cells   == 1..SegmentSize
Dsids   == 1..MaxDsid
kNvwalInvalidDsid == 0

VARIABLES
  \* NvwalLogSegment, by index
  dsid, written_bytes, nv_data, nv_reader_pins,
  fsync_requested, fsync_completed, fsync_error,
  \* the flusher; durable_dsid: where the last durable epoch ends
  fpc, current_dsid, durable_dsid,
  \* the fsyncer, the control block, and the files on disk: what they hold, and
  \* which of them fsync() has made durable
  spc, sync_dsid, sync_cells, last_synced_dsid, disk, on_disk,
  \* the cursors
  cpc, cursor_dsid, synced_dsid, from_nv,
  \* the thread nvwal_uninit waits for, and how the library was compiled
  stop, build

segmentVars == <<dsid, written_bytes, nv_data, nv_reader_pins,
                 fsync_requested, fsync_completed, fsync_error>>
flusherVars == <<fpc, current_dsid, durable_dsid>>
fsyncerVars == <<spc, sync_dsid, sync_cells, last_synced_dsid, disk, on_disk>>
cursorVars  == <<cpc, cursor_dsid, synced_dsid, from_nv>>
vars == <<segmentVars, flusherVars, fsyncerVars, cursorVars, stop, build>>

flusher_get_segment_from_dsid(d) == (d - 1) % SegmentCount

Cur      == flusher_get_segment_from_dsid(current_dsid)
Upcoming == flusher_get_segment_from_dsid(current_dsid + 1)

Init ==
  /\ dsid = [i \in Indexes |-> i + 1]
  /\ written_bytes = [i \in Indexes |-> 0]
  /\ nv_data = [i \in Indexes |-> [x \in Cells |-> 0]]
  /\ nv_reader_pins = [i \in Indexes |-> 0]
  /\ fsync_requested = [i \in Indexes |-> FALSE]
  /\ fsync_completed = [i \in Indexes |-> FALSE]
  /\ fsync_error = [i \in Indexes |-> FALSE]
  /\ fpc = "write" /\ current_dsid = 1 /\ durable_dsid = 1
  /\ spc = "look" /\ sync_dsid = 0 /\ sync_cells = 0 /\ last_synced_dsid = kNvwalInvalidDsid
  /\ disk = [d \in Dsids |-> [x \in Cells |-> 0]] /\ on_disk = {}
  /\ cpc = [c \in Cursors |-> "closed"]
  /\ cursor_dsid = [c \in Cursors |-> kNvwalInvalidDsid]
  /\ synced_dsid = [c \in Cursors |-> kNvwalInvalidDsid]
  /\ from_nv = [c \in Cursors |-> FALSE]
  /\ stop = "none" /\ build \in Builds

----------------------------------------------------------------------------
(* The flusher.                                                            *)

OtherThanFlusher == <<fsyncerVars, cursorVars, stop, build>>

\* flusher_copy_one_writer_to_nv copies some bytes to the current segment (bound:
\* segment MaxDsid is not filled).
FlusherWrite ==
  /\ fpc = "write"
  /\ current_dsid < MaxDsid \/ written_bytes[Cur] + 1 < SegmentSize
  /\ nv_data' = [nv_data EXCEPT ![Cur][written_bytes[Cur] + 1] = current_dsid]
  /\ written_bytes' = [written_bytes EXCEPT ![Cur] = @ + 1]
  /\ fpc' = IF written_bytes[Cur] + 1 = SegmentSize THEN "full" ELSE "write"
  /\ UNCHANGED <<OtherThanFlusher, dsid, nv_reader_pins, fsync_requested,
                 fsync_completed, fsync_error, current_dsid, durable_dsid>>

\* flusher_conclude_stable_epoch: all that was copied is durable.
FlusherConclude ==
  /\ fpc = "write"
  /\ durable_dsid' = current_dsid
  /\ UNCHANGED <<OtherThanFlusher, segmentVars, fpc, current_dsid>>

FlusherStop ==
  /\ fpc = "write" /\ stop # "none"
  /\ fpc' = "stopped"
  /\ UNCHANGED <<OtherThanFlusher, segmentVars, current_dsid, durable_dsid>>

\* flusher_move_onto_next_nv_segment: signal to the fsyncer ...
FlusherRequestSync ==
  /\ fpc = "full"
  /\ fsync_requested' = [fsync_requested EXCEPT ![Cur] = TRUE]
  /\ fpc' = "wait"
  /\ UNCHANGED <<OtherThanFlusher, dsid, written_bytes, nv_data, nv_reader_pins,
                 fsync_completed, fsync_error, current_dsid, durable_dsid>>

\* Variant: recycle without waiting for the fsyncer.
FlusherDoesNotWait ==
  /\ fpc = "wait"
  /\ fpc' = "pin"
  /\ UNCHANGED <<OtherThanFlusher, segmentVars, current_dsid, durable_dsid>>

\* Variant: the error of the fsyncer is not looked at while waiting.
FlusherWaitIgnoresError ==
  /\ fpc = "wait"
  /\ fsync_requested[Upcoming] => fsync_completed[Upcoming]
  /\ fpc' = "pin"
  /\ UNCHANGED <<OtherThanFlusher, segmentVars, current_dsid, durable_dsid>>

\* ... wait until the next segment is on disk, or its copying failed ...
FlusherWait ==
  /\ fpc = "wait"
  /\ IF fsync_requested[Upcoming] /\ ~fsync_completed[Upcoming]
     THEN fsync_error[Upcoming] /\ fpc' = "stopped"
     ELSE fpc' = "pin"
  /\ UNCHANGED <<OtherThanFlusher, segmentVars, current_dsid, durable_dsid>>

\* Variant: readers are not waited for.
FlusherPinIgnoresReaders ==
  /\ fpc = "pin"
  /\ fpc' = "recycle"
  /\ UNCHANGED <<OtherThanFlusher, segmentVars, current_dsid, durable_dsid>>

\* ... and until nobody reads it ...
FlusherPin ==
  /\ fpc = "pin"
  /\ nv_reader_pins[Upcoming] = 0
  /\ nv_reader_pins' = [nv_reader_pins EXCEPT ![Upcoming] = -1]
  /\ fpc' = "recycle"
  /\ UNCHANGED <<OtherThanFlusher, dsid, written_bytes, nv_data, fsync_requested,
                 fsync_completed, fsync_error, current_dsid, durable_dsid>>

\* ... and recycle it.
FlusherRecycle ==
  /\ fpc = "recycle"
  /\ dsid' = [dsid EXCEPT ![Upcoming] = current_dsid + 1]
  /\ written_bytes' = [written_bytes EXCEPT ![Upcoming] = 0]
  /\ fpc' = "reset"
  /\ UNCHANGED <<OtherThanFlusher, nv_data, nv_reader_pins, fsync_requested,
                 fsync_completed, fsync_error, current_dsid, durable_dsid>>

\* Variant: fsync_completed_ is not cleared.
FlusherResetForgetsCompleted ==
  /\ fpc = "reset"
  /\ fsync_error' = [fsync_error EXCEPT ![Upcoming] = FALSE]
  /\ fpc' = "reset_requested"
  /\ UNCHANGED <<OtherThanFlusher, dsid, written_bytes, nv_data, nv_reader_pins,
                 fsync_requested, fsync_completed, current_dsid, durable_dsid>>

\* The flags are cleared by plain stores, fsync_completed_ before fsync_requested_.
\* The two are neighbouring bytes: an unoptimised build stores to one after the
\* other, gcc -O2 clears them with a single two-byte store.
FlusherReset ==
  /\ fpc = "reset"
  /\ fsync_completed' = [fsync_completed EXCEPT ![Upcoming] = FALSE]
  /\ fsync_error' = [fsync_error EXCEPT ![Upcoming] = FALSE]
  /\ fsync_requested' = IF build = "O2"
                        THEN [fsync_requested EXCEPT ![Upcoming] = FALSE]
                        ELSE fsync_requested
  /\ fpc' = IF build = "O2" THEN "unpin" ELSE "reset_requested"
  /\ UNCHANGED <<OtherThanFlusher, dsid, written_bytes, nv_data, nv_reader_pins,
                 current_dsid, durable_dsid>>

FlusherResetRequested ==
  /\ fpc = "reset_requested"
  /\ fsync_requested' = [fsync_requested EXCEPT ![Upcoming] = FALSE]
  /\ fpc' = "unpin"
  /\ UNCHANGED <<OtherThanFlusher, dsid, written_bytes, nv_data, nv_reader_pins,
                 fsync_completed, fsync_error, current_dsid, durable_dsid>>

FlusherUnpin ==
  /\ fpc = "unpin"
  /\ nv_reader_pins' = [nv_reader_pins EXCEPT ![Upcoming] = 0]
  /\ current_dsid' = current_dsid + 1
  /\ fpc' = "write"
  /\ UNCHANGED <<OtherThanFlusher, dsid, written_bytes, nv_data, fsync_requested,
                 fsync_completed, fsync_error, durable_dsid>>

FlusherStep ==
  \/ FlusherWrite \/ FlusherConclude \/ FlusherStop \/ FlusherRequestSync
  \/ FlusherWait \/ FlusherPin \/ FlusherRecycle \/ FlusherReset
  \/ FlusherResetRequested \/ FlusherUnpin

----------------------------------------------------------------------------
(* The fsyncer: nvwal_fsync_main and fsyncer_sync_one_segment_to_disk.     *)

OtherThanFsyncer == <<dsid, written_bytes, nv_data, nv_reader_pins, fsync_requested,
                      flusherVars, cursorVars, stop, build>>

\* The segment after the last one that was synced.
SyncIndex == IF last_synced_dsid = kNvwalInvalidDsid THEN 0 ELSE last_synced_dsid % SegmentCount

FsyncerStop ==
  /\ spc = "look" /\ stop = "fsyncer"
  /\ spc' = "stopped"
  /\ UNCHANGED <<OtherThanFsyncer, fsync_completed, fsync_error, sync_dsid, sync_cells,
                 last_synced_dsid, disk, on_disk>>

\* The loads of the two flags, fsync_completed_ first.
FsyncerLook ==
  /\ spc = "look" /\ stop # "fsyncer"
  /\ ~fsync_completed[SyncIndex]
  /\ spc' = "requested"
  /\ UNCHANGED <<OtherThanFsyncer, fsync_completed, fsync_error, sync_dsid, sync_cells,
                 last_synced_dsid, disk, on_disk>>

\* Variant: a segment that is not completed is taken for a requested one.
FsyncerSkipsRequested ==
  /\ spc = "requested"
  /\ spc' = "begin"
  /\ UNCHANGED <<OtherThanFsyncer, fsync_completed, fsync_error, sync_dsid, sync_cells,
                 last_synced_dsid, disk, on_disk>>

FsyncerCheckRequested ==
  /\ spc = "requested"
  /\ spc' = IF fsync_requested[SyncIndex] THEN "begin" ELSE "look"
  /\ UNCHANGED <<OtherThanFsyncer, fsync_completed, fsync_error, sync_dsid, sync_cells,
                 last_synced_dsid, disk, on_disk>>

FsyncerBegin ==
  /\ spc = "begin"
  /\ sync_dsid' = dsid[SyncIndex]
  /\ sync_cells' = 0
  /\ fsync_error' = [fsync_error EXCEPT ![SyncIndex] = FALSE]
  /\ spc' = "copy"
  /\ UNCHANGED <<OtherThanFsyncer, fsync_completed, last_synced_dsid, disk, on_disk>>

\* One write() to the file of the segment, and the look at a stop request that
\* follows it.
FsyncerWrite ==
  /\ spc = "copy"
  /\ disk' = [disk EXCEPT ![sync_dsid][sync_cells + 1] = nv_data[SyncIndex][sync_cells + 1]]
  /\ sync_cells' = sync_cells + 1
  /\ IF stop = "fsyncer"
     THEN /\ fsync_error' = [fsync_error EXCEPT ![SyncIndex] = TRUE]
          /\ spc' = "stopped"
     ELSE /\ spc' = IF sync_cells + 1 = SegmentSize THEN "fsync" ELSE "copy"
          /\ UNCHANGED fsync_error
  /\ UNCHANGED <<OtherThanFsyncer, fsync_completed, sync_dsid, last_synced_dsid, on_disk>>

\* open() or write() fails: the error is left in the segment and the fsyncer ends.
FsyncerFail ==
  /\ FailuresAllowed
  /\ spc = "copy"
  /\ fsync_error' = [fsync_error EXCEPT ![SyncIndex] = TRUE]
  /\ spc' = "stopped"
  /\ UNCHANGED <<OtherThanFsyncer, fsync_completed, sync_dsid, sync_cells,
                 last_synced_dsid, disk, on_disk>>

\* fsync(); what it returns is not looked at.
FsyncerFsync ==
  /\ spc = "fsync"
  /\ \/ on_disk' = on_disk \cup {sync_dsid}
     \/ FsyncMayFail /\ UNCHANGED on_disk
  /\ spc' = "complete"
  /\ UNCHANGED <<OtherThanFsyncer, fsync_completed, fsync_error, sync_dsid, sync_cells,
                 last_synced_dsid, disk>>

\* Tell the flusher ...
FsyncerComplete ==
  /\ spc = "complete"
  /\ fsync_completed' = [fsync_completed EXCEPT ![SyncIndex] = TRUE]
  /\ spc' = "record"
  /\ UNCHANGED <<OtherThanFsyncer, fsync_error, sync_dsid, sync_cells,
                 last_synced_dsid, disk, on_disk>>

\* ... then record it in the control block.
FsyncerRecord ==
  /\ spc = "record"
  /\ last_synced_dsid' = sync_dsid
  /\ spc' = "look"
  /\ UNCHANGED <<OtherThanFsyncer, fsync_completed, fsync_error, sync_dsid, sync_cells,
                 disk, on_disk>>

FsyncerStep ==
  \/ FsyncerStop \/ FsyncerLook \/ FsyncerCheckRequested \/ FsyncerBegin
  \/ FsyncerWrite \/ FsyncerFsync \/ FsyncerComplete \/ FsyncerRecord

----------------------------------------------------------------------------
(* A cursor: cursor_open_segment and cursor_close_cur_segment.             *)

OtherThanCursor == <<dsid, written_bytes, nv_data, fsync_requested, fsync_completed,
                     fsync_error, flusherVars, fsyncerVars, stop, build>>

CursorIndex(c) == flusher_get_segment_from_dsid(cursor_dsid[c])

\* The metadata of a durable epoch leads a cursor to segment d.
CursorOpen(c, d) ==
  /\ cpc[c] = "closed"
  /\ d <= durable_dsid
  /\ cursor_dsid' = [cursor_dsid EXCEPT ![c] = d]
  /\ cpc' = [cpc EXCEPT ![c] = "load"]
  /\ UNCHANGED <<OtherThanCursor, nv_reader_pins, synced_dsid, from_nv>>

\* Is the segment on disk?  Then its file is mapped.
CursorLoadSynced(c) ==
  /\ cpc[c] = "load"
  /\ synced_dsid' = [synced_dsid EXCEPT ![c] = last_synced_dsid]
  /\ from_nv' = [from_nv EXCEPT ![c] = FALSE]
  /\ cpc' = [cpc EXCEPT ![c] =
       IF last_synced_dsid # kNvwalInvalidDsid /\ cursor_dsid[c] <= last_synced_dsid
       THEN "open" ELSE "pin"]
  /\ UNCHANGED <<OtherThanCursor, nv_reader_pins, cursor_dsid>>

\* nvwal_pin_read_unconditional_lock.
CursorPin(c) ==
  /\ cpc[c] = "pin"
  /\ nv_reader_pins[CursorIndex(c)] >= 0
  /\ nv_reader_pins' = [nv_reader_pins EXCEPT ![CursorIndex(c)] = @ + 1]
  /\ cpc' = [cpc EXCEPT ![c] = "check"]
  /\ UNCHANGED <<OtherThanCursor, cursor_dsid, synced_dsid, from_nv>>

\* Only if something was synced meanwhile is the segment looked at again.
CursorCheck(c) ==
  /\ cpc[c] = "check"
  /\ IF synced_dsid[c] # last_synced_dsid /\ dsid[CursorIndex(c)] # cursor_dsid[c]
     THEN /\ nv_reader_pins' = [nv_reader_pins EXCEPT ![CursorIndex(c)] = @ - 1]
          /\ cpc' = [cpc EXCEPT ![c] = "load"]
          /\ UNCHANGED from_nv
     ELSE /\ cpc' = [cpc EXCEPT ![c] = "open"]
          /\ from_nv' = [from_nv EXCEPT ![c] = TRUE]
          /\ UNCHANGED nv_reader_pins
  /\ UNCHANGED <<OtherThanCursor, cursor_dsid, synced_dsid>>

CursorClose(c) ==
  /\ cpc[c] = "open"
  /\ nv_reader_pins' = IF from_nv[c]
                       THEN [nv_reader_pins EXCEPT ![CursorIndex(c)] = @ - 1]
                       ELSE nv_reader_pins
  /\ from_nv' = [from_nv EXCEPT ![c] = FALSE]
  /\ cursor_dsid' = [cursor_dsid EXCEPT ![c] = kNvwalInvalidDsid]
  /\ synced_dsid' = [synced_dsid EXCEPT ![c] = kNvwalInvalidDsid]
  /\ cpc' = [cpc EXCEPT ![c] = "closed"]
  /\ UNCHANGED OtherThanCursor

CursorStep(c) ==
  CursorLoadSynced(c) \/ CursorPin(c) \/ CursorCheck(c) \/ CursorClose(c)

----------------------------------------------------------------------------
\* Variant: the fsyncer is stopped first.
UninitFsyncerFirst ==
  /\ StopAllowed /\ stop = "none" /\ stop' = "fsyncer"
  /\ UNCHANGED <<segmentVars, flusherVars, fsyncerVars, cursorVars, build>>

\* nvwal_impl_uninit stops the flusher first, then the fsyncer.
Uninit ==
  /\ \/ StopAllowed /\ stop = "none" /\ stop' = "flusher"
     \/ stop = "flusher" /\ fpc = "stopped" /\ stop' = "fsyncer"
  /\ UNCHANGED <<segmentVars, flusherVars, fsyncerVars, cursorVars, build>>

Next ==
  \/ FlusherStep
  \/ FsyncerStep \/ FsyncerFail
  \/ \E c \in Cursors, d \in Dsids : CursorOpen(c, d)
  \/ \E c \in Cursors : CursorStep(c)
  \/ Uninit

Spec == Init /\ [][Next]_vars

\* The threads are scheduled, nvwal_uninit goes on once it has begun, and a client
\* closes the cursors it has opened.
FairSpec ==
  /\ Spec
  /\ WF_vars(FlusherStep) /\ WF_vars(FsyncerStep)
  /\ WF_vars(stop # "none" /\ Uninit)
  /\ \A c \in Cursors : WF_vars(CursorStep(c))

----------------------------------------------------------------------------
(* Properties.                                                             *)

\* The file of segment d holds all of d's logs, and durably.
CompleteOnDisk(d) == disk[d] = [x \in Cells |-> d] /\ d \in on_disk

\* The flusher overwrites a segment only when its logs are durable on disk: the
\* wait in flusher_move_onto_next_nv_segment, against the fsyncer's progress.  In an
\* unoptimised build the fsyncer may meet flags that are half reset.
RecycledSegmentIsOnDisk ==
  build = "O2" =>
    \A d \in Dsids :
      d < current_dsid /\ dsid[flusher_get_segment_from_dsid(d)] # d => CompleteOnDisk(d)

\* "All segments up to last_synced_dsid_ are on disk": a cursor that finds its dsid
\* covered maps the file, without a further look at the flags.
SyncedSegmentIsOnDisk ==
  build = "O2" => \A d \in Dsids : d <= last_synced_dsid => CompleteOnDisk(d)

\* While a cursor holds a segment on NV, neither its dsid nor the durable logs in
\* it change: "While this is not zero, we must not recycle this segment".
PinnedSegmentStays ==
  [][\A c \in Cursors : cpc[c] = "open" /\ from_nv[c] /\ cpc'[c] = "open" =>
       LET i == CursorIndex(c)
       IN  /\ dsid'[i] = dsid[i]
           /\ \A x \in Cells : x <= written_bytes[i] => nv_data'[i][x] = nv_data[i][x]]_vars

\* A cursor reads NV segment nv_segment only if that holds the dsid it asked for
\* (the assert in cursor_open_segment).
CursorOpensItsSegment ==
  \A c \in Cursors : cpc[c] = "open" /\ from_nv[c] => dsid[CursorIndex(c)] = cursor_dsid[c]

NoCursorFromSomeTimeOn == <>[](\A c \in Cursors : cpc[c] = "closed")

\* The flusher does not hang on a full segment: it gets the next one, or it ends
\* because the fsyncer failed, provided readers leave the segments alone at last.
FlusherMovesOn ==
  NoCursorFromSomeTimeOn => (fpc = "full" ~> fpc \in {"write", "stopped"})

\* A segment the flusher has filled reaches the disk, or the fsyncer has ended.
FullSegmentReachesDisk ==
  \A d \in Dsids :
    fpc = "wait" /\ current_dsid = d ~> last_synced_dsid >= d \/ spc = "stopped"

\* nvwal_uninit returns, whatever the two threads are waiting for when it is called.
UninitReturns ==
  NoCursorFromSomeTimeOn => (stop # "none" ~> fpc = "stopped" /\ spc = "stopped")

=============================================================================
