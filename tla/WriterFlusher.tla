---------------------------- MODULE WriterFlusher ----------------------------
(***************************************************************************)
(* Writers hand log bytes to the flusher through circular buffers, and the *)
(* flusher turns stable epochs into durable ones (nvwal_api.c).            *)
(*                                                                         *)
(* A writer marks what it has put into its buffer in a ring of epoch       *)
(* frames; the flusher copies the frames of epoch DE+1 to the current NV   *)
(* segment and, once that epoch is stable, records where its logs lie and  *)
(* announces it durable.  There is no lock: the order of single stores is  *)
(* all that protects the two sides from each other, so every store to, or  *)
(* load of, a shared variable is a step of its own wherever the other side *)
(* can tell the difference.                                                *)
(*                                                                         *)
(* Bytes are numbered 1, 2, ... per writer; a buffer cell holds the number *)
(* of the byte last put there.  The NV segments are one stream here: the   *)
(* hand-over of full segments to the fsyncer is the module Segments, the   *)
(* metadata store's pages are not looked into.  Epochs are naturals (0 is  *)
(* kNvwalInvalidEpoch), far from the 2^64 wrap-around.                     *)
(***************************************************************************)
EXTENDS Integers, Sequences, FiniteSetsExt, Functions

CONSTANTS
  WriterCount,      \* config_.writer_count_
  FrameCount,       \* kNvwalEpochFrameCount
  BufferSize,       \* config_.writer_buffer_size_
  SegmentSize,      \* config_.segment_size_
  Callers,          \* threads that call nvwal_advance_stable_epoch
  Tags,             \* user metadata the client assigns
  MaxAhead,         \* the client writes logs in SE+1 .. SE+MaxAhead only
  MaxWrite,         \* most bytes the client passes in one nvwal_on_wal_write
  MaxEpoch,         \* bound: epochs the client uses
  MaxBytes,         \* bound: bytes each writer writes
  MaxTagged,        \* bound: epochs the client tags
  StopAllowed,      \* may nvwal_uninit request the flusher to stop?
  FailuresAllowed   \* may the fsyncer or the metadata store fail?

ASSUME ConfigAssumption ==
  /\ WriterCount \in Nat \ {0}
  /\ FrameCount \in Nat \ {0}
  /\ BufferSize \in Nat \ {0}
  /\ SegmentSize \in Nat \ {0}
  /\ MaxAhead \in 1..(FrameCount - 1)
  /\ MaxWrite \in Nat /\ 2 * MaxWrite < BufferSize
  /\ MaxEpoch \in Nat /\ MaxBytes \in Nat /\ MaxTagged \in Nat
  /\ Tags \subseteq Nat
  /\ StopAllowed \in BOOLEAN /\ FailuresAllowed \in BOOLEAN

Writers == 0..(WriterCount - 1)
Frames  == 0..(FrameCount - 1)
Offsets == 0..(BufferSize - 1)
kNvwalInvalidEpoch == 0

VARIABLES
  durable_epoch, stable_epoch,
  \* writer contexts and their epoch frames
  log_epoch, head_offset, tail_offset, user_metadata,
  active_frame, last_tail_offset, buffer,
  \* the calls in progress: nvwal_on_wal_write and nvwal_advance_stable_epoch
  wpc, bytes_written, call_epoch, cpc, expected,
  \* locals of the flusher, and the state only the flusher touches
  fpc, target_epoch, is_stable, cur_writer, cur_frame, copied,
  flusher_metadata, current_dsid, written_bytes, head_dsid, head_off,
  \* what ends up in NV: the log stream and the epoch metadata
  nv_log, mds,
  \* the client: epochs it has closed, bytes it has submitted, the last tag of
  \* each epoch that reached a frame, and its request to stop
  closed, submitted, tagged, stop

epochVars   == <<durable_epoch, stable_epoch>>
frameVars   == <<log_epoch, head_offset, tail_offset, user_metadata>>
writerVars  == <<active_frame, last_tail_offset, buffer>>
callVars    == <<wpc, bytes_written, call_epoch>>
callerVars  == <<cpc, expected>>
flusherVars == <<fpc, target_epoch, is_stable, cur_writer, cur_frame, copied>>
segmentVars == <<flusher_metadata, current_dsid, written_bytes, head_dsid, head_off, nv_log, mds>>
clientVars  == <<closed, submitted, tagged, stop>>
vars == <<epochVars, frameVars, writerVars, callVars, callerVars,
          flusherVars, segmentVars, clientVars>>

----------------------------------------------------------------------------
(* Offsets and frames.                                                     *)

wrap_writer_epoch_frame(f) == IF f < FrameCount THEN f ELSE f - FrameCount

\* Variant: the offset is not wrapped.
OffsetNotWrapped(o) == o

wrap_writer_offset(o) == IF o < BufferSize THEN o ELSE o - BufferSize

calculate_writer_offset_distance(left, right) ==
  IF left <= right THEN right - left ELSE right + BufferSize - left

FrameDistance(w, f) ==
  calculate_writer_offset_distance(head_offset[w][f], tail_offset[w][f])

\* nvwal_circular_memcpy out of the buffer of w.
CircularRead(w, from, count) ==
  [i \in 1..count |-> buffer[w][(from + i - 1) % BufferSize]]

\* The frames whose logs are counted as occupying the buffer.
LiveFrames(w) ==
  {f \in Frames : /\ log_epoch[w][f] # kNvwalInvalidEpoch
                  /\ log_epoch[w][f] > durable_epoch
                  /\ log_epoch[w][f] < durable_epoch + FrameCount}

ConsumedBytes(w) ==
  SumFunctionOnSet([f \in Frames |-> FrameDistance(w, f)], LiveFrames(w))

\* Variant: the whole buffer may be consumed, not half of it.
WholeBufferMayBeUsed(w) ==
  ConsumedBytes(w) <= BufferSize

\* The loads of one call are taken together: only the caller adds to what is
\* consumed, so a call that reads frame by frame answers no more generously.
nvwal_has_enough_writer_space(w) ==
  2 * ConsumedBytes(w) <= BufferSize

\* The frame of epoch e: the scan takes the first one.  Taken in one step,
\* because a frame of epoch e appears once and stays while e is not durable.
HasFrame(w, e) == \E f \in Frames : log_epoch[w][f] = e
FrameOf(w, e)  == Min({f \in Frames : log_epoch[w][f] = e})

----------------------------------------------------------------------------
Init ==
  /\ durable_epoch = kNvwalInvalidEpoch /\ stable_epoch = kNvwalInvalidEpoch
  /\ log_epoch     = [w \in Writers |-> [f \in Frames |-> kNvwalInvalidEpoch]]
  /\ head_offset   = [w \in Writers |-> [f \in Frames |-> 0]]
  /\ tail_offset   = [w \in Writers |-> [f \in Frames |-> 0]]
  /\ user_metadata = [w \in Writers |-> [f \in Frames |-> 0]]
  /\ active_frame     = [w \in Writers |-> 0]
  /\ last_tail_offset = [w \in Writers |-> 0]
  /\ buffer           = [w \in Writers |-> [o \in Offsets |-> 0]]
  /\ wpc           = [w \in Writers |-> "idle"]
  /\ bytes_written = [w \in Writers |-> 0]
  /\ call_epoch    = [w \in Writers |-> 0]
  /\ cpc = [c \in Callers |-> "idle"] /\ expected = [c \in Callers |-> 0]
  /\ fpc = "main" /\ target_epoch = 0 /\ is_stable = FALSE
  /\ cur_writer = 0 /\ cur_frame = 0 /\ copied = 0
  /\ flusher_metadata = 0
  /\ current_dsid = 1 /\ written_bytes = 0 /\ head_dsid = 1 /\ head_off = 0
  /\ nv_log = <<>> /\ mds = <<>>
  /\ closed = 0 /\ submitted = [w \in Writers |-> <<>>]
  /\ tagged = [e \in 1..MaxEpoch |-> <<>>] /\ stop = FALSE

----------------------------------------------------------------------------
(* The client (external).                                                  *)

\* A worker that saw enough space puts count bytes behind the last ones and
\* calls nvwal_on_wal_write.  The epochs a writer gives never decrease, are
\* not closed, and are at most MaxAhead beyond SE.
ClientWrite(w, count, e) ==
  /\ wpc[w] = "idle"
  /\ nvwal_has_enough_writer_space(w)
  /\ Len(submitted[w]) + count <= MaxBytes
  /\ e > closed /\ e <= stable_epoch + MaxAhead /\ e >= call_epoch[w]
  /\ buffer' = [buffer EXCEPT ![w] = [o \in Offsets |->
       LET i == calculate_writer_offset_distance(last_tail_offset[w], o)
       IN  IF i < count THEN Len(submitted[w]) + 1 + i ELSE buffer[w][o]]]
  /\ wpc' = [wpc EXCEPT ![w] = "assure"]
  /\ bytes_written' = [bytes_written EXCEPT ![w] = count]
  /\ call_epoch' = [call_epoch EXCEPT ![w] = e]
  /\ UNCHANGED <<epochVars, frameVars, active_frame, last_tail_offset,
                 callerVars, flusherVars, segmentVars, clientVars>>

\* The client decides that no more logs come in epoch closed + 1.
CloseEpoch ==
  /\ closed < MaxEpoch
  /\ \A w \in Writers : wpc[w] # "idle" => call_epoch[w] > closed + 1
  /\ closed' = closed + 1
  /\ UNCHANGED <<epochVars, frameVars, writerVars, callVars, callerVars,
                 flusherVars, segmentVars, submitted, tagged, stop>>

\* nvwal_uninit asks the flusher to stop.
RequestStop ==
  /\ StopAllowed /\ ~stop
  /\ stop' = TRUE
  /\ UNCHANGED <<epochVars, frameVars, writerVars, callVars, callerVars,
                 flusherVars, segmentVars, closed, submitted, tagged>>

----------------------------------------------------------------------------
(* nvwal_on_wal_write.                                                     *)

OtherThanWriter == <<epochVars, callerVars, flusherVars, segmentVars>>

\* Variant: the active frame is overwritten instead of moving on to the next.
AssureOverwritesFrame(w) ==
  /\ wpc[w] = "assure"
  /\ IF log_epoch[w][active_frame[w]] = call_epoch[w]
     THEN wpc' = [wpc EXCEPT ![w] = "publish"] /\ UNCHANGED head_offset
     ELSE /\ wpc' = [wpc EXCEPT ![w] = "frame_tail"]
          /\ head_offset' = [head_offset EXCEPT ![w][active_frame[w]] = last_tail_offset[w]]
  /\ UNCHANGED <<OtherThanWriter, active_frame, log_epoch, tail_offset, user_metadata,
                 last_tail_offset, buffer, bytes_written, call_epoch, clientVars>>

\* assure_writer_active_frame: nothing to do for the epoch of the active frame;
\* otherwise take the active frame if it was never used, else the next one, and
\* store its head.
AssureActiveFrame(w) ==
  /\ wpc[w] = "assure"
  /\ LET cur == active_frame[w]
         f   == IF log_epoch[w][cur] = kNvwalInvalidEpoch
                THEN cur ELSE wrap_writer_epoch_frame(cur + 1)
     IN  IF log_epoch[w][cur] = call_epoch[w]
         THEN /\ wpc' = [wpc EXCEPT ![w] = "publish"]
              /\ UNCHANGED <<active_frame, head_offset>>
         ELSE /\ wpc' = [wpc EXCEPT ![w] = "frame_tail"]
              /\ active_frame' = [active_frame EXCEPT ![w] = f]
              /\ head_offset' = [head_offset EXCEPT ![w][f] = last_tail_offset[w]]
  /\ UNCHANGED <<OtherThanWriter, log_epoch, tail_offset, user_metadata,
                 last_tail_offset, buffer, bytes_written, call_epoch, clientVars>>

\* Variant: the epoch is stored before the tail, so the flusher sees the frame early.
StoreEpochWithStaleTail(w) ==
  /\ wpc[w] = "frame_tail"
  /\ log_epoch' = [log_epoch EXCEPT ![w][active_frame[w]] = call_epoch[w]]
  /\ wpc' = [wpc EXCEPT ![w] = "frame_epoch"]
  /\ UNCHANGED <<OtherThanWriter, tail_offset, head_offset, user_metadata,
                 writerVars, bytes_written, call_epoch, clientVars>>

StoreFrameTail(w) ==
  /\ wpc[w] = "frame_tail"
  /\ tail_offset' = [tail_offset EXCEPT ![w][active_frame[w]] = last_tail_offset[w]]
  /\ wpc' = [wpc EXCEPT ![w] = "frame_epoch"]
  /\ UNCHANGED <<OtherThanWriter, log_epoch, head_offset, user_metadata,
                 writerVars, bytes_written, call_epoch, clientVars>>

\* The store that lets the flusher see the frame.
StoreFrameEpoch(w) ==
  /\ wpc[w] = "frame_epoch"
  /\ log_epoch' = [log_epoch EXCEPT ![w][active_frame[w]] = call_epoch[w]]
  /\ wpc' = [wpc EXCEPT ![w] = "publish"]
  /\ UNCHANGED <<OtherThanWriter, head_offset, tail_offset, user_metadata,
                 writerVars, bytes_written, call_epoch, clientVars>>

\* The new tail: from here on the flusher may copy the bytes.
PublishTail(w) ==
  /\ wpc[w] = "publish"
  /\ LET f    == active_frame[w]
         tail == wrap_writer_offset(tail_offset[w][f] + bytes_written[w])
     IN  /\ last_tail_offset' = [last_tail_offset EXCEPT ![w] = tail]
         /\ tail_offset' = [tail_offset EXCEPT ![w][f] = tail]
  /\ submitted' = [submitted EXCEPT ![w] =
       @ \o [i \in 1..bytes_written[w] |-> call_epoch[w]]]
  /\ wpc' = [wpc EXCEPT ![w] = "idle"]
  /\ UNCHANGED <<OtherThanWriter, log_epoch, head_offset, user_metadata,
                 active_frame, buffer, bytes_written, call_epoch,
                 closed, tagged, stop>>

\* nvwal_tag_epoch.  One writer tags an epoch (two make a data race, says the
\* API).  A tag for an epoch the writer has no frame of, as it has written
\* nothing in it yet, is dropped: the call returns 0 and leaves no trace.
TagEpoch(w, e, tag) ==
  /\ wpc[w] = "idle"
  /\ e > closed /\ e <= stable_epoch + MaxAhead
  /\ tagged[e] # <<>> => tagged[e][1] = w
  /\ Cardinality({d \in 1..MaxEpoch : tagged[d] # <<>>} \cup {e}) <= MaxTagged
  /\ IF HasFrame(w, e)
     THEN /\ user_metadata' = [user_metadata EXCEPT ![w][FrameOf(w, e)] = tag]
          /\ tagged' = [tagged EXCEPT ![e] = <<w, tag>>]
     ELSE UNCHANGED <<user_metadata, tagged>>
  /\ UNCHANGED <<OtherThanWriter, log_epoch, head_offset, tail_offset,
                 writerVars, callVars, closed, submitted, stop>>

----------------------------------------------------------------------------
(* nvwal_advance_stable_epoch(wal, e), for an epoch the client has closed. *)

OtherThanCaller == <<durable_epoch, frameVars, writerVars, callVars,
                     flusherVars, segmentVars, clientVars>>

\* The load of durable_epoch_; any other e returns without effect.
AdvanceLoad(c, e) ==
  /\ cpc[c] = "idle"
  /\ e <= closed
  /\ durable_epoch + 1 = e
  /\ expected' = [expected EXCEPT ![c] = durable_epoch]
  /\ cpc' = [cpc EXCEPT ![c] = "cas"]
  /\ UNCHANGED <<OtherThanCaller, stable_epoch>>

\* Variant: the weak compare-and-swap, which may fail for no reason.
AdvanceWeakCas(c) ==
  /\ cpc[c] = "cas"
  /\ \/ stable_epoch' = IF stable_epoch = expected[c] THEN expected[c] + 1 ELSE stable_epoch
     \/ UNCHANGED stable_epoch
  /\ cpc' = [cpc EXCEPT ![c] = "idle"]
  /\ UNCHANGED <<OtherThanCaller, expected>>

AdvanceCas(c) ==
  /\ cpc[c] = "cas"
  /\ stable_epoch' = IF stable_epoch = expected[c] THEN expected[c] + 1 ELSE stable_epoch
  /\ cpc' = [cpc EXCEPT ![c] = "idle"]
  /\ UNCHANGED <<OtherThanCaller, expected>>

----------------------------------------------------------------------------
(* nvwal_flusher_main, flusher_main_loop, flusher_copy_one_writer_to_nv.   *)

OtherThanFlusher == <<stable_epoch, log_epoch, tail_offset, user_metadata,
                      writerVars, callVars, callerVars, clientVars>>

\* The test at the top of nvwal_flusher_main's loop.
FlusherStop ==
  /\ fpc = "main" /\ stop
  /\ fpc' = "stopped"
  /\ UNCHANGED <<OtherThanFlusher, durable_epoch, head_offset, segmentVars,
                 target_epoch, is_stable, cur_writer, cur_frame, copied>>

\* Variant: SE is compared with the epoch after the one to be written.
FlusherBeginOffByOne ==
  /\ fpc = "main" /\ ~stop
  /\ target_epoch' = durable_epoch + 1
  /\ is_stable' = (durable_epoch + 2 = stable_epoch)
  /\ cur_writer' = 0
  /\ fpc' = "find"
  /\ UNCHANGED <<OtherThanFlusher, durable_epoch, head_offset, segmentVars,
                 cur_frame, copied>>

\* flusher_main_loop looks at DE and SE once, before it looks at any writer.
FlusherBegin ==
  /\ fpc = "main" /\ ~stop
  /\ target_epoch' = durable_epoch + 1
  /\ is_stable' = (durable_epoch + 1 = stable_epoch)
  /\ cur_writer' = 0
  /\ fpc' = "find"
  /\ UNCHANGED <<OtherThanFlusher, durable_epoch, head_offset, segmentVars,
                 cur_frame, copied>>

\* Variant: a tag that is already there is not replaced.
FlusherFindKeepsOldTag ==
  /\ fpc = "find"
  /\ IF HasFrame(cur_writer, target_epoch)
     THEN LET f   == FrameOf(cur_writer, target_epoch)
              tag == user_metadata[cur_writer][f]
          IN  /\ cur_frame' = f
              /\ flusher_metadata' =
                   IF is_stable /\ flusher_metadata = 0 THEN tag ELSE flusher_metadata
              /\ fpc' = "load"
     ELSE fpc' = "next" /\ UNCHANGED <<cur_frame, flusher_metadata>>
  /\ UNCHANGED <<OtherThanFlusher, durable_epoch, head_offset, target_epoch, is_stable,
                 cur_writer, copied, current_dsid, written_bytes, head_dsid, head_off,
                 nv_log, mds>>

\* Find the frame of target_epoch; in a stable epoch keep its non-zero tag.
FlusherFind ==
  /\ fpc = "find"
  /\ IF HasFrame(cur_writer, target_epoch)
     THEN LET f   == FrameOf(cur_writer, target_epoch)
              tag == user_metadata[cur_writer][f]
          IN  /\ cur_frame' = f
              /\ flusher_metadata' = IF is_stable /\ tag # 0 THEN tag ELSE flusher_metadata
              /\ fpc' = "load"
     ELSE fpc' = "next" /\ UNCHANGED <<cur_frame, flusher_metadata>>
  /\ UNCHANGED <<OtherThanFlusher, durable_epoch, head_offset, target_epoch, is_stable,
                 cur_writer, copied, current_dsid, written_bytes, head_dsid, head_off,
                 nv_log, mds>>

\* The loads of head and tail, and how much fits the current segment.
FlusherLoad ==
  /\ fpc = "load"
  /\ LET distance == FrameDistance(cur_writer, cur_frame)
     IN  /\ copied' = Min({SegmentSize - written_bytes, distance})
         /\ fpc' = IF distance = 0 THEN "next" ELSE "copy"
  /\ UNCHANGED <<OtherThanFlusher, durable_epoch, head_offset, segmentVars,
                 target_epoch, is_stable, cur_writer, cur_frame>>

FlusherCopy ==
  /\ fpc = "copy"
  /\ LET bytes == CircularRead(cur_writer, head_offset[cur_writer][cur_frame], copied)
     IN  nv_log' = nv_log \o
           [i \in 1..copied |-> [writer |-> cur_writer, byte |-> bytes[i],
                                 epoch |-> target_epoch]]
  /\ fpc' = "head"
  /\ UNCHANGED <<OtherThanFlusher, durable_epoch, head_offset, target_epoch, is_stable,
                 cur_writer, cur_frame, copied, flusher_metadata, current_dsid,
                 written_bytes, head_dsid, head_off, mds>>

\* The new head, which gives the space back to the writer.  When the segment is
\* not full everything that was seen has been copied.
FlusherStoreHead ==
  /\ fpc = "head"
  /\ head_offset' = [head_offset EXCEPT ![cur_writer][cur_frame] =
                       wrap_writer_offset(@ + copied)]
  /\ written_bytes' = written_bytes + copied
  /\ copied' = 0
  /\ fpc' = IF written_bytes' = SegmentSize THEN "move" ELSE "next"
  /\ UNCHANGED <<OtherThanFlusher, durable_epoch, target_epoch, is_stable, cur_writer,
                 cur_frame, flusher_metadata, current_dsid, head_dsid, head_off,
                 nv_log, mds>>

\* flusher_move_onto_next_nv_segment, in one step.
FlusherMoveOn ==
  /\ fpc = "move"
  /\ current_dsid' = current_dsid + 1
  /\ written_bytes' = 0
  /\ fpc' = "load"
  /\ UNCHANGED <<OtherThanFlusher, durable_epoch, head_offset, target_epoch, is_stable,
                 cur_writer, cur_frame, copied, flusher_metadata, head_dsid, head_off,
                 nv_log, mds>>

\* An error of the fsyncer or of the metadata store ends the flusher.
FlusherFail ==
  /\ FailuresAllowed
  /\ fpc = "move" \/ (fpc = "conclude" /\ is_stable)
  /\ fpc' = "stopped"
  /\ UNCHANGED <<OtherThanFlusher, durable_epoch, head_offset, segmentVars,
                 target_epoch, is_stable, cur_writer, cur_frame, copied>>

\* After each writer: a stop request ends the loop over the writers.
FlusherNextWriter ==
  /\ fpc = "next"
  /\ IF stop \/ cur_writer + 1 = WriterCount
     THEN fpc' = "conclude" /\ UNCHANGED cur_writer
     ELSE fpc' = "find" /\ cur_writer' = cur_writer + 1
  /\ UNCHANGED <<OtherThanFlusher, durable_epoch, head_offset, segmentVars,
                 target_epoch, is_stable, cur_frame, copied>>

\* The region of the epoch, its metadata, and DE.
ConcludeTarget ==
  /\ mds' = Append(mds, [from_seg_id |-> head_dsid, from_offset |-> head_off,
                         to_seg_id |-> current_dsid, to_off |-> written_bytes,
                         user_metadata |-> flusher_metadata])
  /\ durable_epoch' = target_epoch
  /\ head_dsid' = current_dsid
  /\ head_off' = written_bytes

\* Variant: SE is looked at after the writers, not before them.
FlusherConcludeLateLook ==
  /\ fpc = "conclude"
  /\ IF stable_epoch = target_epoch
     THEN ConcludeTarget
     ELSE UNCHANGED <<mds, durable_epoch, head_dsid, head_off>>
  /\ fpc' = "main"
  /\ UNCHANGED <<OtherThanFlusher, head_offset, target_epoch, is_stable, cur_writer,
                 cur_frame, copied, flusher_metadata, current_dsid, written_bytes, nv_log>>

\* Variant: only the segment of the next epoch's head is remembered.
FlusherConcludeForgetsOffset ==
  /\ fpc = "conclude"
  /\ IF is_stable
     THEN /\ mds' = Append(mds, [from_seg_id |-> head_dsid, from_offset |-> head_off,
                                 to_seg_id |-> current_dsid, to_off |-> written_bytes,
                                 user_metadata |-> flusher_metadata])
          /\ durable_epoch' = target_epoch
          /\ head_dsid' = current_dsid
     ELSE UNCHANGED <<mds, durable_epoch, head_dsid>>
  /\ fpc' = "main"
  /\ UNCHANGED <<OtherThanFlusher, head_offset, target_epoch, is_stable, cur_writer, head_off,
                 cur_frame, copied, flusher_metadata, current_dsid, written_bytes, nv_log>>

\* flusher_conclude_stable_epoch, for an epoch that was stable at the start of
\* the loop.
FlusherConclude ==
  /\ fpc = "conclude"
  /\ IF is_stable
     THEN ConcludeTarget
     ELSE UNCHANGED <<mds, durable_epoch, head_dsid, head_off>>
  /\ fpc' = "main"
  /\ UNCHANGED <<OtherThanFlusher, head_offset, target_epoch, is_stable, cur_writer,
                 cur_frame, copied, flusher_metadata, current_dsid, written_bytes, nv_log>>

----------------------------------------------------------------------------
WriterStep(w) ==
  AssureActiveFrame(w) \/ StoreFrameTail(w) \/ StoreFrameEpoch(w) \/ PublishTail(w)

FlusherStep ==
  \/ FlusherStop \/ FlusherBegin \/ FlusherFind \/ FlusherLoad \/ FlusherCopy
  \/ FlusherStoreHead \/ FlusherMoveOn \/ FlusherNextWriter \/ FlusherConclude

Next ==
  \/ \E w \in Writers, count \in 1..MaxWrite, e \in 1..MaxEpoch : ClientWrite(w, count, e)
  \/ \E w \in Writers, e \in 1..MaxEpoch, tag \in Tags : TagEpoch(w, e, tag)
  \/ \E w \in Writers : WriterStep(w)
  \/ CloseEpoch
  \/ \E c \in Callers, e \in 1..MaxEpoch : AdvanceLoad(c, e)
  \/ \E c \in Callers : AdvanceCas(c)
  \/ RequestStop
  \/ FlusherStep
  \/ FlusherFail

Spec == Init /\ [][Next]_vars

\* The operating system schedules the flusher thread; nothing is assumed of the
\* client or of the threads that advance SE.
FairSpec == Spec /\ WF_vars(FlusherStep)

----------------------------------------------------------------------------
(* Properties.                                                             *)

EpochsTyped == durable_epoch \in Nat /\ stable_epoch \in Nat

FramesTyped ==
  /\ log_epoch \in [Writers -> [Frames -> Nat]]
  /\ head_offset \in [Writers -> [Frames -> Offsets]]
  /\ tail_offset \in [Writers -> [Frames -> Offsets]]
  /\ user_metadata \in [Writers -> [Frames -> Nat]]

WritersTyped ==
  /\ active_frame \in [Writers -> Frames]
  /\ last_tail_offset \in [Writers -> Offsets]
  /\ buffer \in [Writers -> [Offsets -> Nat]]

CallsTyped ==
  /\ wpc \in [Writers -> {"idle", "assure", "frame_tail", "frame_epoch", "publish"}]
  /\ bytes_written \in [Writers -> 0..MaxWrite]
  /\ call_epoch \in [Writers -> Nat]

CallersTyped == cpc \in [Callers -> {"idle", "cas"}] /\ expected \in [Callers -> Nat]

FlusherTyped ==
  /\ fpc \in {"main", "find", "load", "copy", "head", "move", "next", "conclude", "stopped"}
  /\ target_epoch \in Nat /\ is_stable \in BOOLEAN
  /\ cur_writer \in Writers /\ cur_frame \in Frames /\ copied \in 0..SegmentSize

NvByte  == [writer : Writers, byte : Nat, epoch : Nat]
MdsEpochMetadata ==
  [from_seg_id : Nat, from_offset : 0..SegmentSize,
   to_seg_id : Nat, to_off : 0..SegmentSize, user_metadata : Nat]

SegmentsTyped ==
  /\ flusher_metadata \in Nat
  /\ current_dsid \in Nat /\ written_bytes \in 0..SegmentSize
  /\ head_dsid \in Nat /\ head_off \in 0..SegmentSize
  /\ nv_log \in Seq(NvByte) /\ mds \in Seq(MdsEpochMetadata)

ClientTyped ==
  closed \in 0..MaxEpoch /\ submitted \in [Writers -> Seq(Nat)] /\ stop \in BOOLEAN

\* Every offset lies in its buffer or segment, every frame and writer in its ring.
TypeOK ==
  /\ EpochsTyped /\ FramesTyped /\ WritersTyped /\ CallsTyped
  /\ CallersTyped /\ FlusherTyped /\ SegmentsTyped /\ ClientTyped

\* SE is DE or DE+1 (the invariant on NvwalContext::stable_epoch_), although the
\* threads that advance SE load DE and compare-and-swap SE in two steps while the
\* flusher moves DE.
StableWindow == stable_epoch \in {durable_epoch, durable_epoch + 1}

\* nvwal_advance_stable_epoch returns with SE at least at the epoch it was asked
\* for (its closing assert), whichever of several callers won.
AdvanceTakesEffect ==
  [][\A c \in Callers : cpc[c] = "cas" /\ cpc'[c] = "idle" => stable_epoch' > expected[c]]_vars

\* A writer that turns the ring of frames takes only a frame of a durable epoch
\* (or one never used): the comment in assure_writer_active_frame says the old
\* epoch "should be now an irrelevant epoch".
ReusedFrameIsIrrelevant ==
  \A w \in Writers : wpc[w] \in {"frame_tail", "frame_epoch"} =>
    log_epoch[w][active_frame[w]] <= durable_epoch

\* A frame never covers its whole buffer, so that equal offsets mean "no log"
\* (NvwalWriterEpochFrame, and the assert in nvwal_on_wal_write).
BufferNeverFull ==
  \A w \in Writers : wpc[w] = "publish" =>
    FrameDistance(w, active_frame[w]) + bytes_written[w] < BufferSize

NvBytesOf(w) == SelectSeq(nv_log, LAMBDA b : b.writer = w)

\* What the flusher wrote for a writer is what that writer submitted: byte by
\* byte, in its order, once, under its own epoch.  Neither side's reuse of the
\* circular buffer or of the frames corrupts, repeats or skips anything.
NvLogFollowsWriters ==
  \A w \in Writers : \A i \in 1..Len(NvBytesOf(w)) :
    /\ NvBytesOf(w)[i].byte = i
    /\ i <= Len(submitted[w])
    /\ NvBytesOf(w)[i].epoch = submitted[w][i]

\* "DE is the epoch upto which all logs in the epoch are already durably written
\* at least to NVDIMM" (nvwal_types.h:71): no submitted byte of an epoch up to DE
\* is missing from the NV log.
DurableLogsAreInNv ==
  \A w \in Writers : \A n \in 1..Len(submitted[w]) :
    submitted[w][n] <= durable_epoch =>
      \E i \in 1..Len(nv_log) : nv_log[i].writer = w /\ nv_log[i].byte = n

Position(dsid, off) == (dsid - 1) * SegmentSize + off

\* The metadata of the durable epochs cuts the NV log into adjacent regions, and
\* a byte lies in the region of an epoch exactly if it belongs to that epoch:
\* logs are ordered by epochs, and a cursor that trusts the metadata finds them.
EpochRegionsAreExact ==
  /\ Len(mds) = durable_epoch
  /\ \A e \in 1..Len(mds) :
       /\ Position(mds[e].from_seg_id, mds[e].from_offset)
            = IF e = 1 THEN 0 ELSE Position(mds[e - 1].to_seg_id, mds[e - 1].to_off)
       /\ \A i \in 1..Len(nv_log) :
            nv_log[i].epoch = e <=>
              /\ i > Position(mds[e].from_seg_id, mds[e].from_offset)
              /\ i <= Position(mds[e].to_seg_id, mds[e].to_off)

\* The last tag a writer gave to an epoch it had written in is durable once the
\* epoch is, unless it is 0 (nvwal_api.h:207: "Overwrites any previously assigned
\* metadata, and assigned metadata becomes durable when epoch becomes durable").
\* Any other epoch shows no tag or that of an earlier epoch, left in a reused
\* frame or in the flusher's context: never the tag of a later epoch, which the
\* writer may have given before the flusher concluded this one, nor one that was
\* overwritten. So the sentence holds neither of a tag given before the epoch's
\* first log nor of 0.
TagsBecomeDurable ==
  \A e \in 1..Len(mds) :
    IF tagged[e] # <<>> /\ tagged[e][2] # 0
    THEN mds[e].user_metadata = tagged[e][2]
    ELSE mds[e].user_metadata \in
           {0} \cup {tagged[d][2] : d \in {d \in 1..(e - 1) : tagged[d] # <<>>}}

\* A stable epoch becomes durable if the flusher keeps running, whatever the
\* writers of later epochs do.
StableBecomesDurable ==
  \A e \in 1..MaxEpoch :
    stable_epoch = e ~> durable_epoch >= e \/ fpc = "stopped"

\* Every byte submitted in an epoch up to SE+1 reaches the NV log, and with it the
\* space it took in the buffer comes back, without any further call of the client:
\* the flusher serves epoch DE+1 on its own, before that epoch is stable.
SubmittedLogsReachNv ==
  \A w \in Writers : \A n \in 1..MaxBytes :
    Len(submitted[w]) >= n /\ submitted[w][n] <= stable_epoch + 1 ~>
      \/ fpc = "stopped"
      \/ \E i \in 1..Len(nv_log) : nv_log[i].writer = w /\ nv_log[i].byte = n

=============================================================================
