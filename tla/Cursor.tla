-------------------------------- MODULE Cursor --------------------------------
(***************************************************************************)
(* A log cursor's walk over the epochs it was asked for                    *)
(* (nvwal_impl_cursor.c), while the flusher concludes further epochs.      *)
(*                                                                         *)
(* The log is one line of bytes cut into segments; an epoch occupies the   *)
(* bytes between the end of the epoch before it and its own end.  That is  *)
(* what the metadata of an epoch says, as a segment and an offset in it,   *)
(* and never as the end of a full segment (EpochRegionsAreExact of module  *)
(* WriterFlusher).  Opening and closing a segment is one step here; module *)
(* Segments has its races with recycling.  Epochs do not wrap around.      *)
(***************************************************************************)
EXTENDS Integers, Sequences

CONSTANTS
  SegmentSize,        \* segment_size_
  kNvwalCursorEpochPrefetches,
  MaxEpoch,           \* bound: the last epoch concluded
  MaxEpochBytes,      \* bound: bytes of logs in an epoch
  Builds,             \* "O2" loads durable_epoch_ once per fetch, "O0" twice
  OpenMayFail         \* may open() or mmap() of a segment fail?

ASSUME CursorAssumption ==
  /\ SegmentSize \in Nat \ {0} /\ kNvwalCursorEpochPrefetches \in Nat \ {0}
  /\ MaxEpoch \in Nat \ {0} /\ MaxEpochBytes \in Nat
  /\ Builds \subseteq {"O0", "O2"} /\ OpenMayFail \in BOOLEAN

kNvwalInvalidDsid == 0

VARIABLES
  ends,               \* where each durable epoch ends in the log
  pc, start_epoch, end_epoch, current_epoch,
  cur_segment_id, cur_offset, cur_len,
  to_epoch, fetched_epochs, fetched_epochs_current,
  reached,            \* how far the client has read
  build               \* the build that runs, never changed

cursorVars == <<start_epoch, end_epoch, current_epoch, cur_segment_id,
                cur_offset, cur_len, fetched_epochs, fetched_epochs_current>>
vars == <<ends, pc, to_epoch, cursorVars, reached, build>>

durable_epoch == Len(ends)
End(e) == IF e = 0 THEN 0 ELSE ends[e]

\* The metadata flusher_conclude_stable_epoch writes for an epoch.
Meta(e) == [epoch        |-> e,
            start_dsid   |-> 1 + End(e - 1) \div SegmentSize,
            start_offset |-> End(e - 1) % SegmentSize,
            last_dsid    |-> 1 + End(e) \div SegmentSize,
            end_offset   |-> End(e) % SegmentSize]

Init ==
  /\ ends = <<>> /\ pc = "closed" /\ to_epoch = 0
  /\ start_epoch = 0 /\ end_epoch = 0 /\ current_epoch = 0
  /\ cur_segment_id = kNvwalInvalidDsid /\ cur_offset = 0 /\ cur_len = 0
  /\ fetched_epochs = <<>> /\ fetched_epochs_current = 1
  /\ reached = 0 /\ build \in Builds

\* The flusher makes one more epoch durable, with n bytes of logs.
Conclude(n) ==
  /\ durable_epoch < MaxEpoch
  /\ ends' = Append(ends, End(durable_epoch) + n)
  /\ UNCHANGED <<pc, to_epoch, cursorVars, reached, build>>

\* nvwal_open_log_cursor.
Open(begin, end) ==
  /\ pc = "closed"
  /\ start_epoch' = begin /\ end_epoch' = end
  /\ IF begin >= end THEN pc' = "ended" /\ UNCHANGED current_epoch
                     ELSE pc' = "fetch" /\ current_epoch' = begin
  /\ UNCHANGED <<ends, to_epoch, cur_segment_id, cur_offset, cur_len,
                 fetched_epochs, fetched_epochs_current, reached, build>>

LesserOf(a, b) == IF a < b THEN a ELSE b

\* Variant: the exclusive end is taken for an inclusive one.
FetchRangeOffByOne ==
  /\ pc = "fetch" /\ pc' = "read_meta"
  /\ to_epoch' = LesserOf(LesserOf(current_epoch + kNvwalCursorEpochPrefetches,
                                   end_epoch), durable_epoch)
  /\ UNCHANGED <<ends, cursorVars, reached, build>>

\* Variant: the end of the range asked for is forgotten.
FetchRangeIgnoresEnd ==
  /\ pc = "fetch" /\ pc' = "read_meta"
  /\ to_epoch' = LesserOf(current_epoch + kNvwalCursorEpochPrefetches,
                          durable_epoch + 1)
  /\ UNCHANGED <<ends, cursorVars, reached, build>>

\* cursor_fetch_epoch_metadata, from the current epoch: the exclusive end of
\* the fetch, and the comparison with durable_epoch_ ...
FetchRange ==
  /\ pc = "fetch"
  /\ LET to == LesserOf(current_epoch + kNvwalCursorEpochPrefetches, end_epoch)
     IN IF to <= durable_epoch
        THEN to_epoch' = to /\ pc' = "read_meta"
        ELSE /\ to_epoch' = durable_epoch + 1
             /\ pc' = IF build = "O2" THEN "read_meta" ELSE "clip"
  /\ UNCHANGED <<ends, cursorVars, reached, build>>

\* ... which is loaded a second time if the first load said it is exceeded.
ClipToDurable ==
  /\ pc = "clip" /\ pc' = "read_meta"
  /\ to_epoch' = durable_epoch + 1
  /\ UNCHANGED <<ends, cursorVars, reached, build>>

\* The loop over the metadata store's iterator, at most as many epochs as
\* there is room for.
Fetched ==
  [k \in 1..LesserOf(to_epoch - current_epoch, kNvwalCursorEpochPrefetches) |->
     Meta(current_epoch + k - 1)]

\* The region of the log, in segment seg from offset on, the cursor now shows.
Show(meta, seg, offset) ==
  /\ cur_segment_id' = seg /\ cur_offset' = offset
  /\ cur_len' = IF meta.last_dsid # seg THEN SegmentSize - offset
                ELSE meta.end_offset - offset

\* cursor_next_initial goes on: it opens the first segment, and the client
\* begins to read where the first epoch begins.
FetchFirst ==
  /\ pc = "read_meta" /\ cur_segment_id = kNvwalInvalidDsid
  /\ current_epoch < to_epoch
  /\ fetched_epochs' = Fetched /\ fetched_epochs_current' = 1
  /\ pc' = "valid"
  /\ LET meta == Fetched[1] IN Show(meta, meta.start_dsid, meta.start_offset)
  /\ reached' = End(current_epoch - 1)
  /\ UNCHANGED <<ends, to_epoch, start_epoch, end_epoch, current_epoch, build>>

\* nvwal_cursor_next goes on: the next epoch begins in the open segment.
FetchMore ==
  /\ pc = "read_meta" /\ cur_segment_id # kNvwalInvalidDsid
  /\ current_epoch < to_epoch
  /\ fetched_epochs' = Fetched /\ fetched_epochs_current' = 1
  /\ pc' = "valid"
  /\ Show(Fetched[1], cur_segment_id, Fetched[1].start_offset)
  /\ UNCHANGED <<ends, to_epoch, start_epoch, end_epoch, current_epoch, reached, build>>

\* Nothing to fetch: the cursor is at its end.
FetchNothing ==
  /\ pc = "read_meta" /\ current_epoch = to_epoch
  /\ fetched_epochs' = <<>> /\ fetched_epochs_current' = 1
  /\ pc' = "ended" /\ cur_segment_id' = kNvwalInvalidDsid
  /\ UNCHANGED <<ends, to_epoch, start_epoch, end_epoch, current_epoch,
                 cur_offset, cur_len, reached, build>>

\* The range is upside down: an assertion says it cannot be, and without
\* assertions mds_epoch_iterator_init refuses it with EINVAL.
FetchInvalid ==
  /\ pc = "read_meta" /\ current_epoch > to_epoch
  /\ pc' = "error"
  /\ fetched_epochs' = <<>> /\ fetched_epochs_current' = 1
  /\ UNCHANGED <<ends, to_epoch, start_epoch, end_epoch, current_epoch,
                 cur_segment_id, cur_offset, cur_len, reached, build>>

----------------------------------------------------------------------------
(* nvwal_cursor_next, called by the client or by itself.                   *)

CurrentMeta  == fetched_epochs[fetched_epochs_current]
EpochIsRead  == CurrentMeta.last_dsid = cur_segment_id
MoreFetched  == fetched_epochs_current < Len(fetched_epochs)
CalledByNext == pc \in {"valid", "again"} /\ reached' = reached + cur_len

\* Case 1a: the next epoch, which is fetched already.
NextEpoch ==
  /\ CalledByNext /\ EpochIsRead /\ MoreFetched
  /\ current_epoch' = current_epoch + 1
  /\ fetched_epochs_current' = fetched_epochs_current + 1
  /\ pc' = "valid"
  /\ LET meta == fetched_epochs[fetched_epochs_current + 1]
     IN Show(meta, cur_segment_id, meta.start_offset)
  /\ UNCHANGED <<ends, to_epoch, start_epoch, end_epoch, fetched_epochs, build>>

\* Variant: the epoch to fetch is not moved on.
NextEpochUnfetchedAgain ==
  /\ CalledByNext /\ EpochIsRead /\ ~MoreFetched
  /\ pc' = "fetch"
  /\ UNCHANGED <<ends, to_epoch, cursorVars, build>>

\* Case 1b: the next epoch has to be fetched.
NextEpochUnfetched ==
  /\ CalledByNext /\ EpochIsRead /\ ~MoreFetched
  /\ current_epoch' = current_epoch + 1
  /\ pc' = "fetch"
  /\ UNCHANGED <<ends, to_epoch, start_epoch, end_epoch, cur_segment_id,
                 cur_offset, cur_len, fetched_epochs, fetched_epochs_current, build>>

\* Variant: the offset in the next segment is that in the last one.
NextSegmentKeepsOffset ==
  /\ CalledByNext /\ ~EpochIsRead
  /\ pc' = "valid"
  /\ Show(CurrentMeta, cur_segment_id + 1, cur_offset)
  /\ UNCHANGED <<ends, to_epoch, start_epoch, end_epoch, current_epoch,
                 fetched_epochs, fetched_epochs_current, build>>

\* Case 2: the epoch goes on in the next segment.  If it ends at offset 0 the
\* region counts as empty, and nvwal_cursor_next calls itself.
NextSegment ==
  /\ CalledByNext /\ ~EpochIsRead
  /\ IF CurrentMeta.end_offset = 0
     THEN /\ pc' = "again"
          /\ cur_segment_id' = cur_segment_id + 1
          /\ cur_offset' = 0 /\ cur_len' = 0
     ELSE /\ pc' = "valid"
          /\ Show(CurrentMeta, cur_segment_id + 1, 0)
  /\ UNCHANGED <<ends, to_epoch, start_epoch, end_epoch, current_epoch,
                 fetched_epochs, fetched_epochs_current, build>>

\* A segment cannot be opened or mapped: the error is returned.  After a failed mmap
\* the cursor keeps the descriptor, and in cur_segment_data_ MAP_FAILED, for which
\* nvwal_cursor_is_valid is true all the same; Close copes with both.  The client
\* goes by the error, not by nvwal_cursor_is_valid, and does nothing but Close.
OpenFails ==
  /\ OpenMayFail
  /\ \/ pc = "read_meta" /\ cur_segment_id = kNvwalInvalidDsid /\ current_epoch < to_epoch
     \/ pc \in {"valid", "again"} /\ ~EpochIsRead
  /\ pc' = "error" /\ cur_segment_id' = kNvwalInvalidDsid
  /\ UNCHANGED <<ends, to_epoch, start_epoch, end_epoch, current_epoch,
                 cur_offset, cur_len, fetched_epochs, fetched_epochs_current, reached, build>>

\* nvwal_close_log_cursor: idempotent, and the memset of the cursor.
Close ==
  /\ pc \in {"valid", "ended", "error"}
  /\ pc' = "closed" /\ to_epoch' = 0
  /\ start_epoch' = 0 /\ end_epoch' = 0 /\ current_epoch' = 0
  /\ cur_segment_id' = kNvwalInvalidDsid /\ cur_offset' = 0 /\ cur_len' = 0
  /\ fetched_epochs' = <<>> /\ fetched_epochs_current' = 1
  /\ reached' = 0
  /\ UNCHANGED <<ends, build>>

CursorStep ==
  \/ FetchRange \/ ClipToDurable \/ FetchFirst \/ FetchMore \/ FetchNothing
  \/ FetchInvalid \/ NextEpoch \/ NextEpochUnfetched \/ NextSegment

Next ==
  \/ \E n \in 0..MaxEpochBytes : Conclude(n)
  \/ \E begin, end \in 1..(MaxEpoch + 1) : Open(begin, end)
  \/ CursorStep \/ OpenFails \/ Close

Spec == Init /\ [][Next]_vars

\* The client reads until the cursor is at its end.
FairSpec == Spec /\ WF_vars(CursorStep)

----------------------------------------------------------------------------

Position == (cur_segment_id - 1) * SegmentSize + cur_offset

\* The regions the cursor shows lie one behind the other without gap or
\* overlap, each within the epoch the cursor says it is in: the client reads
\* every byte of every epoch once and in order.
ReadsEveryByteOnce ==
  pc = "valid" =>
    /\ Position = reached
    /\ End(current_epoch - 1) <= Position
    /\ Position + cur_len <= End(current_epoch)

\* The cursor never shows an epoch that is not durable or lies before the ones
\* the client asked for; nor one behind them, if the build loads durable_epoch_
\* once for the comparison and the clipping.
ShowsOnlyWhatWasAsked ==
  pc = "valid" =>
    /\ current_epoch \in start_epoch..durable_epoch
    /\ build = "O2" => current_epoch < end_epoch

\* The cursor stops only at the last epoch asked for, or at the last durable
\* one if it has caught up with the flusher, and then has shown every byte of
\* the epochs before.
EndsWhenAllIsRead ==
  [][/\ pc = "fetch" /\ pc' = "read_meta" /\ to_epoch' = current_epoch =>
          current_epoch \in {end_epoch, durable_epoch + 1}
     /\ pc = "read_meta" /\ pc' = "ended" /\ cur_segment_id # kNvwalInvalidDsid =>
          reached = End(current_epoch - 1)]_vars

\* A client that keeps calling nvwal_cursor_next comes to the end.
CursorEnds == pc = "fetch" ~> pc \in {"ended", "error", "closed"}
=============================================================================
