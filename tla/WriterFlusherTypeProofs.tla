----------------------- MODULE WriterFlusherTypeProofs -----------------------
(***************************************************************************)
(* The types of writers, callers and flusher, for every number of writers, *)
(* frames and callers and every size of buffers and segments.              *)
(***************************************************************************)
EXTENDS WriterFlusher, WellFoundedInduction, SequenceTheorems, TLAPS

----------------------------------------------------------------------------
(* Facts about the operators.                                              *)

\* The frame the scan finds is a frame of that epoch.
LEMMA FrameOfIsAFrame ==
  ASSUME NEW w, NEW e, HasFrame(w, e)
  PROVE  FrameOf(w, e) \in Frames /\ log_epoch[w][FrameOf(w, e)] = e
PROOF
  <1> DEFINE S == {f \in Frames : log_epoch[w][f] = e}
  <1>1. S # {} /\ S \subseteq Nat
    BY ConfigAssumption DEF HasFrame, Frames
  <1>2. PICK x \in S : \A y \in S : ~(<<y, x>> \in OpToRel(<, Nat))
    BY <1>1, NatLessThanWellFounded, WFMin
  <1>3. \A y \in S : ~(y < x)
    BY <1>1, <1>2, Zenon DEF OpToRel
  <1>4. \A y \in S : x =< y
    BY <1>1, <1>3
  <1>5. Min(S) \in S
    BY <1>4 DEF Min
  <1> QED BY <1>5 DEF FrameOf

LEMMA MinOfTwo ==
  ASSUME NEW a \in Nat, NEW b \in Nat
  PROVE  Min({a, b}) \in Nat /\ Min({a, b}) <= a /\ Min({a, b}) <= b
PROOF
  <1>1. \E x \in {a, b} : \A y \in {a, b} : x =< y
    OBVIOUS
  <1>2. Min({a, b}) \in {a, b} /\ \A y \in {a, b} : Min({a, b}) =< y
    BY <1>1 DEF Min
  <1> QED BY <1>2

\* Distances stay below the size of the buffer.
LEMMA DistanceBound ==
  ASSUME NEW l \in Offsets, NEW r \in Offsets
  PROVE  /\ calculate_writer_offset_distance(l, r) \in Nat
         /\ calculate_writer_offset_distance(l, r) < BufferSize
PROOF BY ConfigAssumption DEF Offsets, calculate_writer_offset_distance

LEMMA WrappedOffset ==
  ASSUME NEW o \in Offsets, NEW n \in Nat, n < BufferSize
  PROVE  wrap_writer_offset(o + n) \in Offsets
PROOF BY ConfigAssumption DEF Offsets, wrap_writer_offset

LEMMA WrappedFrame ==
  ASSUME NEW f \in Frames
  PROVE  wrap_writer_epoch_frame(f + 1) \in Frames
PROOF BY ConfigAssumption DEF Frames, wrap_writer_epoch_frame

\* A store to one field of one frame.
LEMMA FieldTyped ==
  ASSUME NEW S, NEW g \in [Writers -> [Frames -> S]],
         NEW w \in Writers, NEW f \in Frames, NEW x \in S
  PROVE  [g EXCEPT ![w][f] = x] \in [Writers -> [Frames -> S]]
PROOF OBVIOUS

----------------------------------------------------------------------------
(* Types.                                                                  *)

\* What the flusher is about to copy fits the segment and is less than a buffer:
\* without it neither written_bytes_ nor the new head could be typed.
CopyFits ==
  fpc \in {"copy", "head"} => written_bytes + copied <= SegmentSize /\ copied < BufferSize

TypeInv == TypeOK /\ CopyFits

LEMMA TypeInit == Init => TypeInv
PROOF
  <1> SUFFICES ASSUME Init PROVE TypeInv
    OBVIOUS
  <1> USE ConfigAssumption DEF Init, kNvwalInvalidEpoch
  <1>1. 0 \in Writers /\ 0 \in Frames /\ 0 \in Offsets
    BY DEF Writers, Frames, Offsets
  <1>2. EpochsTyped /\ CallersTyped
    BY DEF EpochsTyped, CallersTyped
  <1>3. FramesTyped
    BY <1>1 DEF FramesTyped
  <1>4. WritersTyped /\ CallsTyped
    BY <1>1 DEF WritersTyped, CallsTyped
  <1>5. FlusherTyped
    <2>1. is_stable \in BOOLEAN
      BY Zenon
    <2> QED BY <1>1, <2>1 DEF FlusherTyped
  <1>6. SegmentsTyped
    BY EmptySeq DEF SegmentsTyped
  <1>7. ClientTyped
    <2>1. stop \in BOOLEAN
      BY Zenon
    <2> QED BY <2>1, EmptySeq DEF ClientTyped
  <1> QED BY <1>2, <1>3, <1>4, <1>5, <1>6, <1>7 DEF TypeInv, TypeOK, CopyFits

\* Variables a step leaves alone keep their types.
LEMMA TypesKept ==
  ASSUME TypeInv
  PROVE  /\ UNCHANGED epochVars => EpochsTyped'
         /\ UNCHANGED frameVars => FramesTyped'
         /\ UNCHANGED writerVars => WritersTyped'
         /\ UNCHANGED callVars => CallsTyped'
         /\ UNCHANGED callerVars => CallersTyped'
         /\ UNCHANGED flusherVars => FlusherTyped'
         /\ UNCHANGED segmentVars => SegmentsTyped'
         /\ UNCHANGED clientVars => ClientTyped'
         /\ UNCHANGED <<flusherVars, segmentVars>> => CopyFits'
PROOF
  <1> USE DEF TypeInv, TypeOK
  <1>1. UNCHANGED epochVars => EpochsTyped'
    BY DEF epochVars, EpochsTyped
  <1>2. UNCHANGED frameVars => FramesTyped'
    BY DEF frameVars, FramesTyped
  <1>3. UNCHANGED writerVars => WritersTyped'
    BY DEF writerVars, WritersTyped
  <1>4. UNCHANGED callVars => CallsTyped'
    BY DEF callVars, CallsTyped
  <1>5. UNCHANGED callerVars => CallersTyped'
    BY DEF callerVars, CallersTyped
  <1>6. UNCHANGED flusherVars => FlusherTyped'
    BY DEF flusherVars, FlusherTyped
  <1>7. UNCHANGED segmentVars => SegmentsTyped'
    BY DEF segmentVars, SegmentsTyped
  <1>8. UNCHANGED clientVars => ClientTyped'
    BY DEF clientVars, ClientTyped
  <1>9. UNCHANGED <<flusherVars, segmentVars>> => CopyFits'
    BY DEF flusherVars, segmentVars, CopyFits
  <1> QED BY <1>1, <1>2, <1>3, <1>4, <1>5, <1>6, <1>7, <1>8, <1>9

LEMMA TypeClient ==
  ASSUME TypeInv, NEW w \in Writers
  PROVE  /\ \A count \in 1..MaxWrite, e \in 1..MaxEpoch : ClientWrite(w, count, e) => TypeInv'
         /\ \A e \in 1..MaxEpoch, tag \in Tags : TagEpoch(w, e, tag) => TypeInv'
         /\ CloseEpoch \/ RequestStop => TypeInv'
PROOF
  <1> USE ConfigAssumption DEF TypeInv, TypeOK
  <1>1. ASSUME NEW count \in 1..MaxWrite, NEW e \in 1..MaxEpoch, ClientWrite(w, count, e)
        PROVE  TypeInv'
    <2>1. Len(submitted[w]) \in Nat
      BY DEF ClientTyped
    <2>2. \A o \in Offsets : calculate_writer_offset_distance(last_tail_offset[w], o) \in Nat
      BY DistanceBound DEF WritersTyped
    <2> DEFINE cells == [o \in Offsets |->
                 LET i == calculate_writer_offset_distance(last_tail_offset[w], o)
                 IN  IF i < count THEN Len(submitted[w]) + 1 + i ELSE buffer[w][o]]
    <2>6. cells \in [Offsets -> Nat]
      BY <2>1, <2>2 DEF WritersTyped
    <2>7. buffer' = [buffer EXCEPT ![w] = cells]
      BY <1>1 DEF ClientWrite
    <2> HIDE DEF cells
    <2>3. buffer' \in [Writers -> [Offsets -> Nat]]
      BY <2>6, <2>7 DEF WritersTyped
    <2>4. WritersTyped'
      BY <1>1, <2>3 DEF ClientWrite, WritersTyped
    <2>5. CallsTyped'
      BY <1>1 DEF ClientWrite, CallsTyped
    <2> QED BY <1>1, <2>4, <2>5, TypesKept DEF ClientWrite
  <1>2. ASSUME NEW e \in 1..MaxEpoch, NEW tag \in Tags, TagEpoch(w, e, tag)
        PROVE  TypeInv'
    <2>1. HasFrame(w, e) => FrameOf(w, e) \in Frames
      BY FrameOfIsAFrame
    <2>2. FramesTyped'
      <3>1. UNCHANGED <<log_epoch, head_offset, tail_offset>>
        BY <1>2 DEF TagEpoch
      <3>2. \/ user_metadata' = user_metadata
            \/ /\ HasFrame(w, e)
               /\ user_metadata' = [user_metadata EXCEPT ![w][FrameOf(w, e)] = tag]
        BY <1>2 DEF TagEpoch
      <3>3. tag \in Nat
        OBVIOUS
      <3>4. ASSUME NEW f \in Frames
            PROVE  [user_metadata EXCEPT ![w][f] = tag] \in [Writers -> [Frames -> Nat]]
        BY <3>3 DEF FramesTyped
      <3>5. user_metadata' \in [Writers -> [Frames -> Nat]]
        BY <2>1, <3>2, <3>4 DEF FramesTyped
      <3> QED BY <3>1, <3>5 DEF FramesTyped
    <2>3. ClientTyped'
      BY <1>2 DEF TagEpoch, ClientTyped
    <2> QED BY <1>2, <2>2, <2>3, TypesKept DEF TagEpoch, OtherThanWriter
  <1>3. CASE CloseEpoch
    <2>1. ClientTyped'
      BY <1>3 DEF CloseEpoch, ClientTyped
    <2> QED BY <1>3, <2>1, TypesKept DEF CloseEpoch
  <1>4. CASE RequestStop
    <2>1. ClientTyped'
      BY <1>4 DEF RequestStop, ClientTyped
    <2> QED BY <1>4, <2>1, TypesKept DEF RequestStop
  <1> QED BY <1>1, <1>2, <1>3, <1>4

LEMMA TypeWriter ==
  ASSUME TypeInv, NEW w \in Writers, WriterStep(w)
  PROVE  TypeInv'
PROOF
  <1> USE ConfigAssumption DEF TypeInv, TypeOK
  <1>1. CASE AssureActiveFrame(w)
    <2>1. wrap_writer_epoch_frame(active_frame[w] + 1) \in Frames
      BY WrappedFrame DEF WritersTyped
    <2>2. PICK f \in Frames :
             \/ UNCHANGED <<active_frame, head_offset>>
             \/ /\ active_frame' = [active_frame EXCEPT ![w] = f]
                /\ head_offset' = [head_offset EXCEPT ![w][f] = last_tail_offset[w]]
      BY <1>1, <2>1 DEF AssureActiveFrame, WritersTyped
    <2>4. FramesTyped'
      <3>1. last_tail_offset[w] \in Offsets /\ head_offset \in [Writers -> [Frames -> Offsets]]
        BY DEF WritersTyped, FramesTyped
      <3>2. [head_offset EXCEPT ![w][f] = last_tail_offset[w]] \in [Writers -> [Frames -> Offsets]]
        BY <3>1, FieldTyped
      <3>3. head_offset' \in [Writers -> [Frames -> Offsets]]
        BY <2>2, <3>1, <3>2
      <3> QED BY <1>1, <3>3 DEF AssureActiveFrame, FramesTyped
    <2>5. WritersTyped'
      BY <1>1, <2>2 DEF AssureActiveFrame, WritersTyped
    <2>3. CallsTyped'
      BY <1>1 DEF AssureActiveFrame, CallsTyped
    <2> QED BY <1>1, <2>3, <2>4, <2>5, TypesKept DEF AssureActiveFrame, OtherThanWriter
  <1>2. CASE StoreFrameTail(w)
    <2>1. FramesTyped'
      BY <1>2 DEF StoreFrameTail, FramesTyped, WritersTyped
    <2>2. CallsTyped'
      BY <1>2 DEF StoreFrameTail, CallsTyped
    <2> QED BY <1>2, <2>1, <2>2, TypesKept DEF StoreFrameTail, OtherThanWriter
  <1>3. CASE StoreFrameEpoch(w)
    <2>1. FramesTyped'
      BY <1>3 DEF StoreFrameEpoch, FramesTyped, WritersTyped, CallsTyped
    <2>2. CallsTyped'
      BY <1>3 DEF StoreFrameEpoch, CallsTyped
    <2> QED BY <1>3, <2>1, <2>2, TypesKept DEF StoreFrameEpoch, OtherThanWriter
  <1>4. CASE PublishTail(w)
    <2> DEFINE tail == wrap_writer_offset(tail_offset[w][active_frame[w]] + bytes_written[w])
               new  == [i \in 1..bytes_written[w] |-> call_epoch[w]]
    <2>1. tail \in Offsets
      <3>1. tail_offset[w][active_frame[w]] \in Offsets
        BY DEF FramesTyped, WritersTyped
      <3>2. bytes_written[w] \in Nat /\ bytes_written[w] < BufferSize
        BY DEF CallsTyped
      <3> QED BY <3>1, <3>2, WrappedOffset
    <2>2. new \in Seq(Nat)
      BY IsASeq DEF CallsTyped
    <2>3. submitted[w] \o new \in Seq(Nat)
      BY <2>2, ConcatProperties DEF ClientTyped
    <2>4. ClientTyped'
      BY <1>4, <2>3 DEF PublishTail, ClientTyped
    <2>5. FramesTyped' /\ WritersTyped'
      BY <1>4, <2>1 DEF PublishTail, FramesTyped, WritersTyped
    <2>6. CallsTyped'
      BY <1>4 DEF PublishTail, CallsTyped
    <2> QED BY <1>4, <2>4, <2>5, <2>6, TypesKept DEF PublishTail, OtherThanWriter
  <1> QED BY <1>1, <1>2, <1>3, <1>4 DEF WriterStep

LEMMA TypeCaller ==
  ASSUME TypeInv, NEW c \in Callers
  PROVE  /\ \A e \in 1..MaxEpoch : AdvanceLoad(c, e) => TypeInv'
         /\ AdvanceCas(c) => TypeInv'
PROOF
  <1> USE ConfigAssumption DEF TypeInv, TypeOK
  <1>1. ASSUME NEW e \in 1..MaxEpoch, AdvanceLoad(c, e)
        PROVE  TypeInv'
    <2>1. CallersTyped' /\ EpochsTyped'
      BY <1>1 DEF AdvanceLoad, CallersTyped, EpochsTyped, OtherThanCaller
    <2> QED BY <1>1, <2>1, TypesKept DEF AdvanceLoad, OtherThanCaller
  <1>2. CASE AdvanceCas(c)
    <2>1. CallersTyped' /\ EpochsTyped'
      BY <1>2 DEF AdvanceCas, CallersTyped, EpochsTyped, OtherThanCaller
    <2> QED BY <1>2, <2>1, TypesKept DEF AdvanceCas, OtherThanCaller
  <1> QED BY <1>1, <1>2

LEMMA TypeFlusher ==
  ASSUME TypeInv, FlusherStep \/ FlusherFail
  PROVE  TypeInv'
PROOF
  <1> USE ConfigAssumption DEF TypeInv, TypeOK
  <1>1. CASE FlusherStop \/ FlusherFail
    <2>1. FlusherTyped'
      BY <1>1 DEF FlusherStop, FlusherFail, FlusherTyped
    <2>2. CopyFits'
      BY <1>1 DEF FlusherStop, FlusherFail, CopyFits
    <2> QED BY <1>1, <2>1, <2>2, TypesKept
            DEF FlusherStop, FlusherFail, OtherThanFlusher, epochVars, frameVars
  <1>2. CASE FlusherBegin
    <2>1. FlusherTyped'
      BY <1>2 DEF FlusherBegin, FlusherTyped, EpochsTyped, Writers
    <2>2. CopyFits'
      BY <1>2 DEF FlusherBegin, CopyFits
    <2> QED BY <1>2, <2>1, <2>2, TypesKept
            DEF FlusherBegin, OtherThanFlusher, epochVars, frameVars
  <1>3. CASE FlusherFind
    <2> DEFINE f == FrameOf(cur_writer, target_epoch)
    <2>1. HasFrame(cur_writer, target_epoch) => f \in Frames
      BY FrameOfIsAFrame
    <2>2. HasFrame(cur_writer, target_epoch) => user_metadata[cur_writer][f] \in Nat
      BY <2>1 DEF FramesTyped, FlusherTyped
    <2>3. FlusherTyped'
      BY <1>3, <2>1 DEF FlusherFind, FlusherTyped
    <2>4. SegmentsTyped'
      BY <1>3, <2>2 DEF FlusherFind, SegmentsTyped
    <2>5. CopyFits'
      BY <1>3 DEF FlusherFind, CopyFits
    <2> QED BY <1>3, <2>3, <2>4, <2>5, TypesKept
            DEF FlusherFind, OtherThanFlusher, epochVars, frameVars
  <1>4. CASE FlusherLoad
    <2> DEFINE distance == FrameDistance(cur_writer, cur_frame)
    <2>1. distance \in Nat /\ distance < BufferSize
      <3>1. /\ head_offset[cur_writer][cur_frame] \in Offsets
            /\ tail_offset[cur_writer][cur_frame] \in Offsets
        BY DEF FramesTyped, FlusherTyped
      <3> QED BY <3>1, DistanceBound DEF FrameDistance
    <2>2. SegmentSize - written_bytes \in Nat
      BY DEF SegmentsTyped
    <2>3. copied' = Min({SegmentSize - written_bytes, distance})
      BY <1>4 DEF FlusherLoad
    <2> HIDE DEF distance
    <2>4. copied' \in Nat /\ copied' <= SegmentSize - written_bytes /\ copied' <= distance
      BY <2>1, <2>2, <2>3, MinOfTwo
    <2>5. FlusherTyped'
      BY <1>4, <2>2, <2>4 DEF FlusherLoad, FlusherTyped, SegmentsTyped
    <2>6. CopyFits'
      BY <1>4, <2>1, <2>2, <2>4 DEF FlusherLoad, CopyFits, SegmentsTyped, segmentVars
    <2> QED BY <1>4, <2>5, <2>6, TypesKept
            DEF FlusherLoad, OtherThanFlusher, epochVars, frameVars
  <1>5. CASE FlusherCopy
    <2> DEFINE from == head_offset[cur_writer][cur_frame]
               item(i) == [writer |-> cur_writer,
                           byte |-> CircularRead(cur_writer, from, copied)[i],
                           epoch |-> target_epoch]
    <2>1. from \in Offsets /\ copied \in Nat
      BY DEF FramesTyped, FlusherTyped
    <2>2. \A i \in 1..copied : CircularRead(cur_writer, from, copied)[i] \in Nat
      <3>1. \A i \in 1..copied : (from + i - 1) % BufferSize \in Offsets
        BY <2>1 DEF Offsets
      <3> QED BY <2>1, <3>1 DEF CircularRead, WritersTyped, FlusherTyped
    <2>3. \A i \in 1..copied : item(i) \in NvByte
      BY <2>2 DEF NvByte, FlusherTyped
    <2>4. nv_log' = nv_log \o [i \in 1..copied |-> item(i)]
      BY <1>5 DEF FlusherCopy
    <2> HIDE DEF item
    <2>5. [i \in 1..copied |-> item(i)] \in Seq(NvByte)
      BY <2>1, <2>3, IsASeq
    <2>6. nv_log' \in Seq(NvByte)
      BY <2>4, <2>5, ConcatProperties DEF SegmentsTyped
    <2>7. SegmentsTyped' /\ FlusherTyped' /\ CopyFits'
      BY <1>5, <2>6 DEF FlusherCopy, SegmentsTyped, FlusherTyped, CopyFits
    <2> QED BY <1>5, <2>7, TypesKept
            DEF FlusherCopy, OtherThanFlusher, epochVars, frameVars
  <1>6. CASE FlusherStoreHead
    <2> DEFINE head == wrap_writer_offset(head_offset[cur_writer][cur_frame] + copied)
    <2>1. head \in Offsets
      <3>1. head_offset[cur_writer][cur_frame] \in Offsets
        BY DEF FramesTyped, FlusherTyped
      <3>2. copied \in Nat /\ copied < BufferSize
        BY <1>6 DEF FlusherStoreHead, FlusherTyped, CopyFits
      <3> QED BY <3>1, <3>2, WrappedOffset
    <2>2. head_offset' = [head_offset EXCEPT ![cur_writer][cur_frame] = head]
      BY <1>6 DEF FlusherStoreHead
    <2> HIDE DEF head
    <2>3. FramesTyped'
      <3>1. head_offset' \in [Writers -> [Frames -> Offsets]]
        BY <2>1, <2>2, FieldTyped DEF FramesTyped, FlusherTyped
      <3> QED BY <1>6, <3>1 DEF FlusherStoreHead, OtherThanFlusher, FramesTyped
    <2>4. written_bytes' \in 0..SegmentSize
      <3>1. fpc = "head" /\ written_bytes' = written_bytes + copied
        BY <1>6 DEF FlusherStoreHead
      <3>2. written_bytes \in Nat /\ copied \in Nat
        BY DEF SegmentsTyped, FlusherTyped
      <3>3. written_bytes + copied <= SegmentSize
        BY <3>1 DEF CopyFits
      <3> QED BY <3>1, <3>2, <3>3
    <2>5. SegmentsTyped' /\ FlusherTyped' /\ CopyFits'
      BY <1>6, <2>4 DEF FlusherStoreHead, SegmentsTyped, FlusherTyped, CopyFits
    <2> QED BY <1>6, <2>3, <2>5, TypesKept DEF FlusherStoreHead, OtherThanFlusher, epochVars
  <1>7. CASE FlusherMoveOn
    <2>1. SegmentsTyped' /\ FlusherTyped' /\ CopyFits'
      BY <1>7 DEF FlusherMoveOn, SegmentsTyped, FlusherTyped, CopyFits
    <2> QED BY <1>7, <2>1, TypesKept
            DEF FlusherMoveOn, OtherThanFlusher, epochVars, frameVars
  <1>8. CASE FlusherNextWriter
    <2>1. FlusherTyped'
      BY <1>8 DEF FlusherNextWriter, FlusherTyped, Writers
    <2>2. CopyFits'
      BY <1>8 DEF FlusherNextWriter, CopyFits
    <2> QED BY <1>8, <2>1, <2>2, TypesKept
            DEF FlusherNextWriter, OtherThanFlusher, epochVars, frameVars
  <1>9. CASE FlusherConclude
    <2> DEFINE meta == [from_seg_id |-> head_dsid, from_offset |-> head_off,
                        to_seg_id |-> current_dsid, to_off |-> written_bytes,
                        user_metadata |-> flusher_metadata]
    <2>1. meta \in MdsEpochMetadata
      BY DEF MdsEpochMetadata, SegmentsTyped
    <2>2. mds' = mds \/ mds' = Append(mds, meta)
      BY <1>9 DEF FlusherConclude, ConcludeTarget
    <2> HIDE DEF meta
    <2>3. mds' \in Seq(MdsEpochMetadata)
      BY <2>1, <2>2, AppendProperties DEF SegmentsTyped
    <2>4. SegmentsTyped'
      BY <1>9, <2>3 DEF FlusherConclude, ConcludeTarget, SegmentsTyped
    <2>5. EpochsTyped' /\ FlusherTyped' /\ CopyFits'
      BY <1>9 DEF FlusherConclude, ConcludeTarget, OtherThanFlusher, EpochsTyped,
                  FlusherTyped, CopyFits
    <2> QED BY <1>9, <2>4, <2>5, TypesKept DEF FlusherConclude, OtherThanFlusher, frameVars
  <1> QED
    BY <1>1, <1>2, <1>3, <1>4, <1>5, <1>6, <1>7, <1>8, <1>9 DEF FlusherStep

LEMMA TypeNext == TypeInv /\ [Next]_vars => TypeInv'
PROOF
  <1> SUFFICES ASSUME TypeInv, [Next]_vars PROVE TypeInv'
    OBVIOUS
  <1>1. CASE UNCHANGED vars
    BY <1>1, TypesKept DEF vars, TypeInv, TypeOK
  <1>2. CASE CloseEpoch \/ RequestStop
    <2>1. 0 \in Writers
      BY ConfigAssumption DEF Writers
    <2> QED BY <1>2, <2>1, TypeClient
  <1> QED
    BY <1>1, <1>2, TypeClient, TypeWriter, TypeCaller, TypeFlusher DEF Next

\* Offsets stay inside the buffers and segments, frames and writers inside their
\* rings, for every size: the wrap-arounds of on_wal_write and of the flusher.
THEOREM TypeCorrect == Spec => []TypeOK
PROOF
  <1>1. TypeInv => TypeOK
    BY DEF TypeInv
  <1> QED BY <1>1, TypeInit, TypeNext, PTL DEF Spec
=============================================================================
