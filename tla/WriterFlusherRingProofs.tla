----------------------- MODULE WriterFlusherRingProofs -----------------------
(***************************************************************************)
(* The reuse of epoch frames, for every length of the ring and every       *)
(* number of writers.                                                      *)
(***************************************************************************)
EXTENDS WriterFlusherEpochProofs

\* How many steps of the ring frame f lies behind frame a.
Age(a, f) == IF f <= a THEN a - f ELSE a + FrameCount - f

Taking(w) == wpc[w] \in {"frame_tail", "frame_epoch"}

\* The epoch of the active frame, or the epoch it is being taken for.
TopEpoch(w) == IF Taking(w) THEN call_epoch[w] ELSE log_epoch[w][active_frame[w]]

\* Epochs fall by at least one per step back along the ring.  The next frame in
\* the ring is FrameCount - 1 steps behind the active one, so its epoch is at
\* most call_epoch - FrameCount, which the client's limit puts at or below DE.
RingFalls(a, L, top) ==
  \A f \in Frames : f # a => L[f] = kNvwalInvalidEpoch \/ L[f] + Age(a, f) <= top

FrameInv(w) ==
  /\ log_epoch[w][active_frame[w]] <= call_epoch[w]
  /\ call_epoch[w] <= stable_epoch + MaxAhead
  /\ Taking(w) => log_epoch[w][active_frame[w]] <= durable_epoch
  /\ RingFalls(active_frame[w], log_epoch[w], TopEpoch(w))

RingInv == \A w \in Writers : FrameInv(w)

LEMMA RingInit == Init => RingInv
PROOF BY ConfigAssumption DEF Init, Frames, RingInv, FrameInv, RingFalls, Taking, kNvwalInvalidEpoch

LEMMA EpochsGrow ==
  TypeOK /\ EpochInv /\ [Next]_vars =>
    stable_epoch' >= stable_epoch /\ durable_epoch' >= durable_epoch
PROOF
  <1> SUFFICES ASSUME EpochsTyped, CallersTyped, EpochInv, [Next]_vars
               PROVE  stable_epoch' >= stable_epoch /\ durable_epoch' >= durable_epoch
    BY DEF TypeOK
  <1> USE DEF EpochsTyped
  <1>1. CASE UNCHANGED epochVars
    BY <1>1 DEF epochVars
  <1>2. ASSUME NEW c \in Callers, AdvanceCas(c)
        PROVE  stable_epoch' >= stable_epoch /\ durable_epoch' >= durable_epoch
    BY <1>2 DEF AdvanceCas, OtherThanCaller, CallersTyped
  <1>3. CASE FlusherConclude
    BY <1>3 DEF FlusherConclude, ConcludeTarget, OtherThanFlusher, EpochInv, InLoop
  <1>4. ASSUME FlusherStep, ~FlusherConclude
        PROVE  UNCHANGED epochVars
    BY <1>4 DEF FlusherStep, FlusherStop, FlusherBegin, FlusherFind, FlusherLoad, FlusherCopy,
                FlusherStoreHead, FlusherMoveOn, FlusherNextWriter, OtherThanFlusher, epochVars
  <1>5. CASE FlusherFail \/ CloseEpoch \/ RequestStop \/ UNCHANGED vars
    BY <1>1, <1>5 DEF FlusherFail, CloseEpoch, RequestStop, OtherThanFlusher, epochVars, vars
  <1>6. ASSUME NEW w \in Writers, WriterStep(w)
        PROVE  UNCHANGED epochVars
    BY <1>6 DEF WriterStep, AssureActiveFrame, StoreFrameTail, StoreFrameEpoch, PublishTail,
                OtherThanWriter
  <1>7. ASSUME NEW w \in Writers, NEW count \in 1..MaxWrite, NEW e \in 1..MaxEpoch,
               ClientWrite(w, count, e)
        PROVE  UNCHANGED epochVars
    BY <1>7 DEF ClientWrite
  <1>8. ASSUME NEW w \in Writers, NEW e \in 1..MaxEpoch, NEW tag \in Tags, TagEpoch(w, e, tag)
        PROVE  UNCHANGED epochVars
    BY <1>8 DEF TagEpoch, OtherThanWriter
  <1>9. ASSUME NEW c \in Callers, NEW e \in 1..MaxEpoch, AdvanceLoad(c, e)
        PROVE  UNCHANGED epochVars
    BY <1>9 DEF AdvanceLoad, OtherThanCaller, epochVars
  <1> QED
    BY <1>1, <1>2, <1>3, <1>4, <1>5, <1>6, <1>7, <1>8, <1>9 DEF Next

\* What FrameInv(w) says survives any step that leaves writer w's frames and call
\* alone, because epochs only grow.
LEMMA FrameInvKept ==
  ASSUME NEW w \in Writers, TypeOK, TypeOK', FrameInv(w),
         stable_epoch' >= stable_epoch, durable_epoch' >= durable_epoch,
         log_epoch'[w] = log_epoch[w], active_frame'[w] = active_frame[w],
         call_epoch'[w] = call_epoch[w], Taking(w)' = Taking(w)
  PROVE  FrameInv(w)'
PROOF
  <1>1. /\ log_epoch[w] \in [Frames -> Nat] /\ active_frame[w] \in Frames
        /\ call_epoch[w] \in Nat
        /\ stable_epoch \in Nat /\ stable_epoch' \in Nat
        /\ durable_epoch \in Nat /\ durable_epoch' \in Nat
    BY DEF TypeOK, EpochsTyped, FramesTyped, WritersTyped, CallsTyped
  <1>2. TopEpoch(w)' = TopEpoch(w)
    BY DEF TopEpoch
  <1>3. log_epoch[w][active_frame[w]] \in Nat /\ MaxAhead \in Nat
    BY <1>1, ConfigAssumption
  <1>4. /\ log_epoch[w][active_frame[w]] <= call_epoch[w]
        /\ call_epoch[w] <= stable_epoch + MaxAhead
        /\ Taking(w) => log_epoch[w][active_frame[w]] <= durable_epoch
        /\ RingFalls(active_frame[w], log_epoch[w], TopEpoch(w))
    BY DEF FrameInv
  <1>5. call_epoch'[w] <= stable_epoch' + MaxAhead
    BY <1>1, <1>3, <1>4
  <1>6. Taking(w)' => log_epoch'[w][active_frame'[w]] <= durable_epoch'
    BY <1>1, <1>3, <1>4
  <1>7. RingFalls(active_frame[w], log_epoch[w], TopEpoch(w))'
    BY <1>2, <1>4 DEF RingFalls
  <1> QED BY <1>4, <1>5, <1>6, <1>7 DEF FrameInv

LEMMA RingAssure ==
  ASSUME NEW w \in Writers, TypeOK, EpochInv, FrameInv(w), AssureActiveFrame(w)
  PROVE  FrameInv(w)'
PROOF
  <1> DEFINE a == active_frame[w]
             L == log_epoch[w]
             E == call_epoch[w]
             b == active_frame'[w]
  <1>1. /\ L \in [Frames -> Nat] /\ a \in Frames /\ E \in Nat
        /\ stable_epoch \in Nat /\ durable_epoch \in Nat /\ stable_epoch <= durable_epoch + 1
        /\ FrameCount \in Nat /\ MaxAhead \in 1..(FrameCount - 1)
    BY ConfigAssumption
       DEF TypeOK, EpochsTyped, FramesTyped, WritersTyped, CallsTyped, EpochInv, StableWindow
  <1>2. /\ log_epoch' = log_epoch /\ call_epoch' = call_epoch
        /\ stable_epoch' = stable_epoch /\ durable_epoch' = durable_epoch
        /\ ~Taking(w)
    BY DEF AssureActiveFrame, OtherThanWriter, epochVars, Taking
  <1>3. L[a] \in Nat /\ L[a] <= E /\ E <= stable_epoch + MaxAhead
    BY <1>1 DEF FrameInv
  <1>4. \A f \in Frames : f # a => L[f] = 0 \/ L[f] + Age(a, f) <= L[a]
    BY <1>2 DEF FrameInv, RingFalls, TopEpoch, kNvwalInvalidEpoch
  <1>5. CASE L[a] = E
    <2>1. b = a /\ ~Taking(w)'
      BY <1>5 DEF AssureActiveFrame, TypeOK, CallsTyped, Taking
    <2>2. TopEpoch(w)' = TopEpoch(w) /\ b = a /\ log_epoch'[w] = L
      BY <1>2, <2>1 DEF TopEpoch
    <2> QED BY <1>1, <1>2, <1>3, <2>1, <2>2 DEF FrameInv
  <1>6. CASE L[a] # E
    <2>1. /\ Taking(w)' /\ TopEpoch(w)' = E
          /\ b = IF L[a] = 0 THEN a ELSE wrap_writer_epoch_frame(a + 1)
      BY <1>2, <1>6 DEF AssureActiveFrame, TypeOK, CallsTyped, WritersTyped, Taking, TopEpoch,
                        kNvwalInvalidEpoch
    <2>2. CASE L[a] = 0
      <3>1. b = a
        BY <2>1, <2>2
      <3> HIDE DEF a, L, E
      <3>2. \A f \in Frames : f # a => L[f] = 0 \/ L[f] + Age(a, f) <= E
        <4> SUFFICES ASSUME NEW f \in Frames, f # a, L[f] # 0
                     PROVE  L[f] + Age(a, f) <= E
          OBVIOUS
        <4>1. L[f] \in Nat /\ Age(a, f) \in Nat
          BY <1>1 DEF Age, Frames
        <4> QED BY <1>1, <1>3, <1>4, <4>1
      <3>3. RingFalls(a, L, E)
        BY <3>2 DEF RingFalls, kNvwalInvalidEpoch
      <3>4. L[b] <= E /\ E <= stable_epoch + MaxAhead /\ L[b] <= durable_epoch
        BY <1>1, <1>3, <2>2, <3>1
      <3>5. RingFalls(active_frame[w], log_epoch[w], TopEpoch(w))'
        BY <1>2, <2>1, <3>1, <3>3 DEF RingFalls, a, L, E
      <3> QED BY <1>2, <3>4, <3>5 DEF FrameInv, L, E
    <2>3. CASE L[a] # 0
      <3> HIDE DEF a, L, E, b
      <3>1. b = wrap_writer_epoch_frame(a + 1)
        BY <2>1, <2>3
      <3>2. /\ b \in Frames /\ b # a /\ Age(b, a) = 1 /\ Age(a, b) = FrameCount - 1
            /\ \A f \in Frames : f # a /\ f # b => Age(b, f) = Age(a, f) + 1 /\ Age(a, f) \in Nat
        BY <1>1, <3>1 DEF Age, Frames, wrap_writer_epoch_frame
      <3>3. L[a] + 1 <= E
        BY <1>1, <1>3, <1>6
      <3>4. \A f \in Frames : f # b => L[f] = 0 \/ L[f] + Age(b, f) <= E
        <4> SUFFICES ASSUME NEW f \in Frames, f # b, L[f] # 0
                     PROVE  L[f] + Age(b, f) <= E
          OBVIOUS
        <4>1. CASE f = a
          BY <3>2, <3>3, <4>1
        <4>2. CASE f # a
          <5>1. L[f] + Age(a, f) <= L[a] /\ L[f] \in Nat
            BY <1>1, <1>4, <4>2
          <5>2. Age(b, f) = Age(a, f) + 1 /\ Age(a, f) \in Nat
            BY <3>2, <4>2
          <5> QED BY <1>1, <1>3, <3>3, <5>1, <5>2
        <4> QED BY <4>1, <4>2
      <3>5. L[b] <= durable_epoch /\ L[b] <= E /\ L[b] \in Nat
        BY <1>1, <1>3, <1>4, <3>2, <3>3
      <3>6. RingFalls(b, L, E)
        BY <3>4 DEF RingFalls, kNvwalInvalidEpoch
      <3>7. RingFalls(active_frame[w], log_epoch[w], TopEpoch(w))'
        BY <1>2, <2>1, <3>6 DEF RingFalls, L, E, b
      <3> QED BY <1>2, <1>3, <3>5, <3>7 DEF FrameInv, L, E, b
    <2> QED BY <2>2, <2>3
  <1> QED BY <1>5, <1>6

LEMMA RingWriter ==
  ASSUME NEW w \in Writers, TypeOK, TypeOK', FrameInv(w), EpochInv, WriterStep(w)
  PROVE  FrameInv(w)'
PROOF
  <1>1. /\ log_epoch[w] \in [Frames -> Nat] /\ active_frame[w] \in Frames
        /\ call_epoch[w] \in Nat /\ stable_epoch \in Nat /\ durable_epoch \in Nat
    BY DEF TypeOK, EpochsTyped, FramesTyped, WritersTyped, CallsTyped
  <1>2. CASE AssureActiveFrame(w)
    BY <1>2, RingAssure
  <1>3. CASE StoreFrameTail(w) \/ PublishTail(w)
    <2>1. Taking(w)' = Taking(w)
      BY <1>3 DEF StoreFrameTail, PublishTail, Taking, TypeOK, CallsTyped
    <2>2. UNCHANGED <<stable_epoch, durable_epoch, log_epoch, active_frame, call_epoch>>
      BY <1>3 DEF StoreFrameTail, PublishTail, OtherThanWriter, epochVars, writerVars
    <2> QED BY <1>1, <2>1, <2>2, FrameInvKept
  <1>4. CASE StoreFrameEpoch(w)
    <2>1. /\ UNCHANGED <<stable_epoch, durable_epoch, active_frame, call_epoch>>
          /\ Taking(w) /\ ~Taking(w)'
      BY <1>4 DEF StoreFrameEpoch, OtherThanWriter, epochVars, writerVars, Taking, TypeOK, CallsTyped
    <2>2. /\ log_epoch'[w][active_frame[w]] = call_epoch[w]
          /\ \A f \in Frames : f # active_frame[w] => log_epoch'[w][f] = log_epoch[w][f]
      BY <1>1, <1>4 DEF StoreFrameEpoch, TypeOK, FramesTyped
    <2>3. TopEpoch(w) = call_epoch[w] /\ TopEpoch(w)' = call_epoch[w]
      BY <2>1, <2>2 DEF TopEpoch
    <2>4. RingFalls(active_frame[w], log_epoch'[w], call_epoch[w])
      BY <2>2, <2>3 DEF FrameInv, RingFalls
    <2>5. RingFalls(active_frame[w], log_epoch[w], TopEpoch(w))'
      BY <2>1, <2>3, <2>4 DEF RingFalls
    <2>6. call_epoch[w] <= stable_epoch + MaxAhead /\ call_epoch[w] <= call_epoch[w]
      BY <1>1 DEF FrameInv
    <2> QED BY <2>1, <2>2, <2>5, <2>6 DEF FrameInv
  <1> QED BY <1>2, <1>3, <1>4 DEF WriterStep

LEMMA RingNext ==
  TypeOK /\ TypeOK' /\ EpochInv /\ RingInv /\ [Next]_vars => RingInv'
PROOF
  <1> SUFFICES ASSUME TypeOK, TypeOK', EpochInv, RingInv, [Next]_vars, NEW w \in Writers
               PROVE  FrameInv(w)'
    BY DEF RingInv
  <1>1. FrameInv(w)
    BY DEF RingInv
  <1>2. stable_epoch' >= stable_epoch /\ durable_epoch' >= durable_epoch
    BY EpochsGrow
  <1>3. ASSUME log_epoch'[w] = log_epoch[w], active_frame'[w] = active_frame[w],
               call_epoch'[w] = call_epoch[w], wpc'[w] = wpc[w]
        PROVE  FrameInv(w)'
    <2>1. Taking(w)' = Taking(w)
      BY <1>3 DEF Taking
    <2> QED BY <1>1, <1>2, <1>3, <2>1, FrameInvKept
  <1>4. ASSUME NEW v \in Writers, NEW count \in 1..MaxWrite, NEW e \in 1..MaxEpoch,
               ClientWrite(v, count, e)
        PROVE  FrameInv(w)'
    <2>1. UNCHANGED <<log_epoch, active_frame, stable_epoch, durable_epoch>>
      BY <1>4 DEF ClientWrite, frameVars, epochVars
    <2>2. CASE v # w
      <3>1. wpc'[w] = wpc[w] /\ call_epoch'[w] = call_epoch[w]
        BY <1>4, <2>2 DEF ClientWrite, TypeOK, CallsTyped
      <3> QED BY <1>3, <2>1, <3>1
    <2>3. CASE v = w
      <3>1. /\ ~Taking(w) /\ ~Taking(w)'
            /\ call_epoch'[w] = e /\ e >= call_epoch[w] /\ e <= stable_epoch + MaxAhead
        BY <1>4, <2>3 DEF ClientWrite, Taking, TypeOK, CallsTyped
      <3>2. TopEpoch(w)' = TopEpoch(w)
        BY <2>1, <3>1 DEF TopEpoch
      <3>3. log_epoch[w][active_frame[w]] \in Nat /\ call_epoch[w] \in Nat
        BY DEF TypeOK, FramesTyped, WritersTyped, CallsTyped
      <3>4. /\ log_epoch[w][active_frame[w]] <= call_epoch[w]
            /\ RingFalls(active_frame[w], log_epoch[w], TopEpoch(w))
        BY <1>1 DEF FrameInv
      <3>5. log_epoch[w][active_frame[w]] <= e
        BY <3>1, <3>3, <3>4
      <3>6. RingFalls(active_frame[w], log_epoch[w], TopEpoch(w))'
        BY <2>1, <3>2, <3>4 DEF RingFalls
      <3> QED BY <2>1, <3>1, <3>5, <3>6 DEF FrameInv
    <2> QED BY <2>2, <2>3
  <1>5. ASSUME NEW v \in Writers, WriterStep(v)
        PROVE  FrameInv(w)'
    <2>1. CASE v = w
      BY <1>1, <1>5, <2>1, RingWriter
    <2>2. CASE v # w
      <3>1. /\ log_epoch'[w] = log_epoch[w] /\ active_frame'[w] = active_frame[w]
            /\ call_epoch'[w] = call_epoch[w] /\ wpc'[w] = wpc[w]
        <4> USE <1>5, <2>2 DEF writerVars, TypeOK, FramesTyped, WritersTyped, CallsTyped
        <4>1. CASE AssureActiveFrame(v)
          BY <4>1 DEF AssureActiveFrame
        <4>2. CASE StoreFrameTail(v)
          BY <4>2 DEF StoreFrameTail
        <4>3. CASE StoreFrameEpoch(v)
          BY <4>3 DEF StoreFrameEpoch
        <4>4. CASE PublishTail(v)
          BY <4>4 DEF PublishTail
        <4> QED BY <4>1, <4>2, <4>3, <4>4 DEF WriterStep
      <3> QED BY <1>3, <3>1
    <2> QED BY <2>1, <2>2
  <1>6. ASSUME UNCHANGED <<log_epoch, active_frame, call_epoch, wpc>>
        PROVE  FrameInv(w)'
    BY <1>3, <1>6, SMTT(30)
  <1>7. CASE FlusherStep \/ FlusherFail
    BY <1>6, <1>7 DEF FlusherStep, FlusherStop, FlusherBegin, FlusherFind, FlusherLoad,
         FlusherCopy, FlusherStoreHead, FlusherMoveOn, FlusherNextWriter, FlusherConclude,
         FlusherFail, OtherThanFlusher, writerVars, callVars
  <1>8. CASE CloseEpoch \/ RequestStop \/ UNCHANGED vars
    BY <1>6, <1>8 DEF CloseEpoch, RequestStop, vars, frameVars, writerVars, callVars
  <1>9. ASSUME NEW v \in Writers, NEW e \in 1..MaxEpoch, NEW tag \in Tags, TagEpoch(v, e, tag)
        PROVE  FrameInv(w)'
    BY <1>6, <1>9 DEF TagEpoch, writerVars, callVars
  <1>10. ASSUME NEW c \in Callers, NEW e \in 1..MaxEpoch, AdvanceLoad(c, e)
         PROVE  FrameInv(w)'
    BY <1>6, <1>10 DEF AdvanceLoad, OtherThanCaller, frameVars, writerVars, callVars
  <1>11. ASSUME NEW c \in Callers, AdvanceCas(c)
         PROVE  FrameInv(w)'
    BY <1>6, <1>11 DEF AdvanceCas, OtherThanCaller, frameVars, writerVars, callVars
  <1> QED
    BY <1>4, <1>5, <1>7, <1>8, <1>9, <1>10, <1>11 DEF Next

\* A writer that moves on to the next frame of the ring never takes one whose
\* epoch the flusher still has to make durable: with FrameCount frames the client
\* may run FrameCount - 1 epochs ahead of SE, the limit nvwal_on_wal_write asserts.
THEOREM ReusedFrameCorrect == Spec => []ReusedFrameIsIrrelevant
PROOF
  <1>1. RingInv => ReusedFrameIsIrrelevant
    BY DEF RingInv, FrameInv, Taking, ReusedFrameIsIrrelevant
  <1>2. TypeOK /\ EpochInv /\ [Next]_vars => EpochInv'
    BY EpochNext
  <1> QED
    BY <1>1, <1>2, TypeCorrect, EpochInit, RingInit, RingNext, PTL DEF Spec

=============================================================================
