---------------------- MODULE WriterFlusherEpochProofs ----------------------
(***************************************************************************)
(* The window between DE and SE, for every number of writers and callers.  *)
(***************************************************************************)
EXTENDS WriterFlusherTypeProofs

InLoop == fpc \in {"find", "load", "copy", "head", "move", "next", "conclude"}

\* StableWindow is not inductive: a caller may hold a DE of long ago, and the
\* flusher may be about to make target_epoch durable.  A caller's expectation is
\* never ahead of DE; the flusher's target is the epoch after DE; and once the
\* flusher has seen it stable, SE stays there until DE has caught up.
EpochInv ==
  /\ StableWindow
  /\ \A c \in Callers : cpc[c] = "cas" => expected[c] <= durable_epoch
  /\ InLoop => target_epoch = durable_epoch + 1
  /\ InLoop /\ is_stable => stable_epoch = target_epoch

LEMMA EpochInit == Init => EpochInv
PROOF BY DEF Init, EpochInv, StableWindow, InLoop, kNvwalInvalidEpoch

LEMMA EpochNext == TypeOK /\ EpochInv /\ [Next]_vars => EpochInv'
PROOF
  <1> SUFFICES ASSUME EpochsTyped, CallersTyped, EpochInv, [Next]_vars
               PROVE  EpochInv'
    BY DEF TypeOK
  <1> USE DEF EpochInv, StableWindow, InLoop, EpochsTyped
  <1>1. CASE UNCHANGED <<epochVars, callerVars, flusherVars>>
    BY <1>1 DEF epochVars, callerVars, flusherVars
  <1>2. ASSUME NEW c \in Callers, NEW e \in 1..MaxEpoch, AdvanceLoad(c, e)
        PROVE  EpochInv'
    BY <1>2 DEF AdvanceLoad, OtherThanCaller, flusherVars, CallersTyped
  <1>3. ASSUME NEW c \in Callers, AdvanceCas(c)
        PROVE  EpochInv'
    <2>1. UNCHANGED <<durable_epoch, expected, fpc, target_epoch, is_stable>>
      BY <1>3 DEF AdvanceCas, OtherThanCaller, flusherVars
    <2>2. \A d \in Callers : cpc'[d] = "cas" => cpc[d] = "cas"
      BY <1>3 DEF AdvanceCas, CallersTyped
    <2>3. expected[c] \in Nat /\ expected[c] <= durable_epoch
      BY <1>3 DEF AdvanceCas, CallersTyped
    <2>4. CASE stable_epoch # expected[c]
      BY <1>3, <2>1, <2>2, <2>4 DEF AdvanceCas
    <2>5. CASE stable_epoch = expected[c]
      <3>1. durable_epoch = stable_epoch /\ stable_epoch' = durable_epoch + 1
        BY <1>3, <2>3, <2>5 DEF AdvanceCas
      <3> QED BY <2>1, <2>2, <3>1
    <2> QED BY <2>4, <2>5
  <1>4. CASE FlusherBegin
    BY <1>4 DEF FlusherBegin, OtherThanFlusher, callerVars
  <1>5. CASE FlusherConclude
    <2>1. UNCHANGED <<stable_epoch, cpc, expected, target_epoch, is_stable>> /\ fpc' = "main"
      BY <1>5 DEF FlusherConclude, OtherThanFlusher, callerVars
    <2>2. durable_epoch' = durable_epoch
          \/ (is_stable /\ durable_epoch' = target_epoch)
      BY <1>5 DEF FlusherConclude, ConcludeTarget
    <2>3. fpc = "conclude"
      BY <1>5 DEF FlusherConclude
    <2> QED BY <2>1, <2>2, <2>3 DEF CallersTyped
  <1>6. CASE FlusherStop \/ FlusherFind \/ FlusherLoad \/ FlusherCopy \/ FlusherStoreHead
             \/ FlusherMoveOn \/ FlusherNextWriter \/ FlusherFail
    <2>1. UNCHANGED <<durable_epoch, stable_epoch, cpc, expected, target_epoch, is_stable>>
      BY <1>6 DEF FlusherStop, FlusherFind, FlusherLoad, FlusherCopy, FlusherStoreHead,
                  FlusherMoveOn, FlusherNextWriter, FlusherFail, OtherThanFlusher, callerVars
    <2>2. InLoop' => InLoop
      BY <1>6 DEF FlusherStop, FlusherFind, FlusherLoad, FlusherCopy, FlusherStoreHead,
                  FlusherMoveOn, FlusherNextWriter, FlusherFail
    <2> QED BY <2>1, <2>2
  <1>7. ASSUME NEW w \in Writers, WriterStep(w)
        PROVE  UNCHANGED <<epochVars, callerVars, flusherVars>>
    BY <1>7 DEF WriterStep, AssureActiveFrame, StoreFrameTail, StoreFrameEpoch, PublishTail,
                OtherThanWriter
  <1>8. ASSUME NEW w \in Writers, NEW count \in 1..MaxWrite, NEW e \in 1..MaxEpoch,
               ClientWrite(w, count, e)
        PROVE  UNCHANGED <<epochVars, callerVars, flusherVars>>
    BY <1>8 DEF ClientWrite
  <1>9. ASSUME NEW w \in Writers, NEW e \in 1..MaxEpoch, NEW tag \in Tags, TagEpoch(w, e, tag)
        PROVE  UNCHANGED <<epochVars, callerVars, flusherVars>>
    BY <1>9 DEF TagEpoch, OtherThanWriter
  <1>10. CASE CloseEpoch \/ RequestStop \/ UNCHANGED vars
    BY <1>1, <1>10 DEF CloseEpoch, RequestStop, vars
  <1> QED
    BY <1>1, <1>2, <1>3, <1>4, <1>5, <1>6, <1>7, <1>8, <1>9, <1>10 DEF Next, FlusherStep

\* SE never leaves {DE, DE+1}, for any number of threads that advance SE.
THEOREM StableWindowHolds == Spec => []StableWindow
PROOF
  <1>1. EpochInv => StableWindow
    BY DEF EpochInv
  <1> QED BY <1>1, TypeCorrect, EpochInit, EpochNext, PTL DEF Spec

\* The closing assert of nvwal_advance_stable_epoch cannot fail.
THEOREM AdvanceAssertHolds == Spec => AdvanceTakesEffect
PROOF
  <1>1. TypeOK /\ EpochInv /\ [Next]_vars =>
          [\A c \in Callers : cpc[c] = "cas" /\ cpc'[c] = "idle" => stable_epoch' > expected[c]]_vars
    <2> SUFFICES ASSUME TypeOK, EpochInv, [Next]_vars,
                        NEW c \in Callers, cpc[c] = "cas", cpc'[c] = "idle"
                 PROVE  stable_epoch' > expected[c]
      OBVIOUS
    <2>1. /\ expected[c] \in Nat /\ durable_epoch \in Nat /\ stable_epoch \in Nat
          /\ expected[c] <= durable_epoch /\ durable_epoch <= stable_epoch
      BY DEF TypeOK, EpochsTyped, CallersTyped, EpochInv, StableWindow
    <2>2. AdvanceCas(c)
      <3>1. cpc' # cpc
        OBVIOUS
      <3>2. ~UNCHANGED vars
        BY <3>1 DEF vars, callerVars
      <3>3. ~FlusherStep /\ ~FlusherFail
        BY <3>1 DEF FlusherStep, FlusherStop, FlusherBegin, FlusherFind, FlusherLoad,
                    FlusherCopy, FlusherStoreHead, FlusherMoveOn, FlusherNextWriter,
                    FlusherConclude, FlusherFail, OtherThanFlusher, callerVars
      <3>4. \A w \in Writers : ~WriterStep(w)
        BY <3>1 DEF WriterStep, AssureActiveFrame, StoreFrameTail, StoreFrameEpoch,
                    PublishTail, OtherThanWriter, callerVars
      <3>5. /\ ~CloseEpoch /\ ~RequestStop
            /\ \A w \in Writers, e \in 1..MaxEpoch :
                 /\ \A tag \in Tags : ~TagEpoch(w, e, tag)
                 /\ \A count \in 1..MaxWrite : ~ClientWrite(w, count, e)
        BY <3>1 DEF CloseEpoch, RequestStop, TagEpoch, ClientWrite, OtherThanWriter, callerVars
      <3>6. \A d \in Callers, e \in 1..MaxEpoch : ~AdvanceLoad(d, e)
        BY DEF AdvanceLoad, TypeOK, CallersTyped
      <3>7. \E d \in Callers : AdvanceCas(d)
        BY <3>2, <3>3, <3>4, <3>5, <3>6 DEF Next
      <3> QED BY <3>7 DEF AdvanceCas, TypeOK, CallersTyped
    <2> QED BY <2>1, <2>2 DEF AdvanceCas
  <1> QED BY <1>1, TypeCorrect, EpochInit, EpochNext, PTL DEF Spec, AdvanceTakesEffect
=============================================================================
