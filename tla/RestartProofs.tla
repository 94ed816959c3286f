----------------------------- MODULE RestartProofs -----------------------------
(***************************************************************************)
(* For any number of segments, epochs, logs and crashes: the client is     *)
(* never told of an epoch that a crash could take back.                    *)
(***************************************************************************)
EXTENDS Restart, TLAPS

\* What the running flusher knows of the control block, which only it writes.
EpochInv ==
  /\ cb_durable_epoch \in Nat /\ durable_epoch \in Nat /\ announced \in Nat
  /\ up \in BOOLEAN
  /\ announced <= cb_durable_epoch
  /\ up => announced = durable_epoch
  /\ up /\ fpc = "announce" => cb_durable_epoch = durable_epoch + 1
  /\ ~up => fpc = "write"

LEMMA EpochInvInit == Init => EpochInv
PROOF BY SMTT(30) DEF Init, EpochInv, kNvwalInvalidEpoch

LEMMA EpochInvFlusher == EpochInv /\ FlusherStep => EpochInv'
PROOF
  <1> SUFFICES ASSUME EpochInv, FlusherStep PROVE EpochInv'
    OBVIOUS
  <1> USE DEF EpochInv
  <1>1. CASE FlusherWrite
    BY <1>1 DEF FlusherWrite, durableVars, fsyncerVars
  <1>2. CASE FlusherMoveOn
    BY <1>2 DEF FlusherMoveOn, durableVars, fsyncerVars, historyVars
  <1>3. CASE FlusherPersist
    BY <1>3 DEF FlusherPersist, segmentVars, fsyncerVars, historyVars
  <1>4. CASE FlusherWriteMeta
    BY <1>4 DEF FlusherWriteMeta, segmentVars, fsyncerVars, historyVars
  <1>5. CASE FlusherUpdateDurableEpoch
    BY <1>5 DEF FlusherUpdateDurableEpoch, segmentVars, fsyncerVars
  <1>6. CASE FlusherAnnounce
    BY <1>6 DEF FlusherAnnounce, durableVars, segmentVars, fsyncerVars
  <1> QED BY SMTT(30), <1>1, <1>2, <1>3, <1>4, <1>5, <1>6 DEF FlusherStep

LEMMA EpochInvFsyncer == EpochInv /\ FsyncerStep => EpochInv'
PROOF
  <1> SUFFICES ASSUME EpochInv, FsyncerStep PROVE EpochInv'
    OBVIOUS
  <1>1. UNCHANGED <<cb_durable_epoch, durable_epoch, announced, up, fpc>>
    BY DEF FsyncerStep, FsyncerLook, FsyncerCopy, FsyncerComplete, FsyncerRecord,
           FsyncerPersist, durableVars, segmentVars, flusherVars, historyVars
  <1> QED BY SMTT(30), <1>1 DEF EpochInv

LEMMA EpochInvCrash == EpochInv /\ ProcessEnds => EpochInv'
PROOF
  <1> SUFFICES ASSUME EpochInv, ProcessEnds PROVE EpochInv'
    OBVIOUS
  <1>1. /\ up' = FALSE /\ durable_epoch' = 0 /\ fpc' = "write"
        /\ UNCHANGED <<cb_durable_epoch, announced>>
    BY Zenon DEF ProcessEnds, kNvwalInvalidEpoch
  <1> QED BY ZenonT(30), <1>1 DEF EpochInv

LEMMA EpochInvRestart ==
  ASSUME NEW resuming_epoch \in ResumingEpochs, EpochInv, nvwal_init(resuming_epoch)
  PROVE  EpochInv'
PROOF BY RestartAssumption DEF EpochInv, nvwal_init, kNvwalInvalidEpoch

LEMMA EpochInvNext == EpochInv /\ [Next]_vars => EpochInv'
PROOF
  <1> SUFFICES ASSUME EpochInv, [Next]_vars PROVE EpochInv'
    OBVIOUS
  <1>1. CASE UNCHANGED vars
    BY <1>1 DEF EpochInv, vars, durableVars, flusherVars, historyVars
  <1> QED
    BY <1>1, EpochInvFlusher, EpochInvFsyncer, EpochInvCrash, EpochInvRestart
    DEF Next, Crash, FlusherAssertFails

\* No epoch is announced before the control block has it: the order of the steps of
\* flusher_conclude_stable_epoch, and what nvwal_init takes for the durable epoch.
THEOREM AnnouncedIsDurable == Spec => []AnnouncedEpochsSurvive
PROOF
  <1>1. EpochInv => AnnouncedEpochsSurvive
    BY DEF EpochInv, AnnouncedEpochsSurvive
  <1> QED BY <1>1, EpochInvInit, EpochInvNext, PTL DEF Spec

----------------------------------------------------------------------------
(* The dsid of an NV segment after a restart.                              *)

\* A number between consecutive multiples of n has one remainder only.
LEMMA RemainderIsUnique ==
  ASSUME NEW n \in Nat \ {0}, NEW q \in Nat, NEW i \in 0..(n - 1)
  PROVE  (q * n + i) % n = i
PROOF BY SMTT(60)

\* The asserts of init_existing_nvram_segment: after a restart NV segment i holds the
\* one segment of the window after the last synced one whose number leaves i, so that
\* flusher_get_segment_from_dsid finds it, for every number of segments, as long as
\* the numbers of the window fit in the uint32_t the code computes them in.
THEOREM ExistingDsidIsRight ==
  ASSUME NEW i \in Indexes, last_synced_dsid \in Nat,
         last_synced_dsid + SegmentCount < UInt32Range
  PROVE  /\ ExistingDsid(i) \in (last_synced_dsid + 1)..(last_synced_dsid + SegmentCount)
         /\ flusher_get_segment_from_dsid(ExistingDsid(i)) = i
PROOF
  <1> DEFINE n == SegmentCount
             q == (last_synced_dsid - 1) \div n
             r == (last_synced_dsid - 1) % n
  <1>1. n \in Nat \ {0, 1} /\ i \in 0..(n - 1) /\ UInt32Range \in Nat \ {0}
    BY RestartAssumption DEF Indexes
  <1>2. CASE last_synced_dsid = 0
    <2>1. ExistingDsid(i) = i + 1
      BY <1>2 DEF ExistingDsid, kNvwalInvalidDsid
    <2>2. i % n = i
      BY <1>1
    <2> QED BY SMTT(30), <1>1, <1>2, <2>1, <2>2 DEF flusher_get_segment_from_dsid
  <1>3. CASE last_synced_dsid # 0
    <2>1. q \in Nat /\ r \in 0..(n - 1) /\ last_synced_dsid - 1 = q * n + r
      BY <1>1, <1>3
    <2>2. q * n \in Nat /\ (q + 1) * n = q * n + n /\ q <= q * n
      BY <1>1, <2>1
    <2>3. ExistingDsid(i) = LET round == ((q % UInt32Range) * n + i + 1) % UInt32Range
                            IN  IF round > last_synced_dsid THEN round ELSE round + n
      BY <1>3 DEF ExistingDsid, kNvwalInvalidDsid
    <2> HIDE DEF q, r
    <2>4. q % UInt32Range = q
      <3>1. q < UInt32Range
        BY SMTT(30), <1>1, <2>1, <2>2
      <3> QED BY SMTT(30), <1>1, <2>1, <3>1
    <2>5. (q * n + i + 1) % UInt32Range = q * n + i + 1
      <3> DEFINE x == q * n + i + 1
      <3>1. x \in Nat /\ x < UInt32Range
        BY SMTT(30), <1>1, <2>1, <2>2
      <3> HIDE DEF x
      <3>2. x % UInt32Range = x
        BY SMTT(30), <1>1, <3>1
      <3> QED BY <3>2 DEF x
    <2>6. ExistingDsid(i) = IF q * n + i + 1 > last_synced_dsid THEN q * n + i + 1
                            ELSE q * n + i + 1 + n
      BY SMTT(30), <2>3, <2>4, <2>5
    <2>7. CASE q * n + i + 1 > last_synced_dsid
      <3>1. (q * n + i) % n = i
        BY SMTT(30), <1>1, <2>1, RemainderIsUnique
      <3>2. ExistingDsid(i) = q * n + i + 1
        BY <2>6, <2>7
      <3>3. ExistingDsid(i) - 1 = q * n + i
        BY SMTT(30), <3>2, <2>2, <1>1
      <3> QED BY SMTT(30), <1>1, <2>1, <2>2, <2>7, <3>1, <3>2, <3>3
              DEF flusher_get_segment_from_dsid
    <2>8. CASE ~(q * n + i + 1 > last_synced_dsid)
      <3>1. ((q + 1) * n + i) % n = i
        BY SMTT(30), <1>1, <2>1, RemainderIsUnique
      <3>2. ExistingDsid(i) = q * n + i + 1 + n
        BY SMTT(30), <2>6, <2>8
      <3>3. ExistingDsid(i) - 1 = (q + 1) * n + i
        BY SMTT(30), <3>2, <2>2, <1>1
      <3> QED BY SMTT(30), <1>1, <2>1, <2>2, <2>8, <3>1, <3>2, <3>3
              DEF flusher_get_segment_from_dsid
    <2> QED BY <2>7, <2>8
  <1> QED BY <1>2, <1>3

\* Without that hypothesis the asserts fail: once SegmentCount more segments than a
\* uint32_t counts are on disk, the dsid found for every NV segment is one that is
\* already on disk.
THEOREM ExistingDsidWraps ==
  ASSUME NEW i \in Indexes, last_synced_dsid \in Nat,
         last_synced_dsid >= UInt32Range + SegmentCount
  PROVE  ExistingDsid(i) <= last_synced_dsid
PROOF
  <1> DEFINE q == (last_synced_dsid - 1) \div SegmentCount
             x == (q % UInt32Range) * SegmentCount + i + 1
  <1>1. /\ SegmentCount \in Nat \ {0, 1} /\ i \in 0..(SegmentCount - 1)
        /\ UInt32Range \in Nat \ {0}
    BY RestartAssumption DEF Indexes
  <1>2. last_synced_dsid # 0
    BY <1>1
  <1>3. q \in Nat
    BY SMTT(30), <1>1, <1>2
  <1>4. ExistingDsid(i) = IF x % UInt32Range > last_synced_dsid THEN x % UInt32Range
                          ELSE (x % UInt32Range) + SegmentCount
    BY <1>2 DEF ExistingDsid, kNvwalInvalidDsid
  <1> HIDE DEF q
  <1>5. x \in Nat
    <2>1. q % UInt32Range \in Nat
      BY <1>1, <1>3
    <2> DEFINE c == q % UInt32Range
    <2> HIDE DEF c
    <2>2. c \in Nat
      BY <2>1 DEF c
    <2>3. c * SegmentCount \in Nat
      BY <1>1, <2>2
    <2>4. c * SegmentCount + i + 1 \in Nat
      BY <1>1, <2>3
    <2> QED BY <2>4 DEF c
  <1> HIDE DEF x
  <1>6. x % UInt32Range \in 0..(UInt32Range - 1)
    BY <1>1, <1>5
  <1> QED BY SMTT(30), <1>1, <1>4, <1>6

=============================================================================
