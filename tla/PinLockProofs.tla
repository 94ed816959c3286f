--------------------------- MODULE PinLockProofs ---------------------------
(***************************************************************************)
(* The pin excludes readers and the flusher from each other for every set  *)
(* of threads.  The inductive invariant is the exact meaning of the        *)
(* counter together with mutual exclusion: exclusion alone does not say    *)
(* what a compare-and-swap that succeeds has seen.                         *)
(***************************************************************************)
EXTENDS PinLock, FiniteSetTheorems, TLAPS

Inv == TypeOK /\ PinCountIsExact /\ MutualExclusion

LEMMA ReadingIsFinite == IsFiniteSet(Reading)
  BY PinAssumption, FS_Subset DEF Reading

LEMMA InitInv == Init => Inv
<1> SUFFICES ASSUME Init PROVE Inv
  OBVIOUS
<1>1. TypeOK
  BY DEF Init, TypeOK, ReaderPC, FlusherPC
<1>2. Reading = {} /\ Recycling = {}
  BY PinAssumption DEF Init, Reading, Recycling
<1>3. PinCountIsExact
  BY <1>2, FS_EmptySet DEF Init, PinCountIsExact
<1>4. MutualExclusion
  BY <1>2 DEF MutualExclusion
<1> QED
  BY <1>1, <1>3, <1>4 DEF Inv

\* Steps that change neither the counter nor who holds the pin.
LEMMA HoldersUnchanged ==
  ASSUME Inv, pin_count' = pin_count, TypeOK',
         Reading' = Reading, Recycling' = Recycling
  PROVE  Inv'
BY DEF Inv, PinCountIsExact, MutualExclusion

LEMMA StepInv == Inv /\ [Next]_vars => Inv'
<1> SUFFICES ASSUME Inv, [Next]_vars PROVE Inv'
  OBVIOUS
<1> USE PinAssumption DEF Inv
<1>1. ASSUME NEW t \in Readers \cup Flushers, Begin(t) \/ GiveUp(t)
      PROVE  Inv'
  <2>1. TypeOK'
    BY <1>1 DEF TypeOK, Begin, GiveUp, Goto, ReaderPC, FlusherPC
  <2>2. Reading' = Reading /\ Recycling' = Recycling
    BY <1>1 DEF TypeOK, Begin, GiveUp, Goto, Reading, Recycling
  <2> QED
    BY <1>1, <2>1, <2>2, HoldersUnchanged DEF Begin, GiveUp
<1>2. ASSUME NEW r \in Readers, ReadLoad(r)
      PROVE  Inv'
  <2>1. TypeOK'
    BY <1>2 DEF TypeOK, ReadLoad, Goto, ReaderPC, FlusherPC
  <2>2. Reading' = Reading /\ Recycling' = Recycling
    BY <1>2 DEF TypeOK, ReadLoad, Goto, Reading, Recycling
  <2> QED
    BY <1>2, <2>1, <2>2, HoldersUnchanged DEF ReadLoad
<1>3. ASSUME NEW r \in Readers, ReadCas(r)
      PROVE  Inv'
  <2>1. TypeOK'
    BY <1>3 DEF TypeOK, ReadCas, Goto, ReaderPC, FlusherPC
  <2>2. CASE pin_count = cur_value[r]
    <3>1. Recycling = {} /\ pin_count = Cardinality(Reading)
      BY <2>2 DEF TypeOK, PinCountIsExact, kNvwalPinExclusive
    <3>2. Recycling' = Recycling /\ Reading' = Reading \cup {r} /\ r \notin Reading
      BY <1>3, <2>2 DEF TypeOK, ReadCas, Goto, Reading, Recycling
    <3>3. Cardinality(Reading') = Cardinality(Reading) + 1
      BY <3>2, ReadingIsFinite, FS_AddElement
    <3>4. pin_count' = pin_count + 1
      BY <1>3, <2>2 DEF ReadCas
    <3> QED
      BY <2>1, <3>1, <3>2, <3>3, <3>4 DEF PinCountIsExact, MutualExclusion
  <2>3. CASE pin_count # cur_value[r]
    <3>1. Reading' = Reading /\ Recycling' = Recycling /\ pin_count' = pin_count
      BY <1>3, <2>3 DEF TypeOK, ReadCas, Goto, Reading, Recycling
    <3> QED
      BY <2>1, <3>1, HoldersUnchanged
  <2> QED
    BY <2>2, <2>3
<1>4. ASSUME NEW r \in Readers, ReadUnlock(r)
      PROVE  Inv'
  <2>1. TypeOK'
    BY <1>4 DEF TypeOK, ReadUnlock, Goto, ReaderPC, FlusherPC
  <2>2. r \in Reading /\ Recycling = {}
    BY <1>4 DEF ReadUnlock, Reading, MutualExclusion
  <2>3. Recycling' = Recycling /\ Reading' = Reading \ {r}
    BY <1>4 DEF TypeOK, ReadUnlock, Goto, Reading, Recycling
  <2>4. Cardinality(Reading') = Cardinality(Reading) - 1
    BY <2>2, <2>3, ReadingIsFinite, FS_RemoveElement
  <2>5. pin_count' = pin_count - 1 /\ pin_count = Cardinality(Reading)
    BY <1>4, <2>2 DEF ReadUnlock, PinCountIsExact
  <2> QED
    BY <2>1, <2>2, <2>3, <2>4, <2>5 DEF PinCountIsExact, MutualExclusion
<1>5. ASSUME NEW f \in Flushers, FlusherCas(f)
      PROVE  Inv'
  <2>1. TypeOK'
    BY <1>5 DEF TypeOK, FlusherCas, Goto, ReaderPC, FlusherPC, kNvwalPinExclusive
  <2>2. CASE pin_count = 0
    <3>1. Recycling = {} /\ Cardinality(Reading) = 0
      BY <2>2 DEF PinCountIsExact, kNvwalPinExclusive
    <3>2. Reading = {}
      BY <3>1, ReadingIsFinite, FS_EmptySet
    <3>3. Recycling' = {f} /\ Reading' = {} /\ pin_count' = kNvwalPinExclusive
      BY <1>5, <2>2, <3>1, <3>2 DEF TypeOK, FlusherCas, Goto, Reading, Recycling
    <3> QED
      BY <2>1, <3>3 DEF PinCountIsExact, MutualExclusion
  <2>3. CASE pin_count # 0
    <3>1. Reading' = Reading /\ Recycling' = Recycling /\ pin_count' = pin_count
      BY <1>5, <2>3 DEF TypeOK, FlusherCas, Goto, Reading, Recycling
    <3> QED
      BY <2>1, <3>1, HoldersUnchanged
  <2> QED
    BY <2>2, <2>3
<1>6. ASSUME NEW f \in Flushers, FlusherUnlock(f)
      PROVE  Inv'
  <2>1. TypeOK'
    BY <1>6 DEF TypeOK, FlusherUnlock, Goto, ReaderPC, FlusherPC
  <2>2. Recycling = {f} /\ Reading = {}
    BY <1>6 DEF FlusherUnlock, Recycling, MutualExclusion
  <2>3. Recycling' = {} /\ Reading' = {} /\ pin_count' = 0
    BY <1>6, <2>2 DEF TypeOK, FlusherUnlock, Goto, Reading, Recycling
  <2> QED
    BY <2>1, <2>3, FS_EmptySet DEF PinCountIsExact, MutualExclusion
<1>7. CASE UNCHANGED vars
  BY <1>7, HoldersUnchanged
     DEF vars, TypeOK, ReaderPC, FlusherPC, Reading, Recycling
<1> QED
  BY <1>1, <1>2, <1>3, <1>4, <1>5, <1>6, <1>7 DEF Next, ReaderStep, FlusherStep

\* The counter is exactly -1 while a flusher recycles the segment and the number
\* of readers otherwise (nvwal_impl_pin.c), for every set of threads.
THEOREM PinCountCorrect == Spec => []PinCountIsExact
<1>1. Inv => PinCountIsExact
  BY DEF Inv
<1> QED
  BY InitInv, StepInv, <1>1, PTL DEF Spec

\* No cursor reads a segment that the flusher recycles, and one thread at a time
\* recycles it, for every set of threads.
THEOREM PinExcludes == Spec => []MutualExclusion
<1>1. Inv => MutualExclusion
  BY DEF Inv
<1> QED
  BY InitInv, StepInv, <1>1, PTL DEF Spec
=============================================================================
