--------------------------- MODULE MdsSearchProofs ---------------------------
(***************************************************************************)
(* The binary searches of the metadata store are right for any number of   *)
(* epochs.  The loop invariant splits the epochs at low and high: on one   *)
(* side of the range the predicate is known to fail, on the other the      *)
(* nearest epoch is the one found last.                                    *)
(***************************************************************************)
EXTENDS MdsSearch, TLAPS

Lower == kind = "lower" =>
  /\ \A e \in holds : e >= low
  /\ IF found THEN out = high + 1 /\ out \in holds ELSE high = le

Upper == kind = "upper" =>
  /\ \A e \in holds : e <= high
  /\ IF found THEN out = low - 1 /\ out \in holds ELSE low = 1

LoopInv ==
  /\ TypeOK
  /\ low <= high + 1
  /\ Monotone => Lower /\ Upper
  /\ result # -1 => low > high /\ result = IF found THEN out ELSE 0

\* The probed epoch lies in the range.
LEMMA Middle ==
  ASSUME TypeOK, low <= high
  PROVE  md \in Nat /\ low <= md /\ md <= high
BY DEF TypeOK, md

LEMMA LoopInit == Init => LoopInv
<1> SUFFICES ASSUME Init PROVE LoopInv
  OBVIOUS
<1> USE DEF Init, kNvwalInvalidEpoch
<1>1. found \in BOOLEAN
  BY Zenon
<1>2. TypeOK /\ low <= high + 1
  BY <1>1, MdsSearchAssumption DEF TypeOK
<1>3. Lower /\ Upper
  BY <1>2 DEF TypeOK, Lower, Upper
<1> QED
  BY <1>2, <1>3 DEF LoopInv

LEMMA LoopNext == LoopInv /\ [Next]_vars => LoopInv'
<1> SUFFICES ASSUME LoopInv, [Next]_vars PROVE LoopInv'
  OBVIOUS
<1> USE DEF LoopInv
<1>1. CASE ProbeLower
  <2> USE <1>1 DEF ProbeLower
  <2>1. md \in Nat /\ low <= md /\ md <= high
    BY Middle
  <2> HIDE DEF md
  <2>2. TypeOK' /\ (low <= high + 1)'
    <3>1. found' \in BOOLEAN
      BY Zenon DEF TypeOK
    <3>2. /\ low' \in 1..(le + 1) /\ high' \in 0..le /\ out' \in 0..le
          /\ low' <= high' + 1
      BY <2>1 DEF TypeOK
    <3> QED
      BY <3>1, <3>2 DEF TypeOK
  <2>3. ASSUME Monotone' PROVE Lower' /\ Upper'
    <3>1. Monotone /\ Lower
      BY <2>3 DEF Monotone
    <3>2. CASE md \in holds
      BY <2>1, <3>1, <3>2 DEF TypeOK, Lower, Upper
    <3>3. CASE md \notin holds
      <4>1. \A e \in holds : e >= md + 1
        BY <2>1, <3>1, <3>3 DEF TypeOK, Monotone
      <4> QED
        BY <2>1, <3>1, <3>3, <4>1 DEF TypeOK, Lower, Upper
    <3> QED
      BY <3>2, <3>3
  <2>4. result = -1
    BY DEF TypeOK
  <2> QED
    BY <2>2, <2>3, <2>4
<1>2. CASE ProbeUpper
  <2> USE <1>2 DEF ProbeUpper
  <2>1. md \in Nat /\ low <= md /\ md <= high
    BY Middle
  <2> HIDE DEF md
  <2>2. TypeOK' /\ (low <= high + 1)'
    <3>1. found' \in BOOLEAN
      BY Zenon DEF TypeOK
    <3>2. /\ low' \in 1..(le + 1) /\ high' \in 0..le /\ out' \in 0..le
          /\ low' <= high' + 1
      BY <2>1 DEF TypeOK
    <3> QED
      BY <3>1, <3>2 DEF TypeOK
  <2>3. ASSUME Monotone' PROVE Lower' /\ Upper'
    <3>1. Monotone /\ Upper
      BY <2>3 DEF Monotone
    <3>2. CASE md \in holds
      BY <2>1, <3>1, <3>2 DEF TypeOK, Lower, Upper
    <3>3. CASE md \notin holds
      <4>1. \A e \in holds : e <= md - 1
        BY <2>1, <3>1, <3>3 DEF TypeOK, Monotone
      <4> QED
        BY <2>1, <3>1, <3>3, <4>1 DEF TypeOK, Lower, Upper
    <3> QED
      BY <3>2, <3>3
  <2>4. result = -1
    BY DEF TypeOK
  <2> QED
    BY <2>2, <2>3, <2>4
<1>3. CASE Return
  BY <1>3 DEF Return, TypeOK, Monotone, Lower, Upper, kNvwalInvalidEpoch
<1>4. CASE UNCHANGED vars
  BY <1>4 DEF vars, TypeOK, Monotone, Lower, Upper
<1> QED
  BY <1>1, <1>2, <1>3, <1>4 DEF Next

\* A query returns the lowest (or the greatest) epoch whose metadata satisfies
\* the predicate, for every monotone predicate and every number of epochs.
THEOREM QueryCorrect == Spec => []QueryIsRight
<1>1. LoopInv => QueryIsRight
  BY DEF LoopInv, QueryIsRight, TypeOK, Lower, Upper, kNvwalInvalidEpoch
<1> QED
  BY LoopInit, LoopNext, <1>1, PTL DEF Spec
=============================================================================
