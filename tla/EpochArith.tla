------------------------------ MODULE EpochArith ------------------------------
(***************************************************************************)
(* Arithmetic on epochs (nvwal_api.h): unsigned integers that wrap around  *)
(* and skip kNvwalInvalidEpoch.  The other modules count epochs in the     *)
(* naturals; the theorems here are what entitles them to, as long as the   *)
(* epochs that are compared lie less than half the range apart.            *)
(***************************************************************************)
EXTENDS Integers, TLAPS

CONSTANT Half       \* 2^63: half the range of nvwal_epoch_t

Modulus == 2 * Half
kNvwalInvalidEpoch == 0
Epoch == 1..(Modulus - 1)

nvwal_is_epoch_after(left, right) ==
  LET diff == (left - right) % Modulus IN diff # 0 /\ diff < Half

nvwal_is_epoch_equal_or_after(left, right) ==
  left = right \/ nvwal_is_epoch_after(left, right)

nvwal_increment_epoch(epoch) ==
  LET ret == (epoch + 1) % Modulus
  IN  IF ret = kNvwalInvalidEpoch THEN (ret + 1) % Modulus ELSE ret

nvwal_add_epoch(epoch, operand) ==
  LET ret == (epoch + operand) % Modulus
  IN  IF ret < epoch THEN (ret + 1) % Modulus ELSE ret

----------------------------------------------------------------------------
\* The remainder of a number at most one round away.
LEMMA NearRemainder ==
  ASSUME Half \in Nat \ {0, 1}, NEW x \in (-Modulus)..(2 * Modulus - 1)
  PROVE  x % Modulus = IF x < 0 THEN x + Modulus ELSE IF x < Modulus THEN x ELSE x - Modulus
PROOF BY SMTT(60) DEF Modulus

\* nvwal_increment_epoch never returns kNvwalInvalidEpoch, and is one more or wraps
\* around to the first epoch.
THEOREM IncrementSkipsInvalid ==
  ASSUME Half \in Nat \ {0, 1}, NEW e \in Epoch
  PROVE  nvwal_increment_epoch(e) = IF e = Modulus - 1 THEN 1 ELSE e + 1
PROOF
  <1>1. Modulus \in Nat /\ Modulus > 3
    BY DEF Modulus
  <1>2. (e + 1) % Modulus = IF e + 1 < Modulus THEN e + 1 ELSE 0
    BY <1>1, NearRemainder DEF Epoch
  <1>3. 1 % Modulus = 1
    BY <1>1, NearRemainder
  <1> HIDE DEF Modulus
  <1> QED BY <1>1, <1>2, <1>3 DEF nvwal_increment_epoch, Epoch, kNvwalInvalidEpoch

\* nvwal_add_epoch in plain numbers: it skips kNvwalInvalidEpoch when it wraps around.
LEMMA AddInPlainNumbers ==
  ASSUME Half \in Nat \ {0, 1}, NEW e \in Epoch, NEW k \in 0..(Modulus - 2)
  PROVE  nvwal_add_epoch(e, k) = IF e + k < Modulus THEN e + k ELSE e + k - Modulus + 1
PROOF
  <1>1. Modulus \in Nat /\ Modulus > 3
    BY DEF Modulus
  <1> HIDE DEF Modulus
  <1>2. (e + k) % Modulus = IF e + k < Modulus THEN e + k ELSE e + k - Modulus
    BY <1>1, NearRemainder DEF Epoch
  <1>3. e + k >= Modulus => (e + k - Modulus + 1) % Modulus = e + k - Modulus + 1
    BY <1>1, NearRemainder DEF Epoch
  <1> QED BY <1>1, <1>2, <1>3 DEF nvwal_add_epoch, Epoch

\* "This method is equivalent to call nvwal_increment_epoch() operand times": nothing
\* for 0, and one call more for each one more, for every epoch and every operand that
\* does not go round to the epoch itself.
THEOREM AddIsRepeatedIncrement ==
  ASSUME Half \in Nat \ {0, 1}, NEW e \in Epoch, NEW k \in 0..(Modulus - 3)
  PROVE  /\ nvwal_add_epoch(e, 0) = e
         /\ nvwal_add_epoch(e, k) \in Epoch
         /\ nvwal_add_epoch(e, k + 1) = nvwal_increment_epoch(nvwal_add_epoch(e, k))
PROOF
  <1>1. Modulus \in Nat /\ Modulus > 3
    BY DEF Modulus
  <1> HIDE DEF Modulus
  <1>2. nvwal_add_epoch(e, 0) = e
    BY <1>1, AddInPlainNumbers DEF Epoch
  <1>3. nvwal_add_epoch(e, k) = IF e + k < Modulus THEN e + k ELSE e + k - Modulus + 1
    BY <1>1, AddInPlainNumbers
  <1>4. nvwal_add_epoch(e, k + 1) =
          IF e + (k + 1) < Modulus THEN e + (k + 1) ELSE e + (k + 1) - Modulus + 1
    BY <1>1, AddInPlainNumbers
  <1>5. nvwal_add_epoch(e, k) \in Epoch
    BY <1>1, <1>3 DEF Epoch
  <1>6. nvwal_increment_epoch(nvwal_add_epoch(e, k)) =
          IF nvwal_add_epoch(e, k) = Modulus - 1 THEN 1 ELSE nvwal_add_epoch(e, k) + 1
    BY <1>5, IncrementSkipsInvalid
  <1>7. nvwal_add_epoch(e, k + 1) = nvwal_increment_epoch(nvwal_add_epoch(e, k))
    BY <1>1, <1>3, <1>4, <1>6 DEF Epoch
  <1> QED BY <1>2, <1>5, <1>7

\* Epochs less than half the range apart are ordered as they were given out, and never
\* both ways, across the wrap-around too; the epoch that is skipped costs one.
THEOREM NearbyEpochsAreOrdered ==
  ASSUME Half \in Nat \ {0, 1}, NEW e \in Epoch, NEW k \in 1..(Half - 2)
  PROVE  LET later == nvwal_add_epoch(e, k)
         IN  /\ nvwal_is_epoch_after(later, e)
             /\ ~nvwal_is_epoch_equal_or_after(e, later)
PROOF
  <1> DEFINE later == nvwal_add_epoch(e, k)
  <1>1. Modulus \in Nat /\ Modulus > 3 /\ Modulus = 2 * Half
    BY DEF Modulus
  <1> HIDE DEF Modulus
  <1>2. later = IF e + k < Modulus THEN e + k ELSE e + k - Modulus + 1
    BY <1>1, AddInPlainNumbers
  <1>3. later - e \in (-Modulus)..(Modulus - 1) /\ e - later \in (-Modulus)..(Modulus - 1)
    BY <1>1, <1>2 DEF Epoch
  <1> HIDE DEF later
  <1>4. (later - e) % Modulus = IF later - e < 0 THEN later - e + Modulus ELSE later - e
    BY <1>1, <1>3, NearRemainder
  <1>5. (e - later) % Modulus = IF e - later < 0 THEN e - later + Modulus ELSE e - later
    BY <1>1, <1>3, NearRemainder
  <1> QED
    BY <1>1, <1>2, <1>4, <1>5
    DEF nvwal_is_epoch_after, nvwal_is_epoch_equal_or_after, Epoch, later
=============================================================================
