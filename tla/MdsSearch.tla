------------------------------ MODULE MdsSearch ------------------------------
(***************************************************************************)
(* The binary searches over the epochs' user metadata (nvwal_mds.c):       *)
(* mds_find_metadata_lower_bound and mds_find_metadata_upper_bound, with   *)
(* nvwal_query_epoch_lower_bound and nvwal_query_epoch_upper_bound         *)
(* (nvwal_api.c) around them.                                              *)
(*                                                                         *)
(* The user's predicate on an epoch's metadata is the set of epochs for    *)
(* which it holds; entries of durable epochs never change (module Mds), so *)
(* the set is the same for every probe of one search.                      *)
(***************************************************************************)
EXTENDS Integers

CONSTANT MaxEpoch    \* bound: the latest epoch

ASSUME MdsSearchAssumption == MaxEpoch \in Nat

kNvwalInvalidEpoch == 0

VARIABLES
  kind,        \* which of the two searches
  holds,       \* epochs for which the predicate holds
  le,          \* mds_latest_epoch when the search began
  low, high, out, found,
  result       \* what the query returns; -1 until then

vars == <<kind, holds, le, low, high, out, found, result>>

Init ==
  /\ kind \in {"lower", "upper"}
  /\ le \in 0..MaxEpoch
  /\ holds \in SUBSET (1..le)
  /\ low = kNvwalInvalidEpoch + 1 /\ high = le
  /\ out = kNvwalInvalidEpoch /\ found = FALSE
  /\ result = -1

md == (low + high) \div 2

\* Variant: the search goes on above an epoch that was found.
ProbeLowerWrongHalf ==
  /\ kind = "lower" /\ low <= high
  /\ IF md \in holds
     THEN low' = md + 1 /\ out' = md /\ found' = TRUE /\ UNCHANGED high
     ELSE low' = md + 1 /\ UNCHANGED <<high, out, found>>
  /\ UNCHANGED <<kind, holds, le, result>>

ProbeLower ==
  /\ kind = "lower" /\ low <= high
  /\ IF md \in holds
     THEN high' = md - 1 /\ out' = md /\ found' = TRUE /\ UNCHANGED low
     ELSE low' = md + 1 /\ UNCHANGED <<high, out, found>>
  /\ UNCHANGED <<kind, holds, le, result>>

ProbeUpper ==
  /\ kind = "upper" /\ low <= high
  /\ IF md \in holds
     THEN low' = md + 1 /\ out' = md /\ found' = TRUE /\ UNCHANGED high
     ELSE high' = md - 1 /\ UNCHANGED <<low, out, found>>
  /\ UNCHANGED <<kind, holds, le, result>>

\* The loop ends; the query returns the epoch found or kNvwalInvalidEpoch.
Return ==
  /\ low > high /\ result = -1
  /\ result' = IF found THEN out ELSE kNvwalInvalidEpoch
  /\ UNCHANGED <<kind, holds, le, low, high, out, found>>

Next == ProbeLower \/ ProbeUpper \/ Return
Spec == Init /\ [][Next]_vars

----------------------------------------------------------------------------
TypeOK ==
  /\ kind \in {"lower", "upper"} /\ le \in Nat /\ holds \subseteq 1..le
  /\ low \in 1..(le + 1) /\ high \in 0..le
  /\ out \in 0..le /\ found \in BOOLEAN /\ result \in -1..le

\* What the searches presuppose: the predicate, once it holds (lower bound) or
\* once it fails (upper bound), does so for all later epochs.
Monotone ==
  \A e, f \in 1..le : e < f =>
    /\ kind = "lower" /\ e \in holds => f \in holds
    /\ kind = "upper" /\ f \in holds => e \in holds

\* For such a predicate nvwal_query_epoch_lower_bound returns the lowest epoch
\* for which it holds and nvwal_query_epoch_upper_bound the greatest, or
\* kNvwalInvalidEpoch if and only if there is none.
QueryIsRight ==
  Monotone /\ result # -1 =>
    IF holds = {} THEN result = kNvwalInvalidEpoch
    ELSE /\ result \in holds
         /\ kind = "lower" => \A e \in holds : result <= e
         /\ kind = "upper" => \A e \in holds : result >= e

=============================================================================
