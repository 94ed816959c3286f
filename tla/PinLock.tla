------------------------------ MODULE PinLock ------------------------------
(***************************************************************************)
(* The pin of one NV-resident segment (nv_reader_pins_): a 32-bit counter  *)
(* by which cursors that read the segment and the flusher that wants to    *)
(* recycle it keep out of each other's way (nvwal_impl_pin.c).             *)
(*                                                                         *)
(* Every load and every compare-and-swap of the counter is a step of its   *)
(* own, so a reader's compare-and-swap may meet a counter that has moved   *)
(* since the reader loaded it.  A thread in "refused" has been told 0 by   *)
(* a try function: the unconditional functions yield and try again, other  *)
(* callers may give up.                                                    *)
(***************************************************************************)
EXTENDS Integers, FiniteSets

CONSTANTS Readers,    \* threads that read the segment through a cursor
          Flushers    \* threads that recycle the segment (one in the WAL)

ASSUME PinAssumption ==
  /\ IsFiniteSet(Readers)
  /\ Readers \cap Flushers = {}

kNvwalPinExclusive == -1

VARIABLES pin_count,  \* *pin_count
          pc,         \* where each thread is
          cur_value   \* local variable of nvwal_pin_read_try_lock

vars == <<pin_count, pc, cur_value>>

ReaderPC  == {"idle", "try", "cas", "refused", "reading"}
FlusherPC == {"idle", "try", "refused", "recycling"}

Init ==
  /\ pin_count = 0
  /\ pc = [t \in Readers \cup Flushers |-> "idle"]
  /\ cur_value = [r \in Readers |-> 0]

Goto(t, label) == pc' = [pc EXCEPT ![t] = label]

\* A thread calls one of the lock functions, or yields and calls it again.
Begin(t) ==
  /\ pc[t] \in {"idle", "refused"}
  /\ Goto(t, "try")
  /\ UNCHANGED <<pin_count, cur_value>>

\* A caller of a try function takes 0 for an answer.
GiveUp(t) ==
  /\ pc[t] = "refused"
  /\ Goto(t, "idle")
  /\ UNCHANGED <<pin_count, cur_value>>

\* The plain load of the counter and the early return on a negative value.
ReadLoad(r) ==
  /\ pc[r] = "try"
  /\ IF pin_count < 0
     THEN Goto(r, "refused") /\ UNCHANGED cur_value
     ELSE Goto(r, "cas") /\ cur_value' = [cur_value EXCEPT ![r] = pin_count]
  /\ UNCHANGED pin_count

\* Variant: a compare-and-swap that always succeeds: a lost update.
ReadCasBlind(r) ==
  /\ pc[r] = "cas"
  /\ pin_count' = cur_value[r] + 1
  /\ Goto(r, "reading")
  /\ UNCHANGED cur_value

\* The compare-and-swap from the loaded value to that value plus one.
ReadCas(r) ==
  /\ pc[r] = "cas"
  /\ IF pin_count = cur_value[r]
     THEN pin_count' = cur_value[r] + 1 /\ Goto(r, "reading")
     ELSE UNCHANGED pin_count /\ Goto(r, "refused")
  /\ UNCHANGED cur_value

\* Variant: a release that forgets to give the pin back.
ReadUnlockLost(r) ==
  /\ pc[r] = "reading"
  /\ Goto(r, "idle")
  /\ UNCHANGED <<pin_count, cur_value>>

ReadUnlock(r) ==
  /\ pc[r] = "reading"
  /\ pin_count' = pin_count - 1
  /\ Goto(r, "idle")
  /\ UNCHANGED cur_value

\* Variant: a flusher that waits for other flushers only.
FlusherCasAnyCount(f) ==
  /\ pc[f] = "try"
  /\ IF pin_count >= 0
     THEN pin_count' = kNvwalPinExclusive /\ Goto(f, "recycling")
     ELSE UNCHANGED pin_count /\ Goto(f, "refused")
  /\ UNCHANGED cur_value

\* The compare-and-swap from 0 to kNvwalPinExclusive.
FlusherCas(f) ==
  /\ pc[f] = "try"
  /\ IF pin_count = 0
     THEN pin_count' = kNvwalPinExclusive /\ Goto(f, "recycling")
     ELSE UNCHANGED pin_count /\ Goto(f, "refused")
  /\ UNCHANGED cur_value

FlusherUnlock(f) ==
  /\ pc[f] = "recycling"
  /\ pin_count' = 0
  /\ Goto(f, "idle")
  /\ UNCHANGED cur_value

ReaderStep(r)  == ReadLoad(r) \/ ReadCas(r) \/ ReadUnlock(r)
FlusherStep(f) == FlusherCas(f) \/ FlusherUnlock(f)

Next ==
  \/ \E t \in Readers \cup Flushers : Begin(t) \/ GiveUp(t)
  \/ \E r \in Readers : ReaderStep(r)
  \/ \E f \in Flushers : FlusherStep(f)

Spec == Init /\ [][Next]_vars

\* Threads inside a lock function keep running and holders release in the end;
\* nothing is assumed of whether a thread calls a lock function, and a flusher
\* that was refused calls again (nvwal_pin_flusher_unconditional_lock).
FairSpec ==
  /\ Spec
  /\ \A r \in Readers : WF_vars(ReaderStep(r))
  /\ \A f \in Flushers :
       /\ WF_vars(FlusherStep(f))
       /\ WF_vars(pc[f] = "refused" /\ Begin(f))

----------------------------------------------------------------------------
Reading   == {r \in Readers : pc[r] = "reading"}
Recycling == {f \in Flushers : pc[f] = "recycling"}

TypeOK ==
  /\ pin_count \in Int
  /\ pc \in [Readers \cup Flushers -> ReaderPC \cup FlusherPC]
  /\ \A r \in Readers : pc[r] \in ReaderPC
  /\ \A f \in Flushers : pc[f] \in FlusherPC
  /\ cur_value \in [Readers -> Nat]

\* The counter says who holds the pin: it is -1 while a flusher recycles and
\* the number of reading cursors otherwise, however loads and compare-and-swaps
\* interleave.  The asserts of the two unlock functions rest on it.
PinCountIsExact ==
  pin_count = IF Recycling # {} THEN kNvwalPinExclusive ELSE Cardinality(Reading)

\* While the flusher recycles a segment no cursor reads it, and no other thread
\* recycles it: what nvwal_pin_flusher_unconditional_lock is called for.
MutualExclusion ==
  /\ Recycling # {} => Reading = {}
  /\ \A f, g \in Recycling : f = g

\* If from some point on no reader asks for the pin, a flusher that asked for it
\* gets it, unless it gives up: no pin is lost and no holder is forgotten.
NoNewReader == [][\A r \in Readers : ~ (pc[r] # "try" /\ pc'[r] = "try")]_vars
FlusherGetsIn ==
  <>NoNewReader => \A f \in Flushers : pc[f] = "try" ~> pc[f] \in {"recycling", "idle"}

=============================================================================
