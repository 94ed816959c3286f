------------------------------ MODULE DurableLog ------------------------------
(***************************************************************************)
(* What the WAL promises its client across crashes (nvwal_api.h, and the   *)
(* comments of NvwalControlBlock): a log of epochs that grows by one whole *)
(* epoch at a time, never changes, and loses at a restart nothing but the  *)
(* epochs the client itself gives up.                                      *)
(***************************************************************************)
EXTENDS Naturals, Sequences

CONSTANTS Logs,     \* logs that writers may submit
          GivenUp   \* in place of an epoch after the one the client resumed at

VARIABLES log,        \* the logs of epoch 1, of epoch 2, ...
          de,         \* the durable epoch
          open,       \* the logs of epoch de + 1 so far
          announced,  \* the durable epoch the client knows of
          up

vars == <<log, de, open, announced, up>>

Init == log = <<>> /\ de = 0 /\ open = <<>> /\ announced = 0 /\ up = TRUE

Write(x) ==
  /\ up /\ open' = Append(open, x)
  /\ UNCHANGED <<log, de, announced, up>>

\* Epoch de + 1 becomes durable, with all its logs at once.
Commit ==
  /\ up
  /\ log' = Append(SubSeq(log, 1, de), open)
  /\ de' = de + 1 /\ open' = <<>>
  /\ UNCHANGED <<announced, up>>

Announce ==
  /\ up /\ announced' = de
  /\ UNCHANGED <<log, de, open, up>>

\* What was not committed is lost, and nothing else.
Crash ==
  /\ up /\ up' = FALSE /\ open' = <<>> /\ de' = Len(log)
  /\ UNCHANGED <<log, announced>>

\* The client resumes at epoch d.
Recover(d) ==
  /\ ~up /\ up' = TRUE /\ de' = d /\ announced' = d
  /\ log' = [e \in 1..Len(log) |-> IF e > d THEN GivenUp ELSE log[e]]
  /\ UNCHANGED open

Next ==
  \/ \E x \in Logs : Write(x)
  \/ Commit \/ Announce \/ Crash
  \/ \E d \in 0..Len(log) : Recover(d)

Spec == Init /\ [][Next]_vars

=============================================================================
