----------------------------- MODULE ThreadState -----------------------------
(***************************************************************************)
(* The life of a thread the client lends to the WAL (nvwal_impl_init.c):   *)
(* the flusher or the fsyncer.  The host thread, which calls nvwal_init    *)
(* and nvwal_uninit, and the threads that call nvwal_flusher_main (or      *)
(* nvwal_fsync_main) agree on who runs through one word, thread_state.     *)
(* Each compare-and-swap, load or store of it is a step.                   *)
(***************************************************************************)

CONSTANT Workers    \* threads that call nvwal_flusher_main; one is expected

VARIABLES thread_state,
          wpc,      \* where each worker is
          hpc       \* where the host is

vars == <<thread_state, wpc, hpc>>

NvwalThreadState == {"BeingInitialized", "AcceptStart", "Running",
                     "RunningAndRequestedStop", "Stopped", "ProhibitStart"}

\* memset in nvwal_impl_init makes the word BeingInitialized.
Init ==
  /\ thread_state = "BeingInitialized"
  /\ wpc = [t \in Workers |-> "idle"]
  /\ hpc = "init"

WorkerGoto(t, label) == wpc' = [wpc EXCEPT ![t] = label]
HostGoto(from, to)   == hpc = from /\ hpc' = to

----------------------------------------------------------------------------
(* A worker.                                                               *)

\* Variant: a second thread joins a running one.
TryStartTwice(t) ==
  /\ wpc[t] = "idle"
  /\ IF thread_state \in {"AcceptStart", "Running"}
     THEN thread_state' = "Running" /\ WorkerGoto(t, "running")
     ELSE UNCHANGED thread_state /\ WorkerGoto(t, "refused")
  /\ UNCHANGED hpc

\* nvwal_impl_thread_state_try_start; a refused thread returns EIO.  The function
\* asserts that a refused thread has not found Running: a build with assertions ends
\* the process when a second thread comes while the first one runs (Startup has that
\* as a Crash), one without them refuses the second thread, as here.
TryStart(t) ==
  /\ wpc[t] = "idle"
  /\ IF thread_state = "AcceptStart"
     THEN thread_state' = "Running" /\ WorkerGoto(t, "running")
     ELSE UNCHANGED thread_state /\ WorkerGoto(t, "refused")
  /\ UNCHANGED hpc

\* The main loop ends at a stop request ...
SeeStopRequest(t) ==
  /\ wpc[t] = "running" /\ thread_state = "RunningAndRequestedStop"
  /\ WorkerGoto(t, "leaving")
  /\ UNCHANGED <<thread_state, hpc>>

\* ... or at an error.
Fail(t) ==
  /\ wpc[t] = "running"
  /\ WorkerGoto(t, "leaving")
  /\ UNCHANGED <<thread_state, hpc>>

\* Variant: a compare-and-swap from Running to Stopped.
StoppedByCas(t) ==
  /\ wpc[t] = "leaving"
  /\ thread_state' = IF thread_state = "Running" THEN "Stopped" ELSE thread_state
  /\ WorkerGoto(t, "ended")
  /\ UNCHANGED hpc

\* nvwal_impl_thread_state_stopped: a plain store.
Stopped(t) ==
  /\ wpc[t] = "leaving"
  /\ thread_state' = "Stopped"
  /\ WorkerGoto(t, "ended")
  /\ UNCHANGED hpc

----------------------------------------------------------------------------
(* The host.                                                               *)

\* nvwal_init succeeds (nvwal_impl_thread_state_get_ready) ...
GetReady ==
  /\ HostGoto("init", "up")
  /\ thread_state' = "AcceptStart"
  /\ UNCHANGED wpc

\* ... or fails, and calls nvwal_impl_uninit.
InitFails ==
  /\ HostGoto("init", "stop")
  /\ UNCHANGED <<thread_state, wpc>>

\* nvwal_wait_for_flusher_start.
WaitForStart ==
  /\ HostGoto("up", "waiting")
  /\ UNCHANGED <<thread_state, wpc>>

SeeStart ==
  /\ HostGoto("waiting", "up")
  /\ thread_state = "Running"
  /\ UNCHANGED <<thread_state, wpc>>

Uninit ==
  /\ HostGoto("up", "stop")
  /\ UNCHANGED <<thread_state, wpc>>

\* nvwal_impl_thread_state_request_and_wait_for_stop: nothing to stop ...
StopNothing ==
  /\ hpc = "stop"
  /\ hpc' = IF thread_state \in {"BeingInitialized", "ProhibitStart", "Stopped"}
            THEN "down" ELSE "prohibit"
  /\ UNCHANGED <<thread_state, wpc>>

\* ... or the thread has not started: it never will ...
StopProhibit ==
  /\ hpc = "prohibit"
  /\ IF thread_state = "AcceptStart"
     THEN thread_state' = "ProhibitStart" /\ hpc' = "down"
     ELSE UNCHANGED thread_state /\ hpc' = "request"
  /\ UNCHANGED wpc

\* Variant: the request is a plain store.
StopRequestByStore ==
  /\ HostGoto("request", "acknowledge")
  /\ thread_state' = "RunningAndRequestedStop"
  /\ UNCHANGED wpc

\* ... or it runs: ask it to stop, unless it has stopped by itself.
StopRequest ==
  /\ hpc = "request"
  /\ IF thread_state = "Running"
     THEN thread_state' = "RunningAndRequestedStop" /\ hpc' = "acknowledge"
     ELSE UNCHANGED thread_state /\ hpc' = "down"
  /\ UNCHANGED wpc

\* Variant: the thread's answer is not waited for.
StopDoesNotWait ==
  /\ HostGoto("acknowledge", "down")
  /\ UNCHANGED <<thread_state, wpc>>

StopWait ==
  /\ HostGoto("acknowledge", "down")
  /\ thread_state = "Stopped"
  /\ UNCHANGED <<thread_state, wpc>>

WorkerStep(t) == TryStart(t) \/ SeeStopRequest(t) \/ Fail(t) \/ Stopped(t)
StopStep == StopNothing \/ StopProhibit \/ StopRequest \/ StopWait
HostStep == GetReady \/ InitFails \/ WaitForStart \/ SeeStart \/ Uninit \/ StopStep

Next == HostStep \/ \E t \in Workers : WorkerStep(t)

Spec == Init /\ [][Next]_vars

\* A started worker keeps running, looks at the word in every round and may fail
\* but need not; the host keeps running inside the functions it has called.
FairSpec ==
  /\ Spec
  /\ \A t \in Workers : WF_vars(SeeStopRequest(t) \/ Stopped(t))
  /\ WF_vars(StopStep) /\ WF_vars(SeeStart)

----------------------------------------------------------------------------
Working == {t \in Workers : wpc[t] \in {"running", "leaving"}}

\* The word moves along the edges that the comments of NvwalThreadState allow and
\* no other: the terminal states see "No more change", although the worker ends
\* with a plain store while the host may be requesting the stop.  (The memset of a
\* later nvwal_init begins another life.)
StateFollowsDoc ==
  [][thread_state' # thread_state /\ thread_state' # "BeingInitialized" =>
       <<thread_state, thread_state'>> \in
         {<<"BeingInitialized", "AcceptStart">>, <<"AcceptStart", "Running">>,
          <<"AcceptStart", "ProhibitStart">>, <<"Running", "Stopped">>,
          <<"Running", "RunningAndRequestedStop">>,
          <<"RunningAndRequestedStop", "Stopped">>}]_vars

\* "The flusher will be the only flusher on this WAL instance" (nvwal_api.h:108),
\* however many threads try.
OnlyOneWorks == \A t, u \in Working : t = u

\* Once nvwal_uninit has stopped the thread, none works on the context, whose
\* memory nvwal_uninit goes on to unmap, and none starts again.
NobodyWorksWhenDown ==
  hpc = "down" => Working = {} /\ thread_state \notin {"AcceptStart", "Running"}

\* nvwal_uninit does not wait for ever, whether the thread has not started, runs,
\* is failing, or has been stopped before.
StopReturns == hpc = "stop" ~> hpc = "down"

=============================================================================
