-------------------------- MODULE ThreadStateProofs --------------------------
(***************************************************************************)
(* For any number of threads that call nvwal_flusher_main: at most one     *)
(* works, none works once the host has returned from the stop, and the     *)
(* word moves along the documented edges only.                             *)
(***************************************************************************)
EXTENDS ThreadState, TLAPS

TypeOK ==
  /\ thread_state \in NvwalThreadState
  /\ wpc \in [Workers -> {"idle", "refused", "running", "leaving", "ended"}]
  /\ hpc \in {"init", "up", "waiting", "stop", "prohibit", "request", "acknowledge", "down"}

\* Somebody works exactly while the word says so, and what the host has learnt of
\* the word on its way through the stop remains true.
Inv ==
  /\ TypeOK
  /\ OnlyOneWorks
  /\ \A t \in Working : thread_state \in {"Running", "RunningAndRequestedStop"}
  /\ hpc = "init" => thread_state = "BeingInitialized"
  /\ thread_state = "RunningAndRequestedStop" => hpc = "acknowledge"
  /\ hpc = "prohibit" => thread_state \in {"AcceptStart", "Running", "Stopped"}
  /\ hpc = "request" => thread_state \in {"Running", "Stopped"}
  /\ hpc = "acknowledge" => thread_state \in {"RunningAndRequestedStop", "Stopped"}
  /\ hpc = "down" => thread_state \in {"BeingInitialized", "ProhibitStart", "Stopped"}

Edges == {<<"BeingInitialized", "AcceptStart">>, <<"AcceptStart", "Running">>,
          <<"AcceptStart", "ProhibitStart">>, <<"Running", "Stopped">>,
          <<"Running", "RunningAndRequestedStop">>,
          <<"RunningAndRequestedStop", "Stopped">>}

LEMMA InvInit == Init => Inv
PROOF BY DEF Init, Inv, TypeOK, NvwalThreadState, OnlyOneWorks, Working

\* One step keeps Inv and follows an edge.
LEMMA InvNext ==
  Inv /\ [Next]_vars =>
    Inv' /\ (thread_state' # thread_state => <<thread_state, thread_state'>> \in Edges)
PROOF
  <1> SUFFICES ASSUME Inv, [Next]_vars
               PROVE  /\ Inv'
                      /\ thread_state' # thread_state => <<thread_state, thread_state'>> \in Edges
    OBVIOUS
  <1> USE DEF Inv, TypeOK, NvwalThreadState, OnlyOneWorks, Working, Edges
  <1>1. ASSUME NEW t \in Workers, TryStart(t)
        PROVE  Inv' /\ (thread_state' # thread_state => <<thread_state, thread_state'>> \in Edges)
    BY <1>1 DEF TryStart, WorkerGoto
  <1>2. ASSUME NEW t \in Workers, SeeStopRequest(t) \/ Fail(t)
        PROVE  Inv' /\ (thread_state' # thread_state => <<thread_state, thread_state'>> \in Edges)
    BY <1>2 DEF SeeStopRequest, Fail, WorkerGoto
  <1>3. ASSUME NEW t \in Workers, Stopped(t)
        PROVE  Inv' /\ (thread_state' # thread_state => <<thread_state, thread_state'>> \in Edges)
    BY <1>3 DEF Stopped, WorkerGoto
  <1>4. CASE GetReady
    BY <1>4 DEF GetReady, HostGoto
  <1>5. CASE InitFails \/ WaitForStart \/ SeeStart \/ Uninit \/ StopWait
    BY <1>5 DEF InitFails, WaitForStart, SeeStart, Uninit, StopWait, HostGoto
  <1>6. CASE StopNothing
    BY <1>6 DEF StopNothing
  <1>7. CASE StopProhibit
    BY <1>7 DEF StopProhibit
  <1>8. CASE StopRequest
    BY <1>8 DEF StopRequest
  <1>9. CASE UNCHANGED vars
    BY <1>9 DEF vars
  <1> QED
    BY <1>1, <1>2, <1>3, <1>4, <1>5, <1>6, <1>7, <1>8, <1>9
       DEF Next, HostStep, StopStep, WorkerStep

\* Two threads that call nvwal_flusher_main are never both inside its loop.
THEOREM OneWorker == Spec => []OnlyOneWorks
PROOF
  <1>1. Inv => OnlyOneWorks
    BY DEF Inv
  <1> QED BY <1>1, InvInit, InvNext, PTL DEF Spec

\* When request_and_wait_for_stop has returned, no thread works on the context and
\* none can start.
THEOREM DownMeansQuiet == Spec => []NobodyWorksWhenDown
PROOF
  <1>1. Inv => NobodyWorksWhenDown
    BY DEF Inv, NobodyWorksWhenDown, Working
  <1> QED BY <1>1, InvInit, InvNext, PTL DEF Spec

\* The comments of NvwalThreadState name every state change the code makes.
THEOREM DocumentedStates == Spec => StateFollowsDoc
PROOF
  <1>1. Inv /\ [Next]_vars =>
          [thread_state' # thread_state => <<thread_state, thread_state'>> \in Edges]_vars
    BY InvNext
  <1> QED BY <1>1, InvInit, InvNext, PTL DEF Spec, StateFollowsDoc, Edges

=============================================================================
