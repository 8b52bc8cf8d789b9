----------------------------- MODULE MCWorkers ------------------------------
(***************************************************************************)
(* Small instances of everything that owns a thread: the native capture,   *)
(* the threads of the worker pool, the same threads under admission, and   *)
(* the callback threads of event sinks.  Each behaviour runs one of them,  *)
(* the subject.  The capture, the threads and the sinks have their own     *)
(* variables; those of the pool are in the slots x1, x2, ... in the order  *)
(* of their declaration.                                                   *)
(***************************************************************************)
EXTENDS LiveCapture, WorkerThreads, PublicationRuntime

VARIABLES subject, x1, x2, x3, x4, x5, x6, x7, x8, x9, x10, x11, x12, x13, x14, x15,
  x16, x17, x18, x19, x20, x21, x22

Slots == <<x1, x2, x3, x4, x5, x6, x7, x8, x9, x10, x11, x12, x13, x14, x15, x16, x17,
           x18, x19, x20, x21, x22>>
vars == <<Slots, captureVars, threadVars, runtimeVars, subject>>


AllUnused == x1 = 0 /\ x2 = 0 /\ x3 = 0 /\ x4 = 0 /\ x5 = 0 /\ x6 = 0 /\ x7 = 0 /\ x8 = 0 /\ x9 = 0 /\
  x10 = 0 /\ x11 = 0 /\ x12 = 0 /\ x13 = 0 /\ x14 = 0 /\ x15 = 0 /\ x16 = 0 /\ x17 = 0 /\ x18 = 0 /\
  x19 = 0 /\ x20 = 0 /\ x21 = 0 /\ x22 = 0

-----------------------------------------------------------------------------
(* Two jobs with their grants, permits and tasks. *)
Pool == INSTANCE WorkerPool WITH
  Jobs <- {"j1", "j2"}, Contexts <- {}, NoContext <- "unknown", capacity <- 2,
  USizeMax <- 0, MaxLeases <- 1, MaxWorkers <- 2, active <- x1, rejected <- x2,
  retained <- x3, class <- x4, phase <- x5, permits <- x6, reserved <- x7,
  leases <- x8, idle <- x9, busy <- x10, retiring <- x11, next_worker <- x12,
  reaper <- x13, thread <- x14, reap <- x15, context <- x16, job <- x17,
  caller <- x18, at <- x19, slot <- x20, tasks <- x21, outcome <- x22

-----------------------------------------------------------------------------
AtWrap == native = NativeSpan - 1

(* The native drop counter starts where it wraps.  A capture that is not the subject stays as
   it was created, and is created one way. *)
CaptureIdle == overflow_policy = "Fail" /\ AtWrap

Init ==
  /\ CaptureInit /\ ThreadsInit /\ RuntimeInit
  /\ \/ subject = "capture" /\ AtWrap /\ AllUnused
     \/ subject = "threads" /\ CaptureIdle /\ AllUnused
     \/ subject = "runtime" /\ CaptureIdle /\ AllUnused
     \/ subject = "pool" /\ CaptureIdle /\ Pool!PoolInit

(* Only the subject moves. *)
OnlyCapture == UNCHANGED <<subject, threadVars, runtimeVars, Slots>>
OnlyThreads == UNCHANGED <<subject, captureVars, runtimeVars, Slots>>
OnlyRuntime == UNCHANGED <<subject, captureVars, threadVars, Slots>>
OnlyPool == UNCHANGED <<subject, captureVars, threadVars, runtimeVars>>

CaptureStep == subject = "capture" /\ CaptureNext /\ OnlyCapture
ThreadsStep == subject = "threads" /\ ThreadsNext /\ OnlyThreads
RuntimeStep == subject = "runtime" /\ RuntimeNext /\ OnlyRuntime
PoolStep == subject = "pool" /\ Pool!PoolNext /\ OnlyPool

Next == CaptureStep \/ ThreadsStep \/ RuntimeStep \/ PoolStep

ReaderRuns == subject = "capture" /\ Worker /\ OnlyCapture
SessionArms == subject = "capture" /\ Arm /\ OnlyCapture
SessionEnds == subject = "capture" /\ Finish /\ OnlyCapture
ReaderReaped == subject = "capture" /\ Reaper /\ OnlyCapture
LateSessionDropped == subject = "capture" /\ owner = "late" /\ DropAttempts /\ OnlyCapture
Dispatches(j) == subject = "threads" /\ DispatchAttempt(j) /\ OnlyThreads
ThreadServes(w) == subject = "threads" /\ (ThreadStep(w) \/ ReaperStep(w)) /\ OnlyThreads
SinkCalls(s) == subject = "runtime" /\ (NewIn(s) \/ Wait(s)) /\ OnlyRuntime
SinkLoops(s) == subject = "runtime" /\ Loop(s) /\ OnlyRuntime
SinkReaped(s) == subject = "runtime" /\ ReapSink(s) /\ OnlyRuntime
PoolCalls(j) == subject = "pool" /\ Pool!Calling(j) /\ OnlyPool
PoolHolds(j) == subject = "pool" /\ Pool!Holding(j) /\ OnlyPool
PoolServes(w) == subject = "pool" /\ Pool!Serving(w) /\ OnlyPool

(* Only the subject takes steps, so the i-th conjunct is the i-th fairness condition of each component. *)
Fairness ==
  /\ WF_vars(ReaderRuns \/ Dispatches("j1") \/ SinkCalls("s1") \/ PoolCalls("j1"))
  /\ WF_vars(SessionArms \/ Dispatches("j2") \/ SinkCalls("s2") \/ PoolCalls("j2"))
  /\ WF_vars(SessionEnds \/ Dispatches("j3") \/ SinkLoops("s1") \/ PoolHolds("j1"))
  /\ WF_vars(ReaderReaped \/ ThreadServes(1) \/ SinkLoops("s2") \/ PoolHolds("j2"))
  /\ WF_vars(LateSessionDropped \/ ThreadServes(2) \/ SinkReaped("s1") \/ PoolServes(1))
  /\ WF_vars(ThreadServes(3) \/ SinkReaped("s2") \/ PoolServes(2))

Spec == Init /\ [][Next]_vars /\ Fairness

-----------------------------------------------------------------------------
ASSUME Limits == Pool!T!ThreadsAssumption

\* WorkerPool: whoever sees an outcome finds the charges of the work settled; work never runs
\* uncharged, charges never outlive what they are for, and work nobody waits for is counted as
\* retained.
ChargesSettled ==
  subject = "pool" =>
    Pool!OutcomeAfterSettlement /\ Pool!ChargesMatchWork /\ Pool!AbandonedWorkIsCounted

\* Nobody waits forever: dispatch returns and accepted jobs end, admitted work gives its
\* charges back, starting, emitting to and dropping a sink end even if callbacks hang, and a
\* capture that is armed, stopped or dropped returns and gives its lease back.
SubjectEnded ==
  CASE subject = "capture" -> CaptureEnded
    [] subject = "threads" -> Ended
    [] subject = "pool" -> Pool!Ended
    [] subject = "runtime" -> RuntimeEnded
\* Again and again the subject has nobody waiting.
WorkersEnd == []<>SubjectEnded
=============================================================================
