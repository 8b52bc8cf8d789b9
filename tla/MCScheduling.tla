---------------------------- MODULE MCScheduling ----------------------------
(***************************************************************************)
(* Small instances of the components that admit, order and account for     *)
(* work: the admission ledger, the capture group, the adaptive feed, the   *)
(* connect scan and the scan pipeline.  Each behaviour runs one of them,   *)
(* the subject.  The ledger and the group have their own variables; those  *)
(* of the others are in the slots x1, x2, ... in the order of their        *)
(* declaration.                                                            *)
(* PipelineSpec runs a second instance of the scan pipeline on its own.    *)
(***************************************************************************)
EXTENDS WorkerAdmission, CaptureGroup, Sequences, TLC

VARIABLES subject, x1, x2, x3, x4, x5, x6, x7, x8, x9, x10, x11, x12, x13

Slots == <<x1, x2, x3, x4, x5, x6, x7, x8, x9, x10, x11, x12, x13>>
vars == <<Slots, admissionVars, groupVars, subject>>

(* The slots a component does not use stay as they are. *)
After7 == <<x8, x9, x10, x11, x12, x13>>
After10 == <<x11, x12, x13>>

Unused7 == x8 = 0 /\ x9 = 0 /\ x10 = 0 /\ x11 = 0 /\ x12 = 0 /\ x13 = 0
Unused10 == x11 = 0 /\ x12 = 0 /\ x13 = 0
AllUnused == x1 = 0 /\ x2 = 0 /\ x3 = 0 /\ x4 = 0 /\ x5 = 0 /\ x6 = 0 /\ x7 = 0 /\ x8 = 0 /\ x9 = 0 /\
  x10 = 0 /\ x11 = 0 /\ x12 = 0 /\ x13 = 0

-----------------------------------------------------------------------------
(* Two hosts with two endpoints each, two attempts per probe, time boxes that *)
(* end one tick before the operation.                                         *)
Feed == INSTANCE AdaptiveFeed WITH
  min_window <- 1, initial_window <- 2, max_in_flight <- 2, host_timeout <- 3,
  retry_backoff <- 1, max_backoff <- 2, max_attempts <- 2, Endpoints <- {0, 1},
  Responders <- {},
  INFERENCE_MIN_COMPLETED <- 1, INFERENCE_MIN_CONTROL <- 1, INFERENCE_MIN_LOSSES <- 1,
  Hosts <- {0, 1}, Timeouts <- {1}, operation_end <- 4, st <- x1, active <- x2,
  outstanding <- x3, stage <- x4, phase <- x5, now <- x6, answered <- x7

(* One host with a timeout its time box may cut short and two control responders, *)
(* each of which has to reply twice.                                              *)
Lone == INSTANCE AdaptiveFeed WITH
  min_window <- 1, initial_window <- 2, max_in_flight <- 2, host_timeout <- 3,
  retry_backoff <- 1, max_backoff <- 2, max_attempts <- 2, Endpoints <- {0, 1},
  Responders <- {"target", "router"},
  INFERENCE_MIN_COMPLETED <- 1, INFERENCE_MIN_CONTROL <- 2, INFERENCE_MIN_LOSSES <- 1,
  Hosts <- {0}, Timeouts <- {1, 2}, operation_end <- 4, st <- x1, active <- x2,
  outstanding <- x3, stage <- x4, phase <- x5, now <- x6, answered <- x7

-----------------------------------------------------------------------------
(* One host with three endpoints, a pool that takes two connects. *)
Scan == INSTANCE ConnectScan WITH
  min_window <- 1, initial_window <- 4, max_in_flight <- 4, host_timeout <- 2,
  retry_backoff <- 1, max_backoff <- 2, max_attempts <- 2, Endpoints <- {0, 1, 2}, Responders <- {},
  INFERENCE_MIN_COMPLETED <- 1, INFERENCE_MIN_CONTROL <- 1, INFERENCE_MIN_LOSSES <- 1,
  Hosts <- {0}, Timeouts <- {2}, operation_end <- 3, delay <- 0, capacity <- 2,
  st <- x1, active <- x2, index <- x3, settled <- x4, settled_at <- x5, wave <- x6,
  next_start <- x7, lingering <- x8, pc <- x9, now <- x10, scheduled <- x11,
  recorded <- x12, ended <- x13

-----------------------------------------------------------------------------
(* A probe of an IPv6 extension header follows a TCP probe of the same address, and a *)
(* TCP probe of another address follows both.                                         *)
ChainInterface == [i \in 0 .. 2 |-> 0]
ChainIdentity == (0 :> <<1, "tcp">>) @@ (1 :> <<1, "routing">>) @@ (2 :> <<2, "tcp">>)
ChainHosts == (0 :> 4) @@ (1 :> 4) @@ (2 :> 3)
ChainMemory == [i \in 0 .. 2 |-> 1]

Pipeline == INSTANCE ScanPipeline WITH
  Interface <- ChainInterface, ReplyIdentity <- ChainIdentity, Opaque <- {1},
  Ipv6 <- {1}, Extensions <- {"routing"},
  HostDeadline <- ChainHosts, Memory <- ChainMemory, FirstInterfaces <- {0},
  timeout <- 2, deadline <- 3, spacing <- 1, max_in_flight <- 2,
  max_prepared_bytes <- 4, max_probe_bytes <- 1, base_bytes <- 0,
  max_evidence_frames <- 2, max_frames <- 1, MaxReplies <- 2, now <- x1, pc <- x2,
  draining_captures <- x3, sending <- x4, a <- x5, g <- x6, history <- x7,
  next_send <- x8, stream <- x9, log <- x10

(* A probe of the TCP protocol, without a port, follows a TCP probe of the same address. *)
AlikeInterface == [i \in 0 .. 1 |-> 0]
AlikeIdentity == [i \in 0 .. 1 |-> <<1, "tcp">>]
AlikeHosts == [i \in 0 .. 1 |-> 4]
AlikeMemory == [i \in 0 .. 1 |-> 1]

Alike == INSTANCE ScanPipeline WITH
  Interface <- AlikeInterface, ReplyIdentity <- AlikeIdentity, Opaque <- {1},
  Ipv6 <- {}, Extensions <- {"routing"},
  HostDeadline <- AlikeHosts, Memory <- AlikeMemory, FirstInterfaces <- {0},
  timeout <- 2, deadline <- 4, spacing <- 1, max_in_flight <- 2,
  max_prepared_bytes <- 4, max_probe_bytes <- 1, base_bytes <- 0,
  max_evidence_frames <- 2, max_frames <- 2, MaxReplies <- 1, now <- x1, pc <- x2,
  draining_captures <- x3, sending <- x4, a <- x5, g <- x6, history <- x7,
  next_send <- x8, stream <- x9, log <- x10

-----------------------------------------------------------------------------
(* A group that is not the subject stays as it was created, and is created one way. *)
GroupIdle == limits.max_frames = 3 /\ count = 1

Init ==
  /\ AdmissionInit /\ GroupInit
  /\ \/ subject = "admission" /\ GroupIdle /\ AllUnused
     \/ subject = "group" /\ AllUnused
     \/ subject = "feed" /\ GroupIdle /\ Feed!FeedInit /\ Unused7
     \/ subject = "lone feed" /\ GroupIdle /\ Lone!FeedInit /\ Unused7
     \/ subject = "connects" /\ GroupIdle /\ Scan!ScanInit
     \/ subject = "pipeline" /\ GroupIdle /\ Pipeline!Init /\ Unused10
     \/ subject = "alike" /\ GroupIdle /\ Alike!Init /\ Unused10

(* Only the subject moves. *)
OnlyAdmission == UNCHANGED <<subject, groupVars, Slots>>
OnlyGroup == UNCHANGED <<subject, admissionVars, Slots>>
OnlyFeed == UNCHANGED <<subject, admissionVars, groupVars, After7>>
OnlyScan == UNCHANGED <<subject, admissionVars, groupVars>>
OnlyPipeline == UNCHANGED <<subject, admissionVars, groupVars, After10>>

AdmissionStep == subject = "admission" /\ AdmissionNext /\ OnlyAdmission
GroupStep == subject = "group" /\ GroupNext /\ OnlyGroup
FeedStep == subject = "feed" /\ Feed!FeedNext /\ OnlyFeed
LoneStep == subject = "lone feed" /\ Lone!FeedNext /\ OnlyFeed
ScanStep == subject = "connects" /\ Scan!ScanNext /\ OnlyScan
PipelineStep == subject = "pipeline" /\ Pipeline!Next /\ OnlyPipeline
AlikeStep == subject = "alike" /\ Alike!Next /\ OnlyPipeline

Next ==
  \/ AdmissionStep \/ GroupStep \/ FeedStep \/ LoneStep \/ ScanStep
  \/ PipelineStep \/ AlikeStep

Spec == Init /\ [][Next]_vars

-----------------------------------------------------------------------------
(* Attempt 0 on interface 0, 1 on interface 1, 2 again on interface 0, with distinct replies,  *)
(* sharing less prepared memory than they need.                                               *)
MixedInterface == (0 :> 0) @@ (1 :> 1) @@ (2 :> 0)
MixedIdentity == [i \in 0 .. 2 |-> <<i, "tcp">>]
MixedHosts == (0 :> 4) @@ (1 :> 2) @@ (2 :> 3)
MixedMemory == [i \in 0 .. 2 |-> 1]

Mixed == INSTANCE ScanPipeline WITH
  Interface <- MixedInterface, ReplyIdentity <- MixedIdentity, Opaque <- {},
  Ipv6 <- {}, Extensions <- {},
  HostDeadline <- MixedHosts, Memory <- MixedMemory, FirstInterfaces <- {0},
  timeout <- 1, deadline <- 3, spacing <- 0, max_in_flight <- 2,
  max_prepared_bytes <- 3, max_probe_bytes <- 1, base_bytes <- 1,
  max_evidence_frames <- 1, max_frames <- 1, MaxReplies <- 1, now <- x1, pc <- x2,
  draining_captures <- x3, sending <- x4, a <- x5, g <- x6, history <- x7,
  next_send <- x8, stream <- x9, log <- x10

PipelineInit == AdmissionInit /\ GroupInit /\ GroupIdle /\ subject = "pipeline" /\ Mixed!Init /\ Unused10
MixedNext == Mixed!Next /\ OnlyPipeline
MixedLoop == Mixed!Loop /\ OnlyPipeline

\* The loop never blocks: every read waits for at most a few milliseconds.
PipelineSpec == PipelineInit /\ [][MixedNext]_vars /\ WF_vars(MixedLoop)

-----------------------------------------------------------------------------
ASSUME Limits ==
  SourcesAssumption /\ Feed!AdaptiveAssumption /\ Feed!FeedAssumption /\ Lone!AdaptiveAssumption /\
  Lone!FeedAssumption /\ Scan!AdaptiveAssumption /\ Scan!ScanAssumption

\* AdaptiveFeed: every probe is done, scheduled or in flight, the counters agree with the
\* work, and a host is complete only if its endpoints were really observed or given up.
NoLostWork ==
  /\ subject = "feed" => Feed!NoLostWork /\ Feed!CountersExact /\ Feed!CompleteMeansObserved
  /\ subject = "lone feed" => Lone!NoLostWork /\ Lone!CountersExact /\ Lone!CompleteMeansObserved

\* No probe leaves while its window is full (AdaptiveFeed), and one congested cohort halves
\* the window once (ConnectScan).
WindowKept ==
  [][/\ subject = "feed" => Feed!RespectsWindow
     /\ subject = "lone feed" => Lone!RespectsWindow
     /\ subject = "connects" => Scan!HalvesOnce]_vars

\* What was sent is answered for: every connect that reached the network is in the report
\* (ConnectScan); the budgets are those of the attempts alive, a reply is credited to the probe
\* it answers and matches no other that is pending, and a failure keeps the evidence gathered
\* before it (ScanPipeline).
AttemptsRecorded ==
  /\ subject = "connects" => Scan!EveryConnectRecorded
  /\ subject = "pipeline" =>
       Pipeline!CreditedToItsProbe /\ Pipeline!BudgetsExact /\ Pipeline!FailureKeepsEvidence
  /\ subject = "alike" =>
       Alike!CreditedToItsProbe /\ Alike!BudgetsExact /\ Alike!FailureKeepsEvidence

\* ScanPipeline: every attempt gets one outcome, within one capture group, and an unpaced loop
\* with nothing in flight never waits for frames while attempts are queued.
OutcomesSound == Mixed!OutcomesSound /\ Mixed!NothingStalls

\* ScanPipeline: an attempt times out only when no reply queued before its deadline is unread.
TimelyReplyWins == Mixed!TimelyReplyWins

\* ScanPipeline: due attempts are all completed however many frames keep arriving.
DueAttemptsSettle == Mixed!DueAttemptsSettle
=============================================================================
