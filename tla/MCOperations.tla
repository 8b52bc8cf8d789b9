---------------------------- MODULE MCOperations ----------------------------
(***************************************************************************)
(* Small instances of operations.  Spec runs those that work through a     *)
(* list or share a store with others: a batch of DNS queries, a replay, a  *)
(* staged output and the neighbor cache; ProbeSpec those that send paced   *)
(* probes: the runner of a probe list, the traceroute of several hosts and *)
(* the stages of a scan; CallSpec the calls that must return: a TCP        *)
(* connect, a host lookup, a neighbor discovery, a DNS query over TCP and  *)
(* an exchange.  Each behaviour runs one of them, the subject.  The        *)
(* connect, the lookup, the staged output, the cache and the discovery     *)
(* have their own variables; those of the others are in the slots x1, x2,  *)
(* ... in the order of their declaration.                                  *)
(***************************************************************************)
EXTENDS TcpConnect, HostLookup, StagedOutput, NeighborResolver, NeighborExchange, TLC

VARIABLES subject, x1, x2, x3, x4, x5, x6, x7, x8, x9, x10, x11, x12, x13, x14, x15,
  x16, x17, x18, x19, x20, x21, x22

Slots == <<x1, x2, x3, x4, x5, x6, x7, x8, x9, x10, x11, x12, x13, x14, x15, x16, x17,
           x18, x19, x20, x21, x22>>
vars == <<Slots, stagedVars, neighborVars, connVars, lookupVars, exchangeVars, subject>>

(* The slots a component does not use stay as they are. *)
After9 == <<x10, x11, x12, x13, x14, x15, x16, x17, x18, x19, x20, x21, x22>>
After11 == <<x12, x13, x14, x15, x16, x17, x18, x19, x20, x21, x22>>
After14 == <<x15, x16, x17, x18, x19, x20, x21, x22>>
After17 == <<x18, x19, x20, x21, x22>>
After18 == <<x19, x20, x21, x22>>

Unused9 == x10 = 0 /\ x11 = 0 /\ x12 = 0 /\ x13 = 0 /\ x14 = 0 /\ x15 = 0 /\ x16 = 0 /\ x17 = 0 /\
  x18 = 0 /\ x19 = 0 /\ x20 = 0 /\ x21 = 0 /\ x22 = 0
Unused11 == x12 = 0 /\ x13 = 0 /\ x14 = 0 /\ x15 = 0 /\ x16 = 0 /\ x17 = 0 /\ x18 = 0 /\ x19 = 0 /\
  x20 = 0 /\ x21 = 0 /\ x22 = 0
Unused14 == x15 = 0 /\ x16 = 0 /\ x17 = 0 /\ x18 = 0 /\ x19 = 0 /\ x20 = 0 /\ x21 = 0 /\ x22 = 0
Unused17 == x18 = 0 /\ x19 = 0 /\ x20 = 0 /\ x21 = 0 /\ x22 = 0
Unused18 == x19 = 0 /\ x20 = 0 /\ x21 = 0 /\ x22 = 0
AllUnused == x1 = 0 /\ x2 = 0 /\ x3 = 0 /\ x4 = 0 /\ x5 = 0 /\ x6 = 0 /\ x7 = 0 /\ x8 = 0 /\ x9 = 0 /\
  x10 = 0 /\ x11 = 0 /\ x12 = 0 /\ x13 = 0 /\ x14 = 0 /\ x15 = 0 /\ x16 = 0 /\ x17 = 0 /\ x18 = 0 /\
  x19 = 0 /\ x20 = 0 /\ x21 = 0 /\ x22 = 0

-----------------------------------------------------------------------------
(* Two questions: one of two attempts, then one of one. *)
TwoQuestions ==
  {<<[transport |-> t[1], attempts |-> 2, delay |-> d[1]],
     [transport |-> t[2], attempts |-> 1, delay |-> d[2]]>> :
     t \in {<<"udp", "udp_then_tcp">>, <<"udp_then_tcp", "udp">>, <<"tcp", "udp">>},
     d \in {<<0, 2>>, <<1, 0>>}}

Dns == INSTANCE DnsBatch WITH
  Batches <- TwoQuestions, timeout <- 2, limit <- 6, questions <- x1, clock <- x2,
  canceled <- x3, pc <- x4, q <- x5, attempt <- x6, opened <- x7, completion <- x8,
  seen <- x9, previous <- x10, stop <- x11, reports <- x12, last <- x13, stats <- x14,
  wire <- x15, ended <- x16, rushed <- x17

-----------------------------------------------------------------------------
(* Files of two or three frames from two interfaces. *)
File(a, b, c) == <<[size |-> 1, stamp |-> a, from |-> 0, keep |-> TRUE],
                   [size |-> 2, stamp |-> b, from |-> 1, keep |-> TRUE],
                   [size |-> 1, stamp |-> c, from |-> 0, keep |-> TRUE]>>

TwoFiles == {File(1, 0, 2), [File(0, 2, 2) EXCEPT ![2].keep = FALSE],
             SubSeq(File(0, -1, 0), 1, 2), SubSeq(File(0, 3, 0), 1, 2)}

Schedule(timing, max_gap, repeat) ==
  [timing |-> timing, max_gap |-> max_gap, repeat |-> repeat, inter_pass_delay |-> 2]

FewSchedules ==
  {Schedule("original", -1, 2), Schedule("original", 1, 1), Schedule("scaled", -1, 1),
   Schedule("fixed", -1, 2), Schedule("bits", -1, 2), Schedule("immediate", -1, 1)}

FewRoutings ==
  {[rules |-> {}, fallback |-> "a"],
   [rules |-> {[from |-> 0, to |-> "a"], [from |-> 1, to |-> "b"]}, fallback |-> "none"],
   [rules |-> {[from |-> 0, to |-> "a"], [from |-> 0, to |-> "b"]}, fallback |-> "none"]}

Replay == INSTANCE Replay WITH
  Captures <- TwoFiles, Schedules <- FewSchedules, Routings <- FewRoutings,
  Interfaces <- {"a", "b"}, period <- 1, rate <- 1, max_source_frames <- 5,
  max_transmitted_bytes <- 7, max_frame_bytes <- 2, max_duration <- 7, LastTick <- 8,
  capture <- x1, options <- x2, routing <- x3, clock <- x4, canceled <- x5,
  present <- x6, validated <- x7, pc <- x8, pass <- x9, index <- x10, frame <- x11,
  tally <- x12, anchor <- x13, plan <- x14, output <- x15, wire <- x16,
  emitted <- x17, result <- x18

-----------------------------------------------------------------------------
(* Two batches of two probes. *)
Runner == INSTANCE ProbeRunner WITH
  Batches <- 2, BatchSize <- 2, limit <- 3, timeout <- 2, delay <- 1, max_frames <- 4,
  max_undecoded <- 1, LastTick <- 4, clock <- x1, canceled <- x2, workflow <- x3,
  deadline <- x4, pc <- x5, batch <- x6, probe <- x7, execution <- x8, wire <- x9,
  sent_at <- x10, stats <- x11, evidence <- x12, outcomes <- x13, result <- x14

-----------------------------------------------------------------------------
(* Two hosts, up to three hops away. *)
Trace == INSTANCE TraceHosts WITH
  HostCount <- 2, Paths <- {"a"}, first_hop <- 1, max_hops <- 3, probes_per_hop <- 1,
  max_age <- 1, Responders <- {1, 2}, LastTick <- 3, clock <- x1, path <- x2,
  pc <- x3, next_slot <- x4, current <- x5, in_flight <- x6, outcome <- x7,
  caches <- x8, hosts <- x9

-----------------------------------------------------------------------------
(* Two targets, the second of which may be one whose link address needs no resolution. *)
Kinds ==
  [mode : {"Omitted", "Before", "Only"}, neighbor : BOOLEAN, probes : 0..1, endpoints : 0..1,
   attempts : 1..2, pause : {1, 3}, unresponsive : {"Skip", "Scan"}, adaptive : BOOLEAN,
   exempt : {{}, {2}}]

(* Options::validate and planned_endpoints; adaptive scans with one rate, several attempts   *)
(* only where the neighbors are asked, and an exempt target only where they are not.         *)
ValidRequests ==
  {r \in Kinds :
     /\ r.adaptive => r.pause = 3 /\ r.exempt = {}
     /\ r.attempts = 2 <=> r.neighbor
     /\ r.exempt = {2} => r.pause = 1
     /\ r.mode = "Omitted" => r.probes = 0 /\ ~r.neighbor /\ r.unresponsive = "Skip"
     /\ r.mode \in {"Before", "Only"} => r.probes > 0 \/ r.neighbor
     /\ r.mode = "Only" => r.unresponsive = "Skip" /\ r.endpoints = 0
     /\ r.mode # "Only" => r.endpoints > 0}

Stages == INSTANCE ScanStages WITH
  Hosts <- {1, 2}, Requests <- ValidRequests, Timeout <- 2, RouteChanges <- 1,
  request <- x1, clock <- x2, pc <- x3, index <- x4, asked <- x5, route <- x6,
  routed <- x7, changes <- x8, cache <- x9, requested <- x10, owed <- x11,
  sendable <- x12, unreachable <- x13, expired <- x14, incomplete <- x15,
  neighbor <- x16, responded <- x17, hosts <- x18, stats <- x19, probed <- x20,
  left <- x21, rushed <- x22

-----------------------------------------------------------------------------
(* A query of three octets and a limit of two for the answer. *)
Query == INSTANCE DnsTcp WITH
  QueryLength <- 3, Declared <- {0, 1, 2, 3}, max_message_bytes <- 2, timeout <- 3,
  POLL_INTERVAL <- 1, now <- x1, cancelled <- x2, phase <- x3, wait <- x4,
  taken <- x5, declared <- x6, read <- x7, ended <- x8, consumed <- x9, after <- x10,
  result <- x11

-----------------------------------------------------------------------------
(* Two requests.  The frames: undecodable, corrupt, without an ingress time, placed by the   *)
(* workflow only, ambiguous, and one that fits the second request better than the first.     *)
Reply(fits, claims) ==
  [stamped |-> TRUE, decodes |-> TRUE, intact |-> TRUE, length |-> 1, fits |-> fits,
   claims |-> claims]
Captured ==
  { [Reply(<<0, 0>>, {}) EXCEPT !.decodes = FALSE], [Reply(<<2, 0>>, {}) EXCEPT !.intact = FALSE],
    [Reply(<<2, 0>>, {1}) EXCEPT !.stamped = FALSE], Reply(<<0, 0>>, {1}), Reply(<<1, 1>>, {1, 2}),
    Reply(<<1, 2>>, {2}) }

Executor == INSTANCE ExchangeExecutor WITH
  RequestCount <- 2, max_frames <- 1, max_bytes <- 2, max_responses <- 1,
  max_unmatched_frames <- 1, Kinds <- Captured, WindowEnd <- 1, Arrivals <- 2,
  clock <- x1, mode <- x2, at <- x3, queue <- x4, arrived <- x5, sent <- x6,
  drained <- x7, captured <- x8, emitted <- x9, stopped <- x10, failure <- x11,
  guard <- x12, result <- x13, judged <- x14

-----------------------------------------------------------------------------
(* One process publishes two files, another one of the same names. *)
TwoAndOne == "p1" :> 2 @@ "p2" :> 1

(* Renaming without replacing is tried only for a named file that must not clobber. *)
SettingMatters == setting.noreplace => setting.publication = "NoClobber" /\ ~setting.tmpfile

(* An output that is not the subject stays as it was created, and is created one way. *)
StagedIdle == "old" \notin {dest[d] : d \in Dests} /\
  setting = [publication |-> "Replace", tmpfile |-> FALSE, noreplace |-> FALSE]

Init ==
  /\ StagedInit /\ NeighborInit /\ ConnectInit /\ LookupInit /\ ExchangeInit
  /\ \/ subject = "staged" /\ SettingMatters /\ AllUnused
     \/ subject = "cache" /\ StagedIdle /\ AllUnused
     \/ subject = "dns" /\ StagedIdle /\ Dns!DnsInit /\ Unused17
     \/ subject = "replay" /\ StagedIdle /\ Replay!ReplayInit /\ Unused18

CallInit ==
  /\ StagedInit /\ NeighborInit /\ ConnectInit /\ LookupInit /\ ExchangeInit
  /\ \/ subject = "connect" /\ StagedIdle /\ AllUnused
     \/ subject = "lookup" /\ StagedIdle /\ AllUnused
     \/ subject = "neighbor" /\ StagedIdle /\ AllUnused
     \/ subject = "query" /\ StagedIdle /\ Query!DnsTcpInit /\ Unused11
     \/ subject = "exchange" /\ StagedIdle /\ Executor!TransactionInit /\ Unused14

ProbeInit ==
  /\ StagedInit /\ NeighborInit /\ ConnectInit /\ LookupInit /\ ExchangeInit
  /\ \/ subject = "runner" /\ StagedIdle /\ Runner!RunnerInit /\ Unused14
     \/ subject = "trace" /\ StagedIdle /\ Trace!TraceInit /\ Unused9
     \/ subject = "stages" /\ StagedIdle /\ Stages!StageInit

(* Only the subject moves. *)
OnlyStaged == UNCHANGED <<subject, neighborVars, connVars, lookupVars, exchangeVars, Slots>>
OnlyCache == UNCHANGED <<subject, stagedVars, connVars, lookupVars, exchangeVars, Slots>>
OnlyConnect == UNCHANGED <<subject, stagedVars, neighborVars, lookupVars, exchangeVars, Slots>>
OnlyLookup == UNCHANGED <<subject, stagedVars, neighborVars, connVars, exchangeVars, Slots>>
OnlyDiscovery == UNCHANGED <<subject, stagedVars, neighborVars, connVars, lookupVars, Slots>>
OnlyDns == UNCHANGED <<subject, stagedVars, neighborVars, connVars, lookupVars, exchangeVars, After17>>
OnlyReplay == UNCHANGED <<subject, stagedVars, neighborVars, connVars, lookupVars, exchangeVars, After18>>
OnlyRunner == UNCHANGED <<subject, stagedVars, neighborVars, connVars, lookupVars, exchangeVars, After14>>
OnlyTrace == UNCHANGED <<subject, stagedVars, neighborVars, connVars, lookupVars, exchangeVars, After9>>
OnlyStages == UNCHANGED <<subject, stagedVars, neighborVars, connVars, lookupVars, exchangeVars>>
OnlyQuery == UNCHANGED <<subject, stagedVars, neighborVars, connVars, lookupVars, exchangeVars, After11>>
OnlyExecutor == UNCHANGED <<subject, stagedVars, neighborVars, connVars, lookupVars, exchangeVars, After14>>

StagedStep == subject = "staged" /\ StagedNext /\ OnlyStaged
CacheStep == subject = "cache" /\ NeighborNext /\ OnlyCache
ConnectStep == subject = "connect" /\ ConnectNext /\ OnlyConnect
LookupStep == subject = "lookup" /\ LookupNext /\ OnlyLookup
DiscoveryStep == subject = "neighbor" /\ ExchangeNext /\ OnlyDiscovery
DnsStep == subject = "dns" /\ Dns!DnsNext /\ OnlyDns
ReplayStep == subject = "replay" /\ Replay!ReplayNext /\ OnlyReplay
RunnerStep == subject = "runner" /\ Runner!RunnerNext /\ OnlyRunner
TraceStep == subject = "trace" /\ Trace!TraceNext /\ OnlyTrace
StageStep == subject = "stages" /\ Stages!StageNext /\ OnlyStages
QueryStep == subject = "query" /\ Query!DnsTcpNext /\ OnlyQuery
ExchangeStep == subject = "exchange" /\ Executor!TransactionNext /\ OnlyExecutor

Next == StagedStep \/ CacheStep \/ DnsStep \/ ReplayStep
CallNext == ConnectStep \/ LookupStep \/ DiscoveryStep \/ QueryStep \/ ExchangeStep
ProbeNext == RunnerStep \/ TraceStep \/ StageStep

Spec == Init /\ [][Next]_vars

ConnectWorks(a) == subject = "connect" /\ WorkerStep(a) /\ OnlyConnect
LookupCalls(l) == subject = "lookup" /\ LookupCallerStep(l) /\ OnlyLookup
LookupWorks(l) == subject = "lookup" /\ LookupWorkerStep(l) /\ OnlyLookup
LookupExpires(l) == subject = "lookup" /\ ExpireLookup(l) /\ OnlyLookup
DiscoveryTicks == subject = "neighbor" /\ DiscoveryTick /\ OnlyDiscovery
DiscoveryWorks == subject = "neighbor" /\ DiscoveryWork /\ OnlyDiscovery
QueryWorks == subject = "query" /\ Query!Query /\ OnlyQuery
QueryTicks == subject = "query" /\ Query!Tick /\ OnlyQuery
ExchangeWorks == subject = "exchange" /\ Executor!Execute /\ OnlyExecutor
ExchangePasses == subject = "exchange" /\ Executor!Pass /\ OnlyExecutor

(* Only the subject takes steps, so the i-th conjunct is the i-th fairness condition of each component. *)
CallFairness ==
  /\ WF_vars(ConnectWorks("a1") \/ LookupCalls("l1") \/ DiscoveryTicks \/ QueryWorks \/ ExchangeWorks)
  /\ WF_vars(ConnectWorks("a2") \/ LookupCalls("l2") \/ DiscoveryWorks \/ QueryTicks \/ ExchangePasses)
  /\ WF_vars(LookupCalls("l3"))
  /\ WF_vars(LookupWorks("l1"))
  /\ WF_vars(LookupWorks("l2"))
  /\ WF_vars(LookupWorks("l3"))
  /\ WF_vars(LookupExpires("l1"))
  /\ WF_vars(LookupExpires("l2"))
  /\ WF_vars(LookupExpires("l3"))

CallSpec == CallInit /\ [][CallNext]_vars /\ CallFairness

ProbeSpec == ProbeInit /\ [][ProbeNext]_vars

-----------------------------------------------------------------------------
ASSUME Limits ==
  /\ StagedAssumption /\ NeighborAssumption /\ ConnectAssumption /\ LookupAssumption
  /\ NeighborExchangeAssumption /\ Query!QueryAssumption

\* What works through a list does what it was asked: no DNS query leaves without its
\* authorization, an outcome is the best of what was observed, and one question's failure never
\* changes another's report (DnsBatch); what a replay puts on the wire is a prefix of what the
\* capture, the filter and the routing select, reported exactly, and no frame leaves before its
\* scheduled time (Replay).
ListsFollowed ==
  /\ subject = "dns" => Dns!DnsTrafficAuthorized /\ Dns!BatchIsolated /\ Dns!OutcomeFromEvidence
  /\ subject = "replay" => Replay!ReplayFaithful /\ Replay!ScheduleKept

\* ProbeRunner: every probe of a completed batch has its answer or its silence in the report,
\* the first answer to a probe stays its answer, and the traffic reported is the traffic sent
\* and received.
ReportExact ==
  subject = "runner" => Runner!ReportExact /\ Runner!WinnersKept /\ Runner!TrafficAccounted

\* ProbeRunner: the time a batch spends is charged to the operation, the provider's own
\* account of it included.
TimeCharged == [][subject = "runner" => Runner!ChargesTime]_vars

\* TraceHosts: every hop of a route was probed, copied from a host with the same route or is
\* reported as not attempted, and a copied hop is backed by a fresh answer.
HopsAccounted == subject = "trace" => Trace!HopsAccounted /\ Trace!CopiesBacked

\* ScanStages: no packet leaves before its target was approved with the route it takes, the
\* pause after traffic is kept across stages, and every target gets exactly one record.
StagesSound ==
  subject = "stages" => Stages!TrafficApproved /\ Stages!RateKept /\ Stages!HostsRecorded

\* What a call reports: the octets of a query said to have been written are those the socket
\* took, also when it failed while they were flushed (DnsTcp); silence is reported only where
\* nothing answered, pending replies keep their slots, and neither of two errors is lost
\* (ExchangeExecutor).
EvidenceHonest ==
  /\ subject = "query" => Query!QueryCharged
  /\ subject = "exchange" =>
       Executor!SilenceIsReal /\ Executor!ReplySlotsHeld /\ Executor!BothErrorsKept

\* Every call returns: a dropped connect gives back what it holds, a lookup's caller, a
\* discovery, a DNS query and an exchange end whatever the peer does.
SubjectEnded ==
  CASE subject = "connect" -> \A a \in Attempts : Abandoned(a) => Settled(a)
    [] subject = "lookup" -> \A l \in Lookups : Over(l)
    [] subject = "neighbor" -> DiscoveryOver
    [] subject = "query" -> Query!Ended
    [] subject = "exchange" -> Executor!Ended
\* Again and again the subject has no call outstanding that its caller or deadline has given up.
CallsEnd == []<>SubjectEnded
=============================================================================
