------------------------------ MODULE ScanStages ------------------------------
(***************************************************************************)
(* The stages of a raw scan (scan/engine.rs): the approved plan, explicit  *)
(* neighbor discovery, the resolution of each target's next hop, discovery *)
(* probes, the host records that decide who is scanned, and the scan; the  *)
(* rate pause its transmissions owe each other (engine/pacing.rs); and the *)
(* executor's neighbor requests (scan/executor.rs).                        *)
(*                                                                         *)
(* A target is on-link ("self"), routed through a gateway ("gateway") or   *)
(* has no link address to resolve ("none"), and the routing table may      *)
(* change between two looks at it.  What a stage of probes does inside is  *)
(* the subject of ProbeRunner and ScanPipeline: here it takes time, sends  *)
(* its probes and is answered by some of its targets.                      *)
(***************************************************************************)
EXTENDS Integers, FiniteSetsExt, SequencesExt

CONSTANTS
  Hosts,          \* the selected targets, in order: 1..N
  Requests,       \* the requests to run
  Timeout,        \* the wait for a reply
  RouteChanges    \* how often the routing table changes

VARIABLES
  request,     \* the request
  clock,
  pc,          \* the step of engine::run
  index,       \* the target at hand
  asked,       \* explicit discovery's requests to it, and the last answer
  route,       \* the routing table
  routed,      \* what requests_neighbor found, for the call that follows
  changes,     \* the changes of route so far
  cache,       \* the neighbors the operation knows
  requested,   \* the targets a request was sent for
  owed,        \* the transmissions whose pause is owed, and since when
  sendable, unreachable, expired, incomplete,   \* sets of targets
  neighbor,    \* the neighbor outcome recorded for each target
  responded,   \* the targets that answered a discovery probe
  hosts,       \* the host records
  stats,       \* requests and probes sent, and the time accounted
  probed,      \* the targets probed in each stage
  left,        \* when the last transmission left
  rushed       \* whether one left too soon after the one before

stageVars == <<request, clock, pc, index, asked, route, routed, changes, cache, requested,
               owed, sendable, unreachable, expired, incomplete, neighbor, responded, hosts,
               stats, probed, left, rushed>>

(* The targets, like multicast ones, whose link address follows from       *)
(* theirs are request.exempt.                                              *)
Runs == request.mode \in {"Before", "Only"}

NoOne == [requests |-> 0, answer |-> "none"]

StageInit ==
  /\ request \in Requests
  /\ clock = 0
  /\ pc = "approved"
  /\ index = 1
  /\ asked = NoOne
  /\ route \in {r \in [Hosts -> {"self", "gateway", "none"}] : \A h \in request.exempt : r[h] = "none"}
  /\ routed = "unknown"
  /\ changes = 0
  /\ cache \in {{}, {1}}
  /\ requested = {}
  /\ owed = [transmissions |-> 0, since |-> -1]
  /\ sendable = Hosts
  /\ unreachable = {} /\ expired = {} /\ incomplete = {}
  /\ neighbor = [h \in Hosts |-> "none"]
  /\ responded = {}
  /\ hosts = <<>>
  /\ stats = [requests |-> 0, probes |-> 0, elapsed |-> 0]
  /\ probed = [discovery |-> {}, scan |-> {}]
  /\ left = -request.pause
  /\ rushed = FALSE

-----------------------------------------------------------------------------
(* The plan that was approved before anything is sent (approval.rs).       *)

Resolvable == Hosts \ request.exempt

ProbeCount(targets, endpoints) == Cardinality(targets) * endpoints * request.attempts

DiscoveryProbes == IF Runs THEN ProbeCount(Hosts, request.probes) ELSE 0

ScanProbes == ProbeCount(Hosts, request.endpoints)

ExplicitRequests ==
  IF Runs /\ request.neighbor THEN ProbeCount(Resolvable, 1) ELSE 0

ImplicitRequests ==
  IF DiscoveryProbes + ScanProbes > 0 /\ Resolvable # {} /\ ExplicitRequests = 0
  THEN Cardinality(Resolvable) ELSE 0

NeighborRequests == ExplicitRequests + ImplicitRequests

StageDuration(count) ==
  IF count = 0 THEN 0 ELSE count * Timeout + (count - 1) * request.pause

WorstCase ==
  LET paced == IF DiscoveryProbes + ScanProbes = 0 THEN Max({0, NeighborRequests - 1})
               ELSE NeighborRequests
  IN StageDuration(DiscoveryProbes)
       + (NeighborRequests - paced) * Timeout + paced * Max({Timeout, request.pause})
       + (IF DiscoveryProbes > 0 /\ ScanProbes > 0 THEN request.pause ELSE 0)
       + StageDuration(ScanProbes)

-----------------------------------------------------------------------------
(* Pacing.                                                                 *)

Delay ==
  LET spent == IF owed.since = -1 THEN 0 ELSE clock - owed.since
  IN IF owed.transmissions = 0 THEN 0
     ELSE Max({0, owed.transmissions * request.pause - spent})

(* Prober::settle.                                                         *)
Settle ==
  /\ clock' = clock + Delay
  /\ owed' = [transmissions |-> 0, since |-> -1]
  /\ stats' = [stats EXCEPT !.elapsed = @ + Delay]

Unpaced == UNCHANGED <<clock, owed, stats>>

Sends(time) == rushed' = (rushed \/ time - left < request.pause)

(* A request that began now and took wait.                                 *)
Transmits(wait) ==
  /\ clock' = clock + wait
  /\ owed' = [transmissions |-> owed.transmissions + 1, since |-> clock]
  /\ stats' = [stats EXCEPT !.requests = @ + 1, !.elapsed = @ + wait]
  /\ Sends(clock)
  /\ left' = clock

(* A request whose resolver fails just as the host's time runs out: the    *)
(* host is given up and nothing of the request is reported.                *)
Unreported ==
  /\ request.adaptive
  /\ clock' = clock + Timeout
  /\ UNCHANGED <<owed, stats, left, rushed>>

-----------------------------------------------------------------------------
(* Neighbor requests (scan/executor.rs).  A gateway is known as 0.         *)

Key(h) == IF routed = "self" THEN h ELSE 0

(* Routing table changes are seen when a target is routed.                 *)
Look(h) ==
  \E r \in {"self", "gateway", "none"} :
    /\ r # route[h] => changes < RouteChanges /\ h \notin request.exempt
    /\ routed' = r
    /\ route' = [route EXCEPT ![h] = r]
    /\ changes' = IF r = route[h] THEN changes ELSE changes + 1

(* Whether the look leads to a request.                                    *)
WouldAsk(h, explicit) ==
  \/ routed' = "self" /\ h \notin cache
  \/ routed' = "gateway" /\ ~explicit /\ 0 \notin cache

NotSent == UNCHANGED <<clock, owed, stats, left, rushed>>

Step(where, h) == pc' = where /\ index' = h

(* The next target of a step, or the step after it.                        *)
Onward(where, next) ==
  IF index < Cardinality(Hosts) THEN Step(where, index + 1) ELSE Step(next, 1)

Expires(h) == h \in expired

Abandon == incomplete' = incomplete \cup {index}

unsent == <<request, expired, responded, hosts, probed>>

-----------------------------------------------------------------------------
(* engine::run up to its first stage.                                      *)

Start ==
  /\ pc = "approved"
  /\ pc' = IF ~Runs THEN "compose"
           ELSE IF request.neighbor THEN "neighbor"
           ELSE IF request.probes > 0 THEN "reach" ELSE "discovery"
  /\ UNCHANGED <<request, clock, index, asked, route, routed, changes, cache, requested, owed,
                 sendable, unreachable, expired, incomplete, neighbor, responded, hosts, stats,
                 probed, left, rushed>>

AfterNeighbors == IF request.probes > 0 THEN "reach" ELSE "discovery"

(* The outcome of discover_neighbors for the target at hand.               *)
Conclude(answer) ==
  /\ neighbor' = [neighbor EXCEPT ![index] = answer]
  /\ sendable' = IF answer \in {"silent", "none"} THEN sendable \ {index} ELSE sendable
  /\ asked' = NoOne
  /\ Onward("neighbor", AfterNeighbors)

(* discover_neighbors before a request: the pause an earlier one owes.     *)
NeighborLook ==
  /\ pc = "neighbor"
  /\ IF Expires(index)
     THEN /\ Abandon
          /\ Conclude(asked.answer)
          /\ UNCHANGED <<route, routed, changes>> /\ Unpaced
     ELSE /\ Look(index)
          /\ IF WouldAsk(index, TRUE) THEN Settle ELSE Unpaced
          /\ Step("resolve", index)
          /\ UNCHANGED <<incomplete, neighbor, sendable, asked>>
  /\ UNCHANGED <<unsent, cache, requested, unreachable, left, rushed>>

Spent(requests) == requests >= request.attempts

Known == [self |-> "resolved", gateway |-> "routed", none |-> "inapplicable"]

(* The request: answered, silent or failed.                                *)
NeighborResolve ==
  /\ pc = "resolve"
  /\ routed' = "unknown"
  /\ \/ /\ Expires(index)
        /\ Abandon /\ Conclude(asked.answer)
        /\ NotSent /\ UNCHANGED <<cache, requested>>
     \/ /\ ~Expires(index)
        /\ routed # "self" \/ index \in cache
        /\ Conclude(Known[routed])
        /\ NotSent /\ UNCHANGED <<cache, requested, incomplete>>
     \/ /\ ~Expires(index) /\ routed = "self" /\ index \notin cache
        /\ requested' = requested \cup {index}
        /\ \/ /\ \E wait \in {0, Timeout} : Transmits(wait)
              /\ cache' = cache \cup {index}
              /\ Conclude("resolved")
              /\ UNCHANGED incomplete
           \/ /\ Transmits(Timeout)
              /\ UNCHANGED <<cache, incomplete>>
              /\ IF Spent(asked.requests + 1) THEN Conclude("silent")
                 ELSE /\ asked' = [requests |-> asked.requests + 1, answer |-> "silent"]
                      /\ Step("neighbor", index)
                      /\ UNCHANGED <<neighbor, sendable>>
           \/ /\ Transmits(Timeout)
              /\ request.adaptive
              /\ UNCHANGED cache
              /\ Abandon /\ Conclude(asked.answer)
     \/ /\ ~Expires(index) /\ routed = "self" /\ index \notin cache
        /\ Unreported
        /\ Abandon /\ Conclude(asked.answer)
        /\ UNCHANGED <<cache, requested>>
  /\ UNCHANGED <<unsent, route, changes, unreachable>>

-----------------------------------------------------------------------------
(* reach_next_hop, before the discovery probes and before the scan.        *)

Reaching == pc \in {"reach", "reach_scan"}

Wanted == IF pc = "reach" THEN index \in sendable ELSE hosts[index].scan = "scanned"

After == IF pc = "reach" THEN "discovery" ELSE "scan"

Skip ==
  /\ Reaching /\ ~Wanted
  /\ Onward(pc, After)
  /\ UNCHANGED <<request, clock, asked, route, routed, changes, cache, requested, owed, sendable,
                 unreachable, expired, incomplete, neighbor, responded, hosts, stats, probed,
                 left, rushed>>

HostExpired ==
  /\ Abandon
  /\ sendable' = IF pc \in {"reach", "hop"} THEN sendable \ {index} ELSE sendable

ReachLook ==
  /\ Reaching /\ Wanted
  /\ IF Expires(index)
     THEN /\ HostExpired
          /\ Onward(pc, After)
          /\ UNCHANGED <<route, routed, changes>> /\ Unpaced
     ELSE /\ Look(index)
          /\ IF WouldAsk(index, FALSE) THEN Settle ELSE Unpaced
          /\ Step(IF pc = "reach" THEN "hop" ELSE "hop_scan", index)
          /\ UNCHANGED <<incomplete, sendable>>
  /\ UNCHANGED <<unsent, asked, cache, requested, unreachable, neighbor, left, rushed>>

HopDone == Onward(IF pc = "hop" THEN "reach" ELSE "reach_scan",
                  IF pc = "hop" THEN "discovery" ELSE "scan")

Fails == pc' = "failed" /\ UNCHANGED index

(* A plausible slip: a target is asked again in the next stage.            *)
AskedNever(h) == FALSE

AskedBefore(h) == h \in requested

ReachNextHop ==
  /\ pc \in {"hop", "hop_scan"}
  /\ routed' = "unknown"
  /\ \/ /\ Expires(index)
        /\ HostExpired /\ HopDone
        /\ NotSent /\ UNCHANGED <<cache, requested, unreachable>>
     \/ /\ ~Expires(index)
        /\ routed = "none" \/ Key(index) \in cache
        /\ HopDone
        /\ NotSent /\ UNCHANGED <<cache, requested, unreachable, sendable, incomplete>>
     \/ /\ ~Expires(index)
        /\ routed # "none" /\ Key(index) \notin cache /\ AskedBefore(index)
        /\ \/ Fails /\ UNCHANGED <<sendable, incomplete>>
           \/ request.adaptive /\ HostExpired /\ HopDone
        /\ NotSent /\ UNCHANGED <<cache, requested, unreachable>>
     \/ /\ ~Expires(index)
        /\ routed # "none" /\ Key(index) \notin cache /\ ~AskedBefore(index)
        /\ requested' = requested \cup {index}
        /\ \/ /\ \E wait \in {0, Timeout} : Transmits(wait)
              /\ cache' = cache \cup {Key(index)}
              /\ HopDone
              /\ UNCHANGED <<unreachable, sendable, incomplete>>
           \/ /\ Transmits(Timeout)
              /\ IF pc = "hop"
                 THEN /\ sendable' = sendable \ {index}
                      /\ unreachable' = unreachable \cup {index}
                      /\ HopDone
                 ELSE Fails /\ UNCHANGED <<sendable, unreachable>>
              /\ UNCHANGED <<cache, incomplete>>
           \/ /\ Transmits(Timeout)
              /\ request.adaptive
              /\ HostExpired /\ HopDone
              /\ UNCHANGED <<cache, unreachable>>
     \/ /\ ~Expires(index)
        /\ routed # "none" /\ Key(index) \notin cache /\ ~AskedBefore(index)
        /\ Unreported
        /\ HostExpired /\ HopDone
        /\ UNCHANGED <<cache, requested, unreachable>>
  /\ UNCHANGED <<unsent, asked, route, changes, neighbor>>

-----------------------------------------------------------------------------
(* The stages of probes, and the records between them.                     *)

(* count probes, each waiting up to the timeout, a pause between two: the  *)
(* last one leaves some time before the stage ends.                        *)
RunProbes(count, settled) ==
  \E wait \in {0, Timeout}, last \in {0, Timeout} :
    LET elapsed == (count - 1) * (request.pause + wait) + last
    IN /\ clock' = clock + settled + elapsed
       /\ stats' = [stats EXCEPT !.probes = @ + count, !.elapsed = @ + settled + elapsed]
       /\ Sends(clock + settled)
       /\ left' = clock + settled + elapsed - last

(* A plausible slip: the pause owed is dropped, not waited out.            *)
StageDelayNone == 0

StageDelay == Delay

Discover ==
  /\ pc = "discovery"
  /\ pc' = "compose"
  /\ LET count == ProbeCount(sendable, request.probes)
     IN IF count = 0
        THEN /\ UNCHANGED <<responded, probed>> /\ NotSent
        ELSE /\ RunProbes(count, StageDelay)
             /\ owed' = [transmissions |-> 1, since |-> -1]
             /\ probed' = [probed EXCEPT !.discovery = sendable]
             /\ \E some \in SUBSET sendable : responded' = some
  /\ UNCHANGED <<request, index, asked, route, routed, changes, cache, requested, sendable,
                 unreachable, expired, incomplete, neighbor, hosts>>

(* A plausible slip: only the policy decides whether a host is skipped.    *)
SkippedByPolicy(h, state) == state = "NoResponse" /\ request.unresponsive = "Skip"

SkippedHost(h, state) ==
  /\ state = "NoResponse"
  /\ request.unresponsive = "Skip" \/ h \in unreachable \/ neighbor[h] = "silent"

(* Composer::finish.                                                       *)
Compose ==
  /\ pc = "compose"
  /\ hosts' =
       [h \in Hosts |->
          LET state == IF ~Runs THEN request.mode
                       ELSE IF neighbor[h] = "resolved" \/ h \in responded THEN "Responded"
                       ELSE "NoResponse"
          IN [state |-> state,
              scan |-> IF h \in incomplete THEN "incomplete"
                       ELSE IF request.mode = "Only" THEN "not_requested"
                       ELSE IF request.mode = "Before" /\ SkippedHost(h, state) THEN "skipped"
                       ELSE "scanned"]]
  /\ Step(IF request.endpoints > 0 THEN "reach_scan" ELSE "scan", 1)
  /\ UNCHANGED <<request, clock, asked, route, routed, changes, cache, requested, owed, sendable,
                 unreachable, expired, incomplete, neighbor, responded, stats, probed, left,
                 rushed>>

Scanned == {h \in Hosts : hosts[h].scan = "scanned"}

ScanStage ==
  /\ pc = "scan"
  /\ pc' = "done"
  /\ hosts' = [h \in Hosts |-> IF h \in incomplete THEN [hosts[h] EXCEPT !.scan = "incomplete"]
                               ELSE hosts[h]]
  /\ LET count == ProbeCount(Scanned, request.endpoints)
     IN IF count = 0 THEN UNCHANGED probed /\ NotSent
        ELSE /\ RunProbes(count, StageDelay)
             /\ owed' = [transmissions |-> 0, since |-> -1]
             /\ probed' = [probed EXCEPT !.scan = Scanned]
  /\ UNCHANGED <<request, index, asked, route, routed, changes, cache, requested, sendable,
                 unreachable, expired, incomplete, neighbor, responded>>

(* The deadline, a cancellation or a provider's error ends the operation.  *)
Stop ==
  /\ pc \notin {"done", "failed"}
  /\ pc' = "failed"
  /\ UNCHANGED <<request, clock, index, asked, route, routed, changes, cache, requested, owed,
                 sendable, unreachable, expired, incomplete, neighbor, responded, hosts, stats,
                 probed, left, rushed>>

(* An adaptive scan's time for one host runs out.                          *)
Expire ==
  /\ request.adaptive /\ pc \notin {"approved", "done", "failed"}
  /\ \E h \in Hosts \ expired : expired' = expired \cup {h}
  /\ UNCHANGED <<request, clock, pc, index, asked, route, routed, changes, cache, requested,
                 owed, sendable, unreachable, incomplete, neighbor, responded, hosts, stats,
                 probed, left, rushed>>

StageNext ==
  \/ Start \/ NeighborLook \/ NeighborResolve \/ Skip \/ ReachLook \/ ReachNextHop
  \/ Discover \/ Compose \/ ScanStage \/ Stop \/ Expire

StageSpec == StageInit /\ [][StageNext]_stageVars

-----------------------------------------------------------------------------
(* Properties.                                                             *)

(* Whatever the routes, the answers and the silences, a scan never sends   *)
(* more neighbor requests and probes than were approved, and a fixed scan  *)
(* never accounts for more time than its approved worst case: the pauses   *)
(* between requests and between stages included.                           *)
TrafficApproved ==
  /\ stats.requests <= NeighborRequests
  /\ stats.probes <= DiscoveryProbes + ScanProbes
  /\ ~request.adaptive => stats.elapsed <= WorstCase

(* Two transmissions that were reported are always at least the rate's     *)
(* pause apart, across requests answered from the cache, targets that are  *)
(* skipped and stages that send nothing; at most one pause is ever owed.   *)
RateKept == ~rushed /\ owed.transmissions <= 1

(* The report is true: the hosts recorded as scanned are those the scan    *)
(* probed; a host no frame can reach was sent none and is skipped under    *)
(* either policy; a host said to have responded has evidence for it.       *)
HostsRecorded ==
  pc = "done" =>
    \A h \in Hosts :
      /\ hosts[h].scan = "scanned" /\ request.endpoints > 0 => h \in probed.scan
      /\ h \in probed.scan => hosts[h].scan \in {"scanned", "incomplete"}
      /\ Runs /\ neighbor[h] = "silent" =>
           /\ h \notin probed.discovery \cup probed.scan
           /\ hosts[h].scan # "scanned"
      /\ hosts[h].state = "Responded" <=>
           Runs /\ (neighbor[h] = "resolved" \/ h \in responded)
=============================================================================
