----------------------------- MODULE TraceHosts -----------------------------
(***************************************************************************)
(* Traceroute of many hosts with hop reuse (traceroute/hosts/): the planner *)
(* that traces one host after another, starting each at the highest hop an *)
(* earlier host's fresh observation covers, copying the lower hops of a    *)
(* host whose path it meets and probing the rest (planner.rs), and the     *)
(* cache it copies from (reuse.rs).                                        *)
(*                                                                         *)
(* A batch probes one hop limit; its outcome is the set of routers that    *)
(* answered as intermediates and whether a reply ended the trace.  The     *)
(* paced execution of a batch is the subject of ProbeRunner: here it takes *)
(* any time and may fail, which ends the operation.  A host's cache is     *)
(* chosen by its address family and transport; the model calls the pair    *)
(* its path, and a host without one is a host that is not traced.          *)
(***************************************************************************)
EXTENDS Integers, Sequences, FiniteSetsExt, Functions

CONSTANTS
  HostCount,       \* the selected hosts are 1..HostCount
  Paths,           \* the address family and transport pairs
  first_hop, max_hops,
  probes_per_hop,
  max_age,         \* the oldest observation a hop may be copied from
  Responders,      \* the routers
  LastTick         \* the clock of the model stops here

VARIABLES
  clock,
  path,       \* the path of each host, or "not_traced"
  pc,         \* where the operation stands
  next_slot,  \* the host to take up next
  current,    \* the host being traced: its mode, its anchor, its fresh and reused hops
  in_flight,  \* the hop limit of the batch being executed, 0 for none
  outcome,    \* the outcome of the batch that was executed last
  caches,     \* the entries of each path, in the order they were inserted
  hosts       \* the host records published, in order

traceVars == <<clock, path, pc, next_slot, current, in_flight, outcome, caches, hosts>>

Hops == first_hop..max_hops

Outcomes ==
  {o \in [by : SUBSET Responders, end : {"none", "unreachable", "reached"}] :
     Cardinality(o.by) + (IF o.end = "none" THEN 0 ELSE 1) <= probes_per_hop}

Silence == [by |-> {}, end |-> "none"]

Nobody == [slot |-> 0]

TraceInit ==
  /\ clock = 0
  /\ path \in [1..HostCount -> Paths \cup {"not_traced"}]
  /\ pc = "loop"
  /\ next_slot = 1
  /\ current = Nobody
  /\ in_flight = 0
  /\ outcome = Silence
  /\ caches = [p \in Paths |-> <<>>]
  /\ hosts = <<>>

-----------------------------------------------------------------------------
(* The cache of one path (reuse.rs).                                       *)

IsFresh(entry) == clock - entry.planned_at <= max_age

AtHop(cache, hop) == SelectSeq(cache, LAMBDA entry : entry.hop = hop)

Anchor(cache) ==
  LET covered == {hop \in Hops : LET at == AtHop(cache, hop) IN
                                 at # <<>> /\ IsFresh(at[Len(at)])}
  IN IF covered = {} THEN 0 ELSE Max(covered)

(* The partition point of a list: the code finds it by bisection, which    *)
(* asks for the stale entries to come first.                               *)
FirstFresh(list) ==
  1 + Cardinality({i \in DOMAIN list : ~IsFresh(list[i])})

(* The earliest host with a fresh entry at the hop that shares one of the  *)
(* responders; 0 when there is none.                                       *)
Matching(cache, hop, by) ==
  LET sharing(r) == SelectSeq(AtHop(cache, hop), LAMBDA entry : r \in entry.by)
      found == {r \in by : FirstFresh(sharing(r)) <= Len(sharing(r))}
  IN IF found = {} THEN 0
     ELSE Min({sharing(r)[FirstFresh(sharing(r))].slot : r \in found})

(* The hops of Fill that are copied from the source without a probe: down  *)
(* from the hop it stands at, as long as the source has a fresh entry.     *)
CopiesStale(cache, source, hop) ==
  {entry \in Range(cache) :
     /\ entry.slot = source
     /\ entry.hop <= hop
     /\ \A h \in entry.hop..hop : \E e \in Range(cache) : e.slot = source /\ e.hop = h}

Copies(cache, source, hop) ==
  {entry \in Range(cache) :
     /\ entry.slot = source
     /\ entry.hop <= hop
     /\ \A h \in entry.hop..hop :
          \E e \in Range(cache) : e.slot = source /\ e.hop = h /\ IsFresh(e)}

-----------------------------------------------------------------------------
(* One host (Current).                                                     *)

Start(slot) ==
  [slot |-> slot, mode |-> "start", source |-> 0, hop |-> 0, anchor |-> 0,
   fresh |-> <<>>, reused |-> {}]

Upward(c) ==
  [c EXCEPT !.mode = "upward",
            !.hop = IF c.anchor = 0 THEN first_hop ELSE c.anchor + 1]

BelowAlways(c, mode, source, hop) ==
  IF hop > first_hop + 1
  THEN [c EXCEPT !.mode = mode, !.source = source, !.hop = hop - 1]
  ELSE Upward(c)

(* The mode that continues one hop lower, or upward from the anchor when   *)
(* there is none.                                                          *)
Below(c, mode, source, hop) ==
  IF hop > first_hop
  THEN [c EXCEPT !.mode = mode, !.source = source, !.hop = hop - 1]
  ELSE Upward(c)

Ended(c) == \E h \in DOMAIN c.fresh : c.fresh[h].outcome.end # "none"

(* The loop of Current::decide, up to the hop it probes or to none: the    *)
(* anchor is read, and hops are copied.                                    *)
Decided(c, cache) ==
  LET anchor == Anchor(cache)
      copied == Copies(cache, c.source, c.hop)
      filled == [c EXCEPT !.reused = @ \cup {[hop |-> e.hop, source |-> e.slot,
                                              age |-> clock - e.planned_at] : e \in copied}]
  IN CASE c.mode = "start" /\ anchor > 0 ->
            [c EXCEPT !.anchor = anchor, !.mode = "descend", !.hop = anchor]
       [] c.mode = "start" /\ anchor = 0 -> Upward(c)
       [] c.mode = "fill" /\ copied # {} ->
            Below(filled, "fill", c.source, Min({e.hop : e \in copied}))
       [] OTHER -> c

(* Whether the decision is a hop to probe.                                 *)
Probes(c) ==
  c.mode = "upward" => c.hop <= max_hops /\ ~Ended(c)

-----------------------------------------------------------------------------
(* The loop of Planner::next.                                              *)

(* A host that is not traced is recorded at once.                          *)
SkipHost ==
  /\ pc = "loop"
  /\ current = Nobody
  /\ next_slot <= HostCount
  /\ path[next_slot] = "not_traced"
  /\ hosts' = Append(hosts, [slot |-> next_slot, fresh |-> <<>>, reused |-> {},
                             anchor |-> 0, termination |-> "none"])
  /\ next_slot' = next_slot + 1
  /\ UNCHANGED <<clock, path, pc, current, in_flight, outcome, caches>>

(* The host at work, or the next one, decides on a batch.                  *)
PlanBatch ==
  /\ pc = "loop"
  /\ current = Nobody => next_slot <= HostCount /\ path[next_slot] # "not_traced"
  /\ LET c == IF current = Nobody THEN Start(next_slot) ELSE current
         decided == Decided(c, caches[path[c.slot]])
     IN /\ Probes(decided)
        /\ current' = [decided EXCEPT
                         !.fresh = [h \in DOMAIN @ \cup {decided.hop} |->
                                      IF h = decided.hop
                                      THEN [planned_at |-> clock, outcome |-> Silence]
                                      ELSE @[h]]]
        /\ in_flight' = decided.hop
  /\ next_slot' = IF current = Nobody THEN next_slot + 1 ELSE next_slot
  /\ pc' = "execute"
  /\ UNCHANGED <<clock, path, outcome, caches, hosts>>

Execute ==
  /\ pc = "execute"
  /\ outcome' \in Outcomes
  /\ pc' = "observe"
  /\ UNCHANGED <<clock, path, next_slot, current, in_flight, caches, hosts>>

(* The head of Planner::next: the outcome is kept with its hop and moves   *)
(* the mode on.                                                            *)
Observe ==
  LET c == [current EXCEPT !.fresh[in_flight].outcome = outcome]
      source == Matching(caches[path[c.slot]], in_flight, outcome.by)
  IN
  /\ pc = "observe"
  /\ current' = CASE c.mode = "descend" /\ source > 0 -> Below(c, "fill", source, in_flight)
                  [] c.mode = "descend" /\ source = 0 -> Below(c, "descend", 0, in_flight)
                  [] c.mode = "fill" -> Below(c, "fill", c.source, in_flight)
                  [] OTHER -> [c EXCEPT !.hop = @ + 1]
  /\ in_flight' = 0
  /\ outcome' = Silence
  /\ pc' = "loop"
  /\ UNCHANGED <<clock, path, next_slot, caches, hosts>>

(* The termination folds the fresh outcomes alone.                         *)
Termination(fresh) ==
  LET ends == {fresh[h].outcome.end : h \in DOMAIN fresh} IN
  CASE "reached" \in ends -> "destination_reached"
    [] "reached" \notin ends /\ "unreachable" \in ends -> "unreachable"
    [] ends \subseteq {"none"} /\ (\E h \in DOMAIN fresh : fresh[h].outcome.by # {}) ->
         "maximum_hops"
    [] OTHER -> "timeout"

(* The entries a finished host leaves, by ascending hop.                   *)
Entries(c) ==
  LET kept == {h \in DOMAIN c.fresh : c.fresh[h].outcome.by # {}}
      at(i) == CHOOSE h \in kept : Cardinality({g \in kept : g <= h}) = i
  IN [i \in 1..Cardinality(kept) |->
        [slot |-> c.slot, hop |-> at(i), by |-> c.fresh[at(i)].outcome.by,
         planned_at |-> c.fresh[at(i)].planned_at]]

(* The host is done: its hops enter the cache and its record is published. *)
FinishHost ==
  /\ pc = "loop"
  /\ current # Nobody
  /\ LET decided == Decided(current, caches[path[current.slot]]) IN
     /\ ~Probes(decided)
     /\ caches' = [caches EXCEPT ![path[current.slot]] = @ \o Entries(decided)]
     /\ hosts' = Append(hosts, [slot |-> decided.slot, fresh |-> decided.fresh,
                                reused |-> decided.reused, anchor |-> decided.anchor,
                                termination |-> Termination(decided.fresh)])
  /\ current' = Nobody
  /\ UNCHANGED <<clock, path, pc, next_slot, in_flight, outcome>>

Report ==
  /\ pc = "loop"
  /\ current = Nobody
  /\ next_slot > HostCount
  /\ pc' = "reported"
  /\ UNCHANGED <<clock, path, next_slot, current, in_flight, outcome, caches, hosts>>

(* A deadline, a cancellation, an execution or a publication that fails    *)
(* ends the operation without a report, and the planner is dropped.        *)
Fail ==
  /\ pc \in {"loop", "execute"}
  /\ pc' = "failed"
  /\ current' = Nobody
  /\ in_flight' = 0
  /\ caches' = [p \in Paths |-> <<>>]
  /\ UNCHANGED <<clock, path, next_slot, outcome, hosts>>

(* Time passes anywhere; the planner reads the clock when it observes and  *)
(* when it plans.                                                          *)
Tick ==
  /\ pc \in {"loop", "observe"}
  /\ clock < LastTick
  /\ clock' = clock + 1
  /\ UNCHANGED <<path, pc, next_slot, current, in_flight, outcome, caches, hosts>>

TraceNext ==
  SkipHost \/ PlanBatch \/ Execute \/ Observe \/ FinishHost \/ Report \/ Fail \/ Tick

TraceSpec == TraceInit /\ [][TraceNext]_traceVars
-----------------------------------------------------------------------------
(* Every hop of a traced host is accounted for exactly once: its probed    *)
(* and its copied hops are disjoint and together run from the first hop    *)
(* without a gap, and they stop short of the last hop only because a probe *)
(* of this very host drew an ending reply (Current::decide, observe and    *)
(* below).  With probes_per_hop probes to a hop this is also why the plan  *)
(* admits hop_count batches for a host and no more.                        *)
HopsAccounted ==
  \A i \in DOMAIN hosts :
    LET host == hosts[i]
        probed == DOMAIN host.fresh
        copied == {r.hop : r \in host.reused}
    IN host.termination # "none" =>
         /\ probed \cap copied = {}
         /\ Cardinality(copied) = Cardinality(host.reused)
         /\ probed \cup copied = first_hop..Max(probed \cup copied)
         /\ \/ Max(probed \cup copied) = max_hops
            \/ host.termination \in {"destination_reached", "unreachable"}

(* A copied hop is backed by evidence: its source is an earlier host of    *)
(* the same path that observed the hop itself, not through another copy,   *)
(* no longer than max_age before; and at some higher hop both hosts saw    *)
(* the same router.  The per-hop lists stay ordered by the time their      *)
(* batches were planned, "and its fresh entries form a suffix" (reuse.rs), *)
(* which the bisection of first_fresh needs.                               *)
CopiesBacked ==
  /\ \A i \in DOMAIN hosts : \A r \in hosts[i].reused :
       /\ r.age <= max_age
       /\ r.source < hosts[i].slot
       /\ path[r.source] = path[hosts[i].slot]
       /\ LET source == hosts[r.source].fresh IN
          /\ r.hop \in DOMAIN source
          /\ source[r.hop].outcome.by # {}
          /\ \E h \in DOMAIN source \cap DOMAIN hosts[i].fresh :
               /\ h > r.hop
               /\ source[h].outcome.by \cap hosts[i].fresh[h].outcome.by # {}
  /\ \A p \in Paths : \A hop \in Hops :
       LET at == AtHop(caches[p], hop) IN
       \A i, j \in DOMAIN at : i < j => at[i].planned_at <= at[j].planned_at
=============================================================================
