----------------------------- MODULE HostLookup -----------------------------
(***************************************************************************)
(* Blocking host name lookups: each needs a permit of the lookup pool and  *)
(* one of the native root, runs on a worker and may be abandoned by its    *)
(* caller.  packetcraftr-netio/src/resolution.rs, with Permit::call of     *)
(* workers/task.rs.                                                        *)
(*                                                                         *)
(* A pool is the set of lookups that hold one of its permits, which is     *)
(* what WorkerAdmission's counters implement.  The resolver is external:   *)
(* it may return, panic or never return.                                   *)
(***************************************************************************)
EXTENDS Integers, FiniteSets

CONSTANTS
  Lookups,
  MAX_PENDING_LOOKUPS,
  RootSlots              \* the root's slots that other native work leaves free at most

LookupAssumption ==
  IsFiniteSet(Lookups) /\ MAX_PENDING_LOOKUPS \in Nat /\ RootSlots \in Nat

VARIABLES
  held,       \* held["lookup"], held["root"]: lookups with a permit
  retained,   \* the same, for the permits marked retained
  busy,       \* root slots used by other work
  asker,     \* asker[l]: the step of blocking_lookup_on, or its result
  job,        \* job[l]: the work on its worker
  timed_out     \* lookups whose deadline passed or was cancelled

lookupVars == <<held, retained, busy, asker, job, timed_out>>

Pools == {"lookup", "root"}

LookupInit ==
  /\ held = [p \in Pools |-> {}] /\ retained = [p \in Pools |-> {}] /\ busy = 0
  /\ asker = [l \in Lookups |-> "start"] /\ job = [l \in Lookups |-> "none"]
  /\ timed_out = {}

Refused(p) ==
  IF p = "lookup" THEN Cardinality(held["lookup"]) >= MAX_PENDING_LOOKUPS
                  ELSE Cardinality(held["root"]) + busy >= RootSlots

\* Permit and lease: the last owner's drop releases, and a released grant is not retained.
Returned(p, l) ==
  /\ held' = [held EXCEPT ![p] = @ \ {l}]
  /\ retained' = [retained EXCEPT ![p] = @ \ {l}]
ReturnedBoth(l) ==
  /\ held' = [p \in Pools |-> held[p] \ {l}]
  /\ retained' = [p \in Pools |-> retained[p] \ {l}]

\* RetentionMarker::mark_retained
Marked(p, l) ==
  retained' = IF l \in held[p] THEN [retained EXCEPT ![p] = @ \cup {l}] ELSE retained

Step(l, pc) == asker' = [asker EXCEPT ![l] = pc]

-----------------------------------------------------------------------------
\* The deadline is detached, then the lookup pool admits or refuses.
AdmitLookup(l) ==
  /\ asker[l] = "start"
  /\ IF l \in timed_out \/ Refused("lookup")
       THEN Step(l, "failed") /\ UNCHANGED held
       ELSE Step(l, "admitted") /\ held' = [held EXCEPT !["lookup"] = @ \cup {l}]
  /\ UNCHANGED <<retained, busy, job, timed_out>>

\* The root admits, or its refusal gives the lookup permit back.
AdmitRoot(l) ==
  /\ asker[l] = "admitted"
  /\ IF Refused("root")
       THEN Step(l, "failed") /\ Returned("lookup", l)
       ELSE /\ Step(l, "dispatch") /\ held' = [held EXCEPT !["root"] = @ \cup {l}]
            /\ UNCHANGED retained
  /\ UNCHANGED <<busy, job, timed_out>>

\* Permit::call: the job owns both permits; a failed dispatch drops it.
Dispatch(l) ==
  /\ asker[l] = "dispatch"
  /\ \/ /\ Step(l, "waiting") /\ job' = [job EXCEPT ![l] = "queued"]
        /\ UNCHANGED <<held, retained>>
     \/ Step(l, "failed") /\ ReturnedBoth(l) /\ UNCHANGED job
  /\ UNCHANGED <<busy, timed_out>>

\* The worker: an expired lookup never reaches the resolver.
Run(l) ==
  /\ job[l] = "queued"
  /\ job' = [job EXCEPT ![l] = IF l \in timed_out THEN "resolved" ELSE "running"]
  /\ UNCHANGED <<held, retained, busy, asker, timed_out>>

\* The resolver returns or panics; either way its state is cleaned up before the permits go.
RunResolver(l) ==
  /\ job[l] = "running"
  /\ \E end \in {"resolved", "panicked"} : job' = [job EXCEPT ![l] = end]
  /\ UNCHANGED <<held, retained, busy, asker, timed_out>>

\* The closure's end drops the lookup permit, also when it unwinds.
DropLookup(l) ==
  /\ job[l] \in {"resolved", "panicked"} /\ l \in held["lookup"]
  /\ Returned("lookup", l)
  /\ UNCHANGED <<busy, asker, job, timed_out>>

\* The worker settles the root permit, then publishes the outcome.
SettleLookup(l) ==
  /\ job[l] \in {"resolved", "panicked"} /\ l \notin held["lookup"] /\ l \in held["root"]
  /\ Returned("root", l)
  /\ UNCHANGED <<busy, asker, job, timed_out>>

PublishLookup(l) ==
  /\ job[l] \in {"resolved", "panicked"} /\ l \notin held["lookup"] \cup held["root"]
  /\ job' = [job EXCEPT ![l] = "published"]
  /\ UNCHANGED <<held, retained, busy, asker, timed_out>>

-----------------------------------------------------------------------------
\* Task::wait finds the outcome; the caller's own deadline is enforced once more.
Finished(l) ==
  /\ asker[l] = "waiting" /\ job[l] = "published"
  /\ Step(l, "done")
  /\ UNCHANGED <<held, retained, busy, job, timed_out>>

\* Mutant of Abandon: a lookup that has started is waited for.
AbandonQueued(l) ==
  /\ asker[l] = "waiting" /\ job[l] = "queued" /\ l \in timed_out
  /\ Step(l, "pending") /\ Marked("root", l)
  /\ UNCHANGED <<held, busy, job, timed_out>>

\* Task::wait gives up; Permit::call marks the root permit retained.
Abandon(l) ==
  /\ asker[l] = "waiting" /\ job[l] # "published" /\ l \in timed_out
  /\ Step(l, "pending") /\ Marked("root", l)
  /\ UNCHANGED <<held, busy, job, timed_out>>

\* Mutant of RetainLookup: only the root permit is marked.
RetainRoot(l) ==
  /\ asker[l] = "pending"
  /\ Step(l, "abandoned") /\ Marked("root", l)
  /\ UNCHANGED <<held, busy, job, timed_out>>

\* blocking_lookup_on marks the lookup permit too.
RetainLookup(l) ==
  /\ asker[l] = "pending"
  /\ Step(l, "abandoned") /\ Marked("lookup", l)
  /\ UNCHANGED <<held, busy, job, timed_out>>

ExpireLookup(l) ==
  /\ l \notin timed_out /\ timed_out' = timed_out \cup {l}
  /\ UNCHANGED <<held, retained, busy, asker, job>>

\* Other native work takes and gives back root slots.
Others ==
  /\ \/ busy + Cardinality(held["root"]) < RootSlots /\ busy' = busy + 1
     \/ busy > 0 /\ busy' = busy - 1
  /\ UNCHANGED <<held, retained, asker, job, timed_out>>

LookupNext ==
  \/ Others
  \/ \E l \in Lookups :
       \/ AdmitLookup(l) \/ AdmitRoot(l) \/ Dispatch(l)
       \/ Run(l) \/ RunResolver(l) \/ DropLookup(l) \/ SettleLookup(l) \/ PublishLookup(l)
       \/ Finished(l) \/ Abandon(l) \/ RetainLookup(l) \/ ExpireLookup(l)

\* A caller and a worker take their next step; deadlines pass.  No resolver has to answer.
LookupCallerStep(l) ==
  AdmitLookup(l) \/ AdmitRoot(l) \/ Dispatch(l) \/ Finished(l) \/ Abandon(l) \/ RetainLookup(l)
LookupWorkerStep(l) == Run(l) \/ DropLookup(l) \/ SettleLookup(l) \/ PublishLookup(l)
LookupFairness ==
  \A l \in Lookups :
    /\ WF_lookupVars(LookupCallerStep(l)) /\ WF_lookupVars(LookupWorkerStep(l))
    /\ WF_lookupVars(ExpireLookup(l))
LookupSpec == LookupInit /\ [][LookupNext]_lookupVars /\ LookupFairness

-----------------------------------------------------------------------------
(* Properties. *)

Over(l) == asker[l] \in {"failed", "done", "abandoned"}

\* A resolver that may be running is charged to both pools, whoever waits for it, so that
\* lookups never exceed MAX_PENDING_LOOKUPS; when both caller and job are through, neither
\* pool is charged, whichever of the two admissions, the dispatch or the resolver failed.
LookupCharged ==
  /\ Cardinality(held["lookup"]) <= MAX_PENDING_LOOKUPS
  /\ \A l \in Lookups :
       /\ job[l] \in {"queued", "running"} => l \in held["lookup"] \cap held["root"]
       /\ Over(l) /\ job[l] \in {"none", "published"} => l \notin held["lookup"] \cup held["root"]

\* What a pool reports as retained is exactly the permits of unfinished lookups that nobody
\* waits for any more, even when the worker finishes while its caller gives up.
RetainedExact ==
  \A p \in Pools :
    /\ retained[p] \subseteq {l \in held[p] : asker[l] \in {"pending", "abandoned"}}
    /\ {l \in held[p] : asker[l] = "abandoned"} \subseteq retained[p]

\* HostLookup: a resolver that may be running is charged to both pools, everything is given
\* back, and what a pool calls retained is exactly what nobody waits for any more.
LookupHonest == LookupCharged /\ RetainedExact

\* A caller is never held longer than its deadline by a resolver that does not return.
CallersReturn == \A l \in Lookups : <>Over(l)

-----------------------------------------------------------------------------
(* The inductive invariant of LookupHonest. *)

LookupTypes ==
  /\ held \in [Pools -> SUBSET Lookups] /\ retained \in [Pools -> SUBSET Lookups]
  /\ asker \in [Lookups -> {"start", "failed", "admitted", "dispatch", "waiting", "pending",
                             "abandoned", "done"}]
  /\ job \in [Lookups -> {"none", "queued", "running", "resolved", "panicked", "published"}]

Holds(l, pools) == \A p \in Pools : l \in held[p] <=> p \in pools

\* Which permits a lookup holds at each step of its caller and of its job.
PermitsFollow(l) ==
  /\ asker[l] \in {"start", "failed"} => job[l] = "none" /\ Holds(l, {})
  /\ asker[l] = "admitted" => job[l] = "none" /\ Holds(l, {"lookup"})
  /\ asker[l] = "dispatch" => job[l] = "none" /\ Holds(l, Pools)
  /\ asker[l] \in {"waiting", "pending", "abandoned", "done"} => job[l] # "none"
  /\ job[l] \in {"queued", "running"} => Holds(l, Pools)
  /\ job[l] = "published" => Holds(l, {})
  /\ asker[l] = "pending" /\ l \in held["root"] => l \in retained["root"]

LookupInv ==
  /\ LookupTypes /\ (\A l \in Lookups : PermitsFollow(l)) /\ RetainedExact
  /\ Cardinality(held["lookup"]) <= MAX_PENDING_LOOKUPS
=============================================================================
