------------------------------ MODULE WorkerPool ------------------------------
(***************************************************************************)
(* The native worker pool as its callers see it: admission (WorkerAdmission)*)
(* and threads (WorkerThreads) driven by one job each, and the Task through *)
(* which a caller waits for, takes or abandons the outcome.                 *)
(* packetcraftr-netio/src/workers/task.rs and workers.rs, serve().          *)
(*                                                                         *)
(* A job and its grant have the same identity.                             *)
(***************************************************************************)
EXTENDS Integers, FiniteSets

CONSTANTS Jobs, Contexts, NoContext, capacity, USizeMax, MaxLeases, MaxWorkers

VARIABLES
  active, rejected, retained, class, phase, permits, reserved, leases,
  idle, busy, retiring, next_worker, reaper, thread, reap, context, job, caller, at,
  slot,      \* Done::slot
  tasks,     \* jobs whose Task the caller still holds
  outcome    \* what the value of the work owns: nothing, or the socket's permit

A == INSTANCE WorkerAdmission WITH Grants <- Jobs
T == INSTANCE WorkerThreads

admVars == <<active, rejected, retained, class, phase, permits, reserved, leases>>
thrVars == <<idle, busy, retiring, next_worker, reaper, thread, reap, context, job, caller, at>>
taskVars == <<slot, tasks, outcome>>
poolVars == <<admVars, thrVars, taskVars>>

PoolInit ==
  /\ A!AdmissionInit
  /\ T!ThreadsInit
  /\ slot = [j \in Jobs |-> "None"]
  /\ tasks = {}
  /\ outcome = [j \in Jobs |-> "plain"]

-----------------------------------------------------------------------------
(* The caller before dispatch. *)

Admit(j, c) == A!Admit(j, c) /\ UNCHANGED <<thrVars, taskVars>>

Refuse(c) == A!Refuse(c) /\ UNCHANGED <<thrVars, taskVars>>

\* Permit::lease, taken by the capture activation before it spawns.
TakeLease(j) ==
  /\ job[j] = "new" /\ class[j] = "Native"
  /\ A!Lease(j)
  /\ UNCHANGED <<thrVars, taskVars>>

\* A permit that is dropped unused because the caller failed before spawning.
DropUnused(j) ==
  /\ job[j] = "new"
  /\ A!DropPermit(j)
  /\ UNCHANGED <<thrVars, taskVars>>

\* spawn_with_control: a connect splits off its reservation, then dispatch begins.
Spawn(j, c) ==
  /\ j \in permits
  /\ T!Dispatch(j, c)
  /\ IF class[j] = "TcpConnect" THEN A!IntoParts(j) ELSE UNCHANGED admVars
  /\ UNCHANGED taskVars

\* dispatch, one pass; the Task exists once it has returned Ok.
Dispatching(j) ==
  /\ T!DispatchPass(j)
  /\ IF job'[j] = "queued"
       THEN /\ tasks' = tasks \cup {j}
            /\ slot' = [slot EXCEPT ![j] = "Running"]
       ELSE UNCHANGED <<tasks, slot>>
  /\ UNCHANGED <<admVars, outcome>>

\* The refused job is dropped outside the lock: its closure, then its permit.
DropRefused(j) ==
  /\ job[j] = "refused"
  /\ IF j \in reserved THEN A!DropReservation(j) ELSE A!DropPermit(j)
  /\ UNCHANGED <<thrVars, taskVars>>

-----------------------------------------------------------------------------
(* The worker. *)

\* The connect work promotes its reservation; the socket is part of its outcome.
Promote(j) ==
  /\ job[j] = "running"
  /\ A!IntoSocket(j)
  /\ outcome' = [outcome EXCEPT ![j] = "socket"]
  /\ UNCHANGED <<thrVars, slot, tasks>>

\* The connect work fails or panics: the reservation unwinds with it.
Unpromoted(j) ==
  /\ job[j] = "running"
  /\ A!DropReservation(j)
  /\ UNCHANGED <<thrVars, taskVars>>

\* Mutant of FinishRun: the outcome is published before admission is settled.
FinishRunUnsettled(w, j) ==
  /\ T!FinishRun(w, j)
  /\ j \notin reserved
  /\ UNCHANGED <<admVars, taskVars>>

\* run() has returned, so its captures are gone; the execution charge is settled
\* before the outcome is published.
FinishRun(w, j) ==
  /\ T!FinishRun(w, j)
  /\ j \notin reserved
  /\ A!FinishAdmission(j)
  /\ UNCHANGED taskVars

\* publish() into a slot somebody still holds.
Publish(w, j) ==
  /\ T!Publish(w, j)
  /\ j \in tasks
  /\ slot' = [slot EXCEPT ![j] = "Finished"]
  /\ UNCHANGED <<admVars, tasks, outcome>>

\* publish() into an abandoned slot: the worker is its last owner and destroys the
\* outcome, closing an unclaimed socket; a custom destructor may panic.
PublishAbandoned(w, j) ==
  /\ T!Publish(w, j) \/ T!PublishPanics(w, j)
  /\ j \notin tasks
  /\ slot' = [slot EXCEPT ![j] = "Taken"]
  /\ IF outcome[j] = "socket" THEN A!DropLease(j) ELSE UNCHANGED admVars
  /\ outcome' = [outcome EXCEPT ![j] = "plain"]
  /\ UNCHANGED tasks

WorkerStep(w) ==
  /\ \/ \E j \in Jobs : T!Recv(w, j)
     \/ T!RecvClosed(w) \/ T!RecycleKeep(w) \/ T!RecycleRetire(w) \/ T!RecycleStranded(w)
     \/ T!ThreadExit(w) \/ T!ReaperTake(w) \/ T!ReaperJoined(w)
  /\ UNCHANGED <<admVars, taskVars>>

-----------------------------------------------------------------------------
(* The caller with a Task. *)

\* try_take of a finished outcome, by poll or by wait.
TryTake(j) ==
  /\ j \in tasks
  /\ slot[j] = "Finished"
  /\ slot' = [slot EXCEPT ![j] = "Taken"]
  /\ tasks' = tasks \ {j}
  /\ UNCHANGED <<admVars, thrVars, outcome>>

\* Permit::call, PendingConnect::drop, settle: the wait ran out with the slot Running,
\* and the work is marked retained before the Task is dropped.
GiveUp(j) ==
  /\ j \in tasks
  /\ A!MarkRetained(j)
  /\ UNCHANGED <<thrVars, taskVars>>

\* ... dropping it: the worker may have published in between, and then this caller
\* is the last owner of the outcome.
Abandon(j) ==
  /\ j \in tasks
  /\ phase[j] \cap {"RETAINED", "RELEASED"} # {}
  /\ tasks' = tasks \ {j}
  /\ IF slot[j] = "Finished"
       THEN /\ slot' = [slot EXCEPT ![j] = "Taken"]
            /\ IF outcome[j] = "socket" THEN A!DropLease(j) ELSE UNCHANGED admVars
            /\ outcome' = [outcome EXCEPT ![j] = "plain"]
       ELSE UNCHANGED <<slot, outcome, admVars>>
  /\ UNCHANGED thrVars

\* The owner of a taken connection closes it.
CloseSocket(j) ==
  /\ slot[j] = "Taken" /\ j \notin tasks
  /\ outcome[j] = "socket"
  /\ A!DropLease(j)
  /\ outcome' = [outcome EXCEPT ![j] = "plain"]
  /\ UNCHANGED <<thrVars, slot, tasks>>

\* A native lease ends with the capture session that holds it.
EndLease(j) ==
  /\ class[j] = "Native"
  /\ A!DropLease(j)
  /\ UNCHANGED <<thrVars, taskVars>>

DropGrant(j) == A!DropGrant(j) /\ UNCHANGED <<thrVars, taskVars>>

PoolNext ==
  \/ \E c \in {"Native", "TcpConnect"} : Refuse(c) \/ \E j \in Jobs : Admit(j, c)
  \/ \E j \in Jobs :
       \/ TakeLease(j) \/ DropUnused(j) \/ Dispatching(j) \/ DropRefused(j)
       \/ Promote(j) \/ Unpromoted(j)
       \/ TryTake(j) \/ GiveUp(j) \/ Abandon(j) \/ CloseSocket(j) \/ EndLease(j)
       \/ DropGrant(j)
       \/ \E c \in Contexts \cup {NoContext} : Spawn(j, c)
  \/ \E w \in 1 .. MaxWorkers :
       \/ WorkerStep(w)
       \/ \E j \in Jobs : FinishRun(w, j) \/ Publish(w, j) \/ PublishAbandoned(w, j)

PoolSpec == PoolInit /\ [][PoolNext]_poolVars

\* Workers run and their work returns; a caller spawns or drops its permit, stops
\* waiting at its finite deadline, and drops what it owns in the end.
Starting(j) == DropUnused(j) \/ Dispatching(j) \/ DropRefused(j) \/ Unpromoted(j)
Taking(j) == TryTake(j) \/ Abandon(j) \/ CloseSocket(j)
Serving(w) == WorkerStep(w) \/ \E j \in Jobs : FinishRun(w, j) \/ Publish(w, j) \/ PublishAbandoned(w, j)

Calling(j) == Starting(j) \/ Taking(j)
Holding(j) == EndLease(j) \/ DropGrant(j)

PoolFairness ==
  /\ \A j \in Jobs : WF_poolVars(Calling(j)) /\ WF_poolVars(Holding(j))
  /\ \A w \in 1 .. MaxWorkers : WF_poolVars(Serving(w))

PoolFairSpec == PoolSpec /\ PoolFairness

-----------------------------------------------------------------------------
\* Run: "hands back how to publish its outcome once admission is settled".  A caller
\* that sees an outcome finds the execution charge, the permit and the reservation gone;
\* a connect that opened no socket has already given its root slot back.
OutcomeAfterSettlement ==
  \A j \in Jobs :
    slot[j] \in {"Finished", "Taken"} =>
      /\ "EXECUTING" \notin phase[j]
      /\ j \notin permits \cup reserved
      /\ slot[j] = "Finished" /\ class[j] = "TcpConnect" /\ outcome[j] = "plain"
           => "RELEASED" \in phase[j]

\* Native work never runs uncharged: from acceptance to the end of run() its grant
\* holds an execution and a root charge, and executions never outnumber the busy slots
\* plus the callers that have not got a thread yet.  Conversely a socket charge belongs to
\* a socket somebody can still close: an outcome in flight, an unclaimed outcome or a
\* taken connection.
ChargesMatchWork ==
  /\ \A j \in Jobs : job[j] \in {"queued", "running"} => j \in permits /\ "EXECUTING" \in phase[j]
  /\ active["execution"] <=
       Cardinality(busy) + Cardinality({j \in Jobs : job[j] \in {"new", "dispatching", "refused"}})
  /\ \A j \in Jobs : "SOCKET" \in phase[j] /\ ~A!Unowned(j) => outcome[j] = "socket" \/ j \in permits

\* Permit::call: "A pending task is marked retained before its outcome is abandoned, so
\* admission accounting survives the caller giving up on it": work nobody waits for is
\* counted as cleanup retaining capacity for as long as it holds a charge.
AbandonedWorkIsCounted ==
  \A j \in Jobs :
    job[j] \in {"queued", "running", "publishing"} /\ j \notin tasks /\ A!Live(j)
      => "RETAINED" \in phase[j]

\* Nothing is leaked: once its caller and worker are through, every admitted job gives
\* its root charge back.
Ended == \A j \in Jobs : ~A!Live(j)
ChargesReturn == []<>Ended
=============================================================================
