---------------------------- MODULE WorkerThreads ----------------------------
(***************************************************************************)
(* The bounded threads of the native worker pool: dispatch, reuse by       *)
(* network namespace, retirement and reaping.                              *)
(* packetcraftr-netio/src/workers.rs and workers/reaper.rs.                 *)
(*                                                                         *)
(* Dispatch runs under the pool's state lock and gives it up only in its   *)
(* timed wait, so one pass of its loop is one action.  The order inside    *)
(* the idle list and the reaper's channel is abstracted to a set: any idle *)
(* worker of the right context may be reused and any idle one retired.     *)
(***************************************************************************)
EXTENDS Integers, FiniteSets

CONSTANTS
  Jobs,        \* jobs ever dispatched
  Contexts,    \* network namespaces of the callers
  NoContext,   \* execution_context() could not tell the namespace
  capacity,    \* Pool::capacity, also the reaper's channel bound and thread count
  MaxWorkers   \* bound: worker ids ever used (next_worker is a u64 in the code)

ThreadCapacityAssumption == capacity \in Nat \ {0}
MaxWorkersAssumption == MaxWorkers \in Nat \ {0}
ContextAssumption == NoContext \notin Contexts
ThreadsAssumption == ThreadCapacityAssumption /\ MaxWorkersAssumption /\ ContextAssumption

VARIABLES
  idle, busy, retiring,  \* State::idle, State::busy, State::retiring, as worker ids
  next_worker,           \* State::next_worker
  reaper,                \* retirement_service is Some
  thread,                \* where the thread of each worker id is
  reap,                  \* where the join task of each retired worker is
  context,               \* Worker::context: the namespace its thread was created in
  job,                   \* where each job is
  caller,                \* the namespace of the thread that dispatches each job
  at                     \* the worker each job was sent to

threadVars == <<idle, busy, retiring, next_worker, reaper, thread, reap, context, job, caller, at>>

Workers == 1 .. MaxWorkers
Namespaces == Contexts \cup {NoContext}
NoWorker == 0

\* recv .. recycle are the steps of serve(); finished: its main function returned or
\* unwound; exited: its thread-local destructors returned too, so join() can.
ThreadStates == {"none", "recv", "run", "publish", "recycle", "finished", "exited"}
\* pending: the reaper's channel refused the task; complete: Retiring::complete is set.
ReapStates == {"none", "pending", "queued", "joining", "complete"}
JobStates == {"new", "dispatching", "queued", "running", "publishing", "done", "refused"}

ThreadsInit ==
  /\ idle = {} /\ busy = {} /\ retiring = {}
  /\ next_worker = 1
  /\ reaper = FALSE
  /\ thread = [w \in Workers |-> "none"]
  /\ reap = [w \in Workers |-> "none"]
  /\ context = [w \in Workers |-> NoContext]
  /\ job = [j \in Jobs |-> "new"]
  /\ caller = [j \in Jobs |-> NoContext]
  /\ at = [j \in Jobs |-> NoWorker]

-----------------------------------------------------------------------------
InReap(s) == {w \in Workers : reap[w] = s}
Inbox(w) == {j \in Jobs : job[j] = "queued" /\ at[j] = w}

\* Mutant of is_finished: a worker that is publishing counts as finished.
is_finished_early(w) == thread[w] \in {"publish", "finished", "exited"}

is_finished(w) == thread[w] \in {"finished", "exited"}

thread_count(i, b, r) == Cardinality(i) + Cardinality(b) + Cardinality(r)

\* Mutants: a slot returns when the main function ended; unwound busy workers are missed.
prune_finished == retiring \ {w \in Workers : is_finished(w)}
FinishedIdle == {w \in idle : is_finished(w)}

\* What maintain_workers leaves behind: completed retirements are pruned, workers whose
\* main function ended are retired and refused transfers are tried again.
prune_retired == retiring \ InReap("complete")
FinishedWorkers == {w \in idle \cup busy : is_finished(w)}
ToTransfer == FinishedWorkers \cup InReap("pending")
MaintainedIdle == idle \ FinishedWorkers
MaintainedBusy == busy \ FinishedWorkers
MaintainedRetiring == prune_retired \cup FinishedWorkers

\* try_transfer of the join tasks of S: the channel takes what it has room for, and
\* the others stay pending with their Retiring entry.
Transferred(S) ==
  LET room == capacity - Cardinality(InReap("queued"))
      taken(Q) == Cardinality(Q) = IF Cardinality(S) <= room THEN Cardinality(S) ELSE room
  IN  {[w \in Workers |-> IF w \in Q THEN "queued" ELSE IF w \in S THEN "pending" ELSE reap[w]] :
         Q \in {Q \in SUBSET S : taken(Q)}}

\* retirement_reaper followed by the transfers: the service is started on first need.
Retire(S) ==
  /\ reap' \in Transferred(S)
  /\ reaper' = (reaper \/ S # {})

\* The job goes back to its caller, which drops it outside the lock.
ReturnJob(j) ==
  /\ job' = [job EXCEPT ![j] = "refused"]
  /\ UNCHANGED <<caller, at>>

\* The job is sent to w; a thread spawned by this caller is in the caller's namespace.
SendTo(j, w) ==
  /\ job' = [job EXCEPT ![j] = "queued"]
  /\ at' = [at EXCEPT ![j] = w]
  /\ UNCHANGED caller

-----------------------------------------------------------------------------
\* A caller enters dispatch: execution_context() is read once, before the lock.
Dispatch(j, c) ==
  /\ job[j] = "new"
  /\ job' = [job EXCEPT ![j] = "dispatching"]
  /\ caller' = [caller EXCEPT ![j] = c]
  /\ UNCHANGED <<idle, busy, retiring, next_worker, reaper, thread, reap, context, at>>

\* The caller's deadline passed or was cancelled: refused before any maintenance.
DispatchExpired(j) ==
  /\ job[j] = "dispatching"
  /\ ReturnJob(j)
  /\ UNCHANGED <<idle, busy, retiring, next_worker, reaper, thread, reap, context>>

\* maintain_workers needs the reaper and cannot start it: only the pruning was done.
DispatchUnmaintained(j) ==
  /\ job[j] = "dispatching"
  /\ ToTransfer # {}
  /\ ~reaper
  /\ ReturnJob(j)
  /\ retiring' = prune_retired
  /\ UNCHANGED <<idle, busy, next_worker, reaper, thread, reap, context>>

Reusable(j) == {w \in MaintainedIdle : context[w] = caller[j] /\ caller[j] # NoContext}
Room == thread_count(MaintainedIdle, MaintainedBusy, MaintainedRetiring) < capacity

\* An idle worker of the caller's namespace takes the job.  Its receiver is alive
\* (AcceptedJobsServed), so the send succeeds.
DispatchReuse(j) ==
  /\ job[j] = "dispatching"
  /\ Retire(ToTransfer)
  /\ \E w \in Reusable(j) :
       /\ SendTo(j, w)
       /\ idle' = MaintainedIdle \ {w}
       /\ busy' = MaintainedBusy \cup {w}
  /\ retiring' = MaintainedRetiring
  /\ UNCHANGED <<next_worker, thread, context>>

\* No reusable worker and a free thread slot: spawn a thread in the caller's namespace.
DispatchSpawn(j) ==
  /\ job[j] = "dispatching"
  /\ Retire(ToTransfer)
  /\ Reusable(j) = {}
  /\ Room
  /\ next_worker <= MaxWorkers
  /\ SendTo(j, next_worker)
  /\ idle' = MaintainedIdle
  /\ busy' = MaintainedBusy \cup {next_worker}
  /\ retiring' = MaintainedRetiring
  /\ thread' = [thread EXCEPT ![next_worker] = "recv"]
  /\ context' = [context EXCEPT ![next_worker] = caller[j]]
  /\ next_worker' = next_worker + 1

\* The same, but the operating system refuses the thread; the id is spent.
DispatchSpawnFailed(j) ==
  /\ job[j] = "dispatching"
  /\ Retire(ToTransfer)
  /\ Reusable(j) = {}
  /\ Room
  /\ next_worker <= MaxWorkers
  /\ ReturnJob(j)
  /\ idle' = MaintainedIdle
  /\ busy' = MaintainedBusy
  /\ retiring' = MaintainedRetiring
  /\ next_worker' = next_worker + 1
  /\ UNCHANGED <<thread, context>>

\* Full: retire one idle worker of another namespace, then wait and look again.  The
\* retired thread still holds its slot, so this pass cannot spawn: a completion between
\* the two prune_retired calls of the pass is one between two passes.
DispatchRetireIdle(j) ==
  /\ job[j] = "dispatching"
  /\ Reusable(j) = {}
  /\ ~Room
  /\ \E w \in MaintainedIdle :
       /\ Retire(ToTransfer \cup {w})
       /\ idle' = MaintainedIdle \ {w}
       /\ retiring' = MaintainedRetiring \cup {w}
  /\ busy' = MaintainedBusy
  /\ UNCHANGED <<next_worker, thread, context, job, caller, at>>

\* Full, an idle worker to retire, but the reaper cannot be started.
DispatchNoReaper(j) ==
  /\ job[j] = "dispatching"
  /\ Reusable(j) = {}
  /\ ~Room
  /\ MaintainedIdle # {}
  /\ ToTransfer = {} /\ ~reaper
  /\ ReturnJob(j)
  /\ retiring' = prune_retired
  /\ UNCHANGED <<idle, busy, next_worker, reaper, thread, reap, context>>

\* Full and nothing idle: wait for a slot; the pass has still maintained the workers.
DispatchWait(j) ==
  /\ job[j] = "dispatching"
  /\ Reusable(j) = {}
  /\ ~Room
  /\ MaintainedIdle = {}
  /\ Retire(ToTransfer)
  /\ idle' = MaintainedIdle
  /\ busy' = MaintainedBusy
  /\ retiring' = MaintainedRetiring
  /\ UNCHANGED <<next_worker, thread, context, job, caller, at>>

DispatchPass(j) ==
  \/ DispatchExpired(j) \/ DispatchUnmaintained(j) \/ DispatchReuse(j)
  \/ DispatchSpawn(j) \/ DispatchSpawnFailed(j)
  \/ DispatchRetireIdle(j) \/ DispatchNoReaper(j) \/ DispatchWait(j)

-----------------------------------------------------------------------------

\* serve: the worker receives a job.
Recv(w, j) ==
  /\ thread[w] = "recv"
  /\ j \in Inbox(w)
  /\ thread' = [thread EXCEPT ![w] = "run"]
  /\ job' = [job EXCEPT ![j] = "running"]
  /\ UNCHANGED <<idle, busy, retiring, next_worker, reaper, reap, context, caller, at>>

\* serve: the sender was dropped by retire(), so recv() fails and the thread returns.
RecvClosed(w) ==
  /\ thread[w] = "recv"
  /\ Inbox(w) = {}
  /\ w \notin idle \cup busy
  /\ thread' = [thread EXCEPT ![w] = "finished"]
  /\ UNCHANGED <<idle, busy, retiring, next_worker, reaper, reap, context, job, caller, at>>

\* serve: run() returned, panics caught inside it, and admission is finished.
FinishRun(w, j) ==
  /\ thread[w] = "run"
  /\ job[j] = "running" /\ at[j] = w
  /\ thread' = [thread EXCEPT ![w] = "publish"]
  /\ job' = [job EXCEPT ![j] = "publishing"]
  /\ UNCHANGED <<idle, busy, retiring, next_worker, reaper, reap, context, caller, at>>

\* serve: publish() stores the outcome for the caller.
Publish(w, j) ==
  /\ thread[w] = "publish"
  /\ job[j] = "publishing" /\ at[j] = w
  /\ thread' = [thread EXCEPT ![w] = "recycle"]
  /\ job' = [job EXCEPT ![j] = "done"]
  /\ UNCHANGED <<idle, busy, retiring, next_worker, reaper, reap, context, caller, at>>

\* serve: publish() destroys an abandoned outcome whose destructor panics; the thread
\* unwinds while its worker is still listed as busy.
PublishPanics(w, j) ==
  /\ thread[w] = "publish"
  /\ job[j] = "publishing" /\ at[j] = w
  /\ thread' = [thread EXCEPT ![w] = "finished"]
  /\ job' = [job EXCEPT ![j] = "done"]
  /\ UNCHANGED <<idle, busy, retiring, next_worker, reaper, reap, context, caller, at>>

\* recycle: a worker of a known namespace becomes idle and reads its inbox again.
RecycleKeep(w) ==
  /\ thread[w] = "recycle"
  /\ w \in busy
  /\ context[w] # NoContext
  /\ busy' = busy \ {w}
  /\ idle' = idle \cup {w}
  /\ thread' = [thread EXCEPT ![w] = "recv"]
  /\ UNCHANGED <<retiring, next_worker, reaper, reap, context, job, caller, at>>

\* recycle: one of an unknown namespace retires itself and its thread returns.
RecycleRetire(w) ==
  /\ thread[w] = "recycle"
  /\ w \in busy
  /\ context[w] = NoContext
  /\ Retire({w})
  /\ busy' = busy \ {w}
  /\ retiring' = retiring \cup {w}
  /\ thread' = [thread EXCEPT ![w] = "finished"]
  /\ UNCHANGED <<idle, next_worker, context, job, caller, at>>

\* recycle: ... or stays listed as busy when the reaper cannot be started; its thread
\* returns all the same and a later dispatch collects it.
RecycleStranded(w) ==
  /\ thread[w] = "recycle"
  /\ w \in busy
  /\ context[w] = NoContext
  /\ ~reaper
  /\ thread' = [thread EXCEPT ![w] = "finished"]
  /\ UNCHANGED <<idle, busy, retiring, next_worker, reaper, reap, context, job, caller, at>>

\* The thread-local destructors of a returned thread end.
ThreadExit(w) ==
  /\ thread[w] = "finished"
  /\ thread' = [thread EXCEPT ![w] = "exited"]
  /\ UNCHANGED <<idle, busy, retiring, next_worker, reaper, reap, context, job, caller, at>>

\* run_reaper: one of the service's `capacity` threads takes a join task.
ReaperTake(w) ==
  /\ reap[w] = "queued"
  /\ Cardinality(InReap("joining")) < capacity
  /\ reap' = [reap EXCEPT ![w] = "joining"]
  /\ UNCHANGED <<idle, busy, retiring, next_worker, reaper, thread, context, job, caller, at>>

\* run_reaper: join() returned, and RetirementComplete is dropped.
ReaperJoined(w) ==
  /\ reap[w] = "joining"
  /\ thread[w] = "exited"
  /\ reap' = [reap EXCEPT ![w] = "complete"]
  /\ UNCHANGED <<idle, busy, retiring, next_worker, reaper, thread, context, job, caller, at>>

ServeStep(w) ==
  \/ \E j \in Jobs : Recv(w, j) \/ FinishRun(w, j) \/ Publish(w, j) \/ PublishPanics(w, j)
  \/ RecvClosed(w) \/ RecycleKeep(w) \/ RecycleRetire(w) \/ RecycleStranded(w)

ThreadsNext ==
  \/ \E j \in Jobs : DispatchPass(j) \/ \E c \in Namespaces : Dispatch(j, c)
  \/ \E w \in Workers : ServeStep(w) \/ ThreadExit(w) \/ ReaperTake(w) \/ ReaperJoined(w)

ThreadsSpec == ThreadsInit /\ [][ThreadsNext]_threadVars

\* Scheduling: a caller in the loop keeps taking passes, workers and reapers run, and a
\* returned thread's destructors end.  Nothing is assumed of the deadline: the wait may
\* be as long as the caller likes.
DispatchAttempt(j) ==
  \/ DispatchUnmaintained(j) \/ DispatchReuse(j) \/ DispatchSpawn(j)
  \/ DispatchSpawnFailed(j) \/ DispatchRetireIdle(j) \/ DispatchNoReaper(j) \/ DispatchWait(j)

ThreadStep(w) == ServeStep(w) \/ ThreadExit(w)
ReaperStep(w) == ReaperTake(w) \/ ReaperJoined(w)

ThreadsFairness ==
  /\ \A j \in Jobs : WF_threadVars(DispatchAttempt(j))
  /\ \A w \in Workers : WF_threadVars(ThreadStep(w) \/ ReaperStep(w))

ThreadsFairSpec == ThreadsSpec /\ ThreadsFairness

-----------------------------------------------------------------------------
\* Type invariant.
ThreadsTypeOK ==
  /\ idle \subseteq Workers /\ busy \subseteq Workers /\ retiring \subseteq Workers
  /\ next_worker \in 1 .. (MaxWorkers + 1)
  /\ reaper \in BOOLEAN
  /\ thread \in [Workers -> ThreadStates]
  /\ reap \in [Workers -> ReapStates]
  /\ context \in [Workers -> Namespaces]
  /\ job \in [Jobs -> JobStates]
  /\ caller \in [Jobs -> Namespaces]
  /\ at \in [Jobs -> Workers \cup {NoWorker}]

LiveThreads == {w \in Workers : thread[w] \notin {"none", "exited"}}

\* executor_thread_snapshot: "Their sum never exceeds `capacity`", and dispatch: "Actual
\* threads, including retirement, stay bounded": slots and threads that may still execute
\* code stay within capacity, whatever mixture of reuse, retirement, unwinding and failed
\* reaper starts led here.  start_reaper: "The channel and threads match pool capacity, so
\* every admitted worker can be reaped": no join task is refused or waits for a reaper.
ThreadsBounded ==
  /\ thread_count(idle, busy, retiring) <= capacity
  /\ Cardinality(LiveThreads) <= capacity
  /\ InReap("pending") = {}
  /\ Cardinality(InReap("queued")) + Cardinality(InReap("joining")) <= capacity

\* Two jobs share a thread only if both callers were in the same, known namespace; a
\* job whose caller's namespace is unknown has a thread nobody else ever used.
SharedThreadsMatch ==
  \A j, k \in Jobs :
    j # k /\ at[j] = at[k] /\ at[j] # NoWorker => caller[j] = caller[k] /\ caller[j] # NoContext

Serving == [queued |-> "recv", running |-> "run", publishing |-> "publish"]

\* An accepted job is never lost: until it is done its worker is busy, alive, at the
\* matching step of serve() and holds no other job.  An idle worker is parked on an empty
\* inbox, so a reusing dispatch always reaches a live receiver and its send-failure branch
\* is dead.
AcceptedJobsServed ==
  /\ ThreadsTypeOK
  /\ \A j \in Jobs :
       job[j] \in DOMAIN Serving =>
         /\ at[j] \in busy
         /\ thread[at[j]] = Serving[job[j]]
         /\ \A k \in Jobs : job[k] \in DOMAIN Serving /\ at[k] = at[j] => k = j
  /\ \A w \in idle : thread[w] = "recv" /\ Inbox(w) = {}

\* What the pool promises about the jobs it accepted and the threads that serve them.
JobsServed == AcceptedJobsServed /\ SharedThreadsMatch /\ ThreadsBounded

\* No thread slot leaks: a caller waiting in dispatch is not stuck forever even without
\* a deadline, whatever panicked, was stranded or is being joined; an accepted job's
\* outcome is published or destroyed.
Ended == \A j \in Jobs : job[j] \in {"new", "refused", "done"}
JobsEnd == []<>Ended

-----------------------------------------------------------------------------
(* The inductive invariant of JobsServed. *)

Used == idle \cup busy \cup retiring

\* A worker is listed once while its thread may execute code, and retires once.
WorkerFollows(w) ==
  /\ w \in idle => w \notin busy \cup retiring /\ thread[w] = "recv" /\ context[w] # NoContext
  /\ w \in busy => w \notin retiring
  /\ w \in retiring => thread[w] \in {"recv", "finished", "exited"} /\ reap[w] \in {"queued", "joining", "complete"}
  /\ thread[w] = "none" <=> ~(w \in Used \/ thread[w] = "exited")
  /\ w >= next_worker => thread[w] = "none"
  /\ reap[w] # "pending"
  /\ reap[w] \in {"queued", "joining"} => w \in retiring
  /\ reap[w] = "complete" => thread[w] = "exited" /\ w \notin idle \cup busy

\* A job has a worker from the moment it is sent, in the namespace of its caller.
JobFollows(j) ==
  /\ job[j] \in {"new", "dispatching", "refused"} => at[j] = NoWorker
  /\ job[j] \in DOMAIN Serving => at[j] \in busy /\ thread[at[j]] = Serving[job[j]]
  /\ at[j] # NoWorker => context[at[j]] = caller[j] /\ thread[at[j]] # "none"

\* Two jobs of one worker: at most one is not done, and the worker's namespace is known.
PairFollows(j, k) ==
  j # k /\ at[j] = at[k] /\ at[j] # NoWorker =>
    context[at[j]] # NoContext /\ ~(job[j] \in DOMAIN Serving /\ job[k] \in DOMAIN Serving)

ThreadsInv ==
  /\ ThreadsTypeOK
  /\ Cardinality(Used) <= capacity
  /\ \A w \in Workers : WorkerFollows(w)
  /\ \A j \in Jobs : JobFollows(j)
  /\ \A j, k \in Jobs : PairFollows(j, k)
=============================================================================
