------------------------- MODULE PublicationRuntime -------------------------
(***************************************************************************)
(* Isolated publication workers: a finite budget of callback threads, one  *)
(* event in flight per sink, timeouts that cannot interrupt a callback,    *)
(* and a cleanup service that joins the threads and returns their permits. *)
(* packetcraftr/src/runtime.rs, packetcraftr-netio resources/thread_cleanup *)
(* and workers/reaper.                                                     *)
(*                                                                         *)
(* An event is the number of the emit that sent it; an outcome carries the *)
(* number of its event.                                                    *)
(***************************************************************************)
EXTENDS Integers, Sequences, FiniteSets

CONSTANTS
  Sinks,             \* sinks ever started in this runtime
  runtime_capacity,  \* Runtime::capacity, also that of its ThreadCleanup
  MaxEmits           \* bound: emit calls per sink

RuntimeCapacityAssumption == runtime_capacity \in Nat
MaxEmitsAssumption == MaxEmits \in Nat
RuntimeAssumption == RuntimeCapacityAssumption /\ MaxEmitsAssumption /\ IsFiniteSet(Sinks)

VARIABLES
  active, rejected, timed_out,  \* WorkerBudget
  cleanup,         \* WorkerBudget::cleanup is Some
  cleanup_active,  \* ThreadCleanup's Inner::active
  start,           \* how far new_in_with of each sink is, and whether the handle lives
  status,          \* WorkerState of each sink's permit
  callback,        \* where each callback thread is
  events,          \* the event channel, sync_channel(1)
  outcomes,        \* the outcome channel, sync_channel(1)
  event,           \* the event the callback is working on
  in_flight,       \* Worker::in_flight
  emit,            \* where the caller of emit is
  emits,           \* emit calls so far
  join_task        \* where each join task is

budgetVars == <<active, rejected, timed_out, status>>
cleanupVars == <<cleanup, cleanup_active, join_task>>
emitVars == <<in_flight, emit, emits>>
callbackVars == <<callback, events, outcomes, event>>
runtimeVars == <<budgetVars, cleanupVars, emitVars, callbackVars, start>>

\* acquired: holds a permit; prepared: and the runtime's cleanup; reserved: and a join
\* slot; open: the caller has the Worker; dropped: it dropped it.
StartStates == {"new", "acquired", "prepared", "reserved", "open", "dropped", "failed"}
\* returned: run() returned or unwound; exited: thread-local destructors ended too.
LoopStates == {"none", "recv", "callback", "succeeded", "failed", "returned", "exited"}
\* released: the permit was dropped and the join slot not yet.
JoinStates == {"none", "pending", "queued", "joining", "released", "done"}

RuntimeInit ==
  /\ active = 0 /\ rejected = 0 /\ timed_out = 0
  /\ cleanup = FALSE /\ cleanup_active = 0
  /\ start = [s \in Sinks |-> "new"]
  /\ status = [s \in Sinks |-> "None"]
  /\ callback = [s \in Sinks |-> "none"]
  /\ events = [s \in Sinks |-> <<>>]
  /\ outcomes = [s \in Sinks |-> <<>>]
  /\ event = [s \in Sinks |-> 0]
  /\ in_flight = [s \in Sinks |-> FALSE]
  /\ emit = [s \in Sinks |-> "idle"]
  /\ emits = [s \in Sinks |-> 0]
  /\ join_task = [s \in Sinks |-> "none"]

-----------------------------------------------------------------------------
SinksIn(r) == {s \in Sinks : join_task[s] = r}

\* try_transfer of the join tasks of S to the service's channel of `capacity` tasks.
SinksTransferred(S) ==
  LET room == runtime_capacity - Cardinality(SinksIn("queued"))
      taken(Q) == Cardinality(Q) = IF Cardinality(S) <= room THEN Cardinality(S) ELSE room
  IN  {[s \in Sinks |-> IF s \in Q THEN "queued" ELSE IF s \in S THEN "pending" ELSE join_task[s]] :
         Q \in {Q \in SUBSET S : taken(Q)}}

\* retry_pending: refused transfers are offered again.
retry_pending == join_task' \in SinksTransferred(SinksIn("pending"))

\* WorkerPermit::drop
DropPermit(s) ==
  /\ timed_out' = IF status[s] = "TimedOut" THEN timed_out - 1 ELSE timed_out
  /\ status' = [status EXCEPT ![s] = "Finished"]
  /\ active' = active - 1
  /\ UNCHANGED rejected

-----------------------------------------------------------------------------
\* new_in_with: WorkerBudget::acquire takes a permit ...
Acquire(s) ==
  /\ start[s] = "new"
  /\ active < runtime_capacity
  /\ active' = active + 1
  /\ status' = [status EXCEPT ![s] = "Running"]
  /\ start' = [start EXCEPT ![s] = "acquired"]
  /\ retry_pending
  /\ UNCHANGED <<rejected, timed_out, cleanup, cleanup_active, emitVars, callbackVars>>

\* ... or counts a refusal.
Reject(s) ==
  /\ start[s] = "new"
  /\ active >= runtime_capacity
  /\ rejected' = rejected + 1
  /\ start' = [start EXCEPT ![s] = "failed"]
  /\ retry_pending
  /\ UNCHANGED <<active, timed_out, status, cleanup, cleanup_active, emitVars, callbackVars>>

\* The cleanup service is created by the first sink that needs it.
Prepare(s) ==
  /\ start[s] = "acquired"
  /\ cleanup' = TRUE
  /\ start' = [start EXCEPT ![s] = "prepared"]
  /\ UNCHANGED <<budgetVars, cleanup_active, join_task, emitVars, callbackVars>>

\* Its reaper threads could not be started: the permit is dropped.
PrepareFailed(s) ==
  /\ start[s] = "acquired"
  /\ ~cleanup
  /\ DropPermit(s)
  /\ start' = [start EXCEPT ![s] = "failed"]
  /\ UNCHANGED <<cleanupVars, emitVars, callbackVars>>

\* ThreadCleanup::reserve succeeds; WouldBlock yields and tries again.
Reserve(s) ==
  /\ start[s] = "prepared"
  /\ cleanup_active < runtime_capacity
  /\ cleanup_active' = cleanup_active + 1
  /\ start' = [start EXCEPT ![s] = "reserved"]
  /\ retry_pending
  /\ UNCHANGED <<budgetVars, cleanup, emitVars, callbackVars>>

\* The thread starts and its join task, which owns the permit and the join slot, is
\* attached; a refused transfer is retried at once.
Spawn(s) ==
  /\ start[s] = "reserved"
  /\ start' = [start EXCEPT ![s] = "open"]
  /\ callback' = [callback EXCEPT ![s] = "recv"]
  /\ join_task' \in SinksTransferred(SinksIn("pending") \cup {s})
  /\ UNCHANGED <<budgetVars, cleanup, cleanup_active, emitVars, events, outcomes, event>>

\* The thread cannot be started: the join slot is dropped and then the permit.
SpawnFailed(s) ==
  /\ start[s] = "reserved"
  /\ start' = [start EXCEPT ![s] = "failed"]
  /\ cleanup_active' = cleanup_active - 1
  /\ DropPermit(s)
  /\ retry_pending
  /\ UNCHANGED <<cleanup, emitVars, callbackVars>>

-----------------------------------------------------------------------------
Disconnected(s) == callback[s] \in {"returned", "exited"}

CanEmit(s) == start[s] = "open" /\ emit[s] = "idle" /\ emits[s] < MaxEmits

\* emit: an earlier event is still in flight.
EmitRefused(s) ==
  /\ CanEmit(s)
  /\ in_flight[s]
  /\ emits' = [emits EXCEPT ![s] = @ + 1]
  /\ retry_pending
  /\ UNCHANGED <<budgetVars, cleanup, cleanup_active, in_flight, emit, callbackVars, start>>

\* emit: try_send is refused, the thread being gone or the channel full.
EmitUnsent(s) ==
  /\ CanEmit(s)
  /\ ~in_flight[s]
  /\ Disconnected(s) \/ Len(events[s]) = 1
  /\ emits' = [emits EXCEPT ![s] = @ + 1]
  /\ retry_pending
  /\ UNCHANGED <<budgetVars, cleanup, cleanup_active, in_flight, emit, callbackVars, start>>

\* emit: the event is sent and its caller waits.
EmitSent(s) ==
  /\ CanEmit(s)
  /\ ~in_flight[s]
  /\ ~Disconnected(s) /\ events[s] = <<>>
  /\ emits' = [emits EXCEPT ![s] = @ + 1]
  /\ events' = [events EXCEPT ![s] = <<emits[s] + 1>>]
  /\ in_flight' = [in_flight EXCEPT ![s] = TRUE]
  /\ emit' = [emit EXCEPT ![s] = "waiting"]
  /\ retry_pending
  /\ UNCHANGED <<budgetVars, cleanup, cleanup_active, callback, outcomes, event, start>>

\* emit: recv_timeout returns the outcome, or finds the worker gone without one.  The
\* last deadline check may still fail, and then the caller goes on to mark_timed_out.
EmitAnswered(s) ==
  /\ emit[s] = "waiting"
  /\ outcomes[s] # <<>> \/ Disconnected(s)
  /\ outcomes' = [outcomes EXCEPT ![s] = <<>>]
  /\ in_flight' = [in_flight EXCEPT ![s] = FALSE]
  /\ \E next \in {"idle", "late"} : emit' = [emit EXCEPT ![s] = next]
  /\ UNCHANGED <<budgetVars, cleanupVars, emits, callback, events, event, start>>

\* emit: the deadline passes (or is cancelled) first; the event stays in flight.
EmitTimeout(s) ==
  /\ emit[s] = "waiting"
  /\ emit' = [emit EXCEPT ![s] = "late"]
  /\ UNCHANGED <<budgetVars, cleanupVars, in_flight, emits, callbackVars, start>>

\* Mutant of MarkTimedOut: the state is not looked at.
MarkTimedOutBlindly(s) ==
  /\ emit[s] = "late"
  /\ timed_out' = timed_out + 1
  /\ status' = [status EXCEPT ![s] = "TimedOut"]
  /\ emit' = [emit EXCEPT ![s] = "idle"]
  /\ UNCHANGED <<active, rejected, cleanupVars, in_flight, emits, callbackVars, start>>

\* WorkerStatus::mark_timed_out
MarkTimedOut(s) ==
  /\ emit[s] = "late"
  /\ IF status[s] = "Running"
     THEN /\ timed_out' = timed_out + 1
          /\ status' = [status EXCEPT ![s] = "TimedOut"]
     ELSE UNCHANGED <<timed_out, status>>
  /\ emit' = [emit EXCEPT ![s] = "idle"]
  /\ UNCHANGED <<active, rejected, cleanupVars, in_flight, emits, callbackVars, start>>

\* Worker::drop: its channel ends go with it.
DropWorker(s) ==
  /\ start[s] = "open" /\ emit[s] = "idle"
  /\ start' = [start EXCEPT ![s] = "dropped"]
  /\ outcomes' = [outcomes EXCEPT ![s] = <<>>]
  /\ retry_pending
  /\ UNCHANGED <<budgetVars, cleanup, cleanup_active, emitVars, callback, events, event>>

-----------------------------------------------------------------------------
\* Callback::run: an event arrives; one sent before the handle was dropped still does.
LoopRecv(s) ==
  /\ callback[s] = "recv"
  /\ events[s] # <<>>
  /\ event' = [event EXCEPT ![s] = Head(events[s])]
  /\ events' = [events EXCEPT ![s] = <<>>]
  /\ callback' = [callback EXCEPT ![s] = "callback"]
  /\ UNCHANGED <<budgetVars, cleanupVars, emitVars, outcomes, start>>

\* Callback::run: the sender is gone and nothing is queued.
LoopClosed(s) ==
  /\ callback[s] = "recv"
  /\ events[s] = <<>>
  /\ start[s] = "dropped"
  /\ callback' = [callback EXCEPT ![s] = "returned"]
  /\ UNCHANGED <<budgetVars, cleanupVars, emitVars, events, outcomes, event, start>>

\* The callback returns, or unwinds through run(), destroying its channel ends.
CallbackEnds(s) ==
  /\ callback[s] = "callback"
  /\ \E next \in {"succeeded", "failed", "returned"} : callback' = [callback EXCEPT ![s] = next]
  /\ UNCHANGED <<budgetVars, cleanupVars, emitVars, events, outcomes, event, start>>

\* Callback::run: the outcome is sent; the loop ends on a failed callback or when the
\* handle is gone.
Reply(s) ==
  /\ callback[s] \in {"succeeded", "failed"}
  /\ start[s] = "dropped" \/ outcomes[s] = <<>>
  /\ outcomes' = [outcomes EXCEPT ![s] = IF start[s] = "dropped" THEN <<>> ELSE <<event[s]>>]
  /\ callback' = [callback EXCEPT ![s] =
                  IF start[s] = "dropped" \/ callback[s] = "failed" THEN "returned" ELSE "recv"]
  /\ UNCHANGED <<budgetVars, cleanupVars, emitVars, events, event, start>>

\* The callback's captures and the thread-local destructors end.
LoopExit(s) ==
  /\ callback[s] = "returned"
  /\ callback' = [callback EXCEPT ![s] = "exited"]
  /\ UNCHANGED <<budgetVars, cleanupVars, emitVars, events, outcomes, event, start>>

\* run_reaper: one of `capacity` reaper threads takes a join task.
ReapTake(s) ==
  /\ join_task[s] = "queued"
  /\ Cardinality(SinksIn("joining") \cup SinksIn("released")) < runtime_capacity
  /\ join_task' = [join_task EXCEPT ![s] = "joining"]
  /\ UNCHANGED <<budgetVars, cleanup, cleanup_active, emitVars, callbackVars, start>>

\* attach's task: join() returned, so the owner, the permit, is dropped ...
ReaperDropsOwner(s) ==
  /\ join_task[s] = "joining"
  /\ callback[s] = "exited"
  /\ DropPermit(s)
  /\ join_task' = [join_task EXCEPT ![s] = "released"]
  /\ UNCHANGED <<cleanup, cleanup_active, emitVars, callbackVars, start>>

\* ... and then the join slot.
ReaperDropsSlot(s) ==
  /\ join_task[s] = "released"
  /\ cleanup_active' = cleanup_active - 1
  /\ join_task' = [join_task EXCEPT ![s] = "done"]
  /\ UNCHANGED <<budgetVars, cleanup, emitVars, callbackVars, start>>

-----------------------------------------------------------------------------
NewIn(s) == Acquire(s) \/ Reject(s) \/ Prepare(s) \/ PrepareFailed(s) \/ Reserve(s) \/ Spawn(s) \/ SpawnFailed(s)
Emit(s) == EmitRefused(s) \/ EmitUnsent(s) \/ EmitSent(s)
Wait(s) == EmitAnswered(s) \/ EmitTimeout(s) \/ MarkTimedOut(s)
Loop(s) == LoopRecv(s) \/ LoopClosed(s) \/ Reply(s) \/ LoopExit(s)
ReapSink(s) == ReapTake(s) \/ ReaperDropsOwner(s) \/ ReaperDropsSlot(s)

RuntimeNext ==
  \E s \in Sinks : NewIn(s) \/ Emit(s) \/ Wait(s) \/ DropWorker(s) \/ Loop(s) \/ CallbackEnds(s) \/ ReapSink(s)

RuntimeSpec == RuntimeInit /\ [][RuntimeNext]_runtimeVars

\* Threads run and deadlines pass; a callback need never return.
RuntimeFairSpec ==
  /\ RuntimeSpec
  /\ \A s \in Sinks : /\ WF_runtimeVars(NewIn(s) \/ Wait(s))
                      /\ WF_runtimeVars(Loop(s)) /\ WF_runtimeVars(ReapSink(s))

-----------------------------------------------------------------------------
\* Type invariant.
RuntimeTypeOK ==
  /\ active \in Nat /\ rejected \in Nat /\ timed_out \in Nat /\ cleanup_active \in Nat
  /\ cleanup \in BOOLEAN
  /\ start \in [Sinks -> StartStates]
  /\ status \in [Sinks -> {"None", "Running", "TimedOut", "Finished"}]
  /\ callback \in [Sinks -> LoopStates]
  /\ events \in [Sinks -> Seq(1 .. MaxEmits)]
  /\ outcomes \in [Sinks -> Seq(1 .. MaxEmits)]
  /\ event \in [Sinks -> 0 .. MaxEmits]
  /\ in_flight \in [Sinks -> BOOLEAN]
  /\ emit \in [Sinks -> {"idle", "waiting", "late"}]
  /\ emits \in [Sinks -> 0 .. MaxEmits]
  /\ join_task \in [Sinks -> JoinStates]

Permitted == {s \in Sinks : status[s] \in {"Running", "TimedOut"}}

\* RuntimeSnapshot is exact and bounded: `active` counts the permits alive, and
\* `timed_out_retaining_capacity` those of them marked, although marking races the
\* reaper that drops the permit.  "The external join owner retains admission through their
\* destruction and all thread TLS": a thread that can still run code has its permit,
\* dropped handle or not.
SnapshotExact ==
  /\ RuntimeTypeOK
  /\ active = Cardinality(Permitted) /\ active <= runtime_capacity
  /\ timed_out = Cardinality({s \in Sinks : status[s] = "TimedOut"})
  /\ \A s \in Sinks : callback[s] \notin {"none", "exited"} => s \in Permitted

\* new_in_with's spin: "exhaustion can only overlap an earlier reaper returning its slot
\* just after releasing that permit".  attach's debug_assert and start_reaper's sizing: a
\* join task is never refused and never waits for a reaper thread.
SpinIsBrief ==
  /\ (\E s \in Sinks : start[s] = "prepared") /\ cleanup_active >= runtime_capacity
        => SinksIn("released") # {}
  /\ SinksIn("pending") = {}
  /\ Cardinality(SinksIn("queued") \cup SinksIn("joining") \cup SinksIn("released")) <= runtime_capacity

\* emit returns the outcome of its own event, also after an earlier emit timed out.
\* in_flight keeps the two one-place channels from filling: try_send never reports
\* "accepted more than one queued event", and the callback thread never blocks in send.
AnswersMatch ==
  \A s \in Sinks :
    /\ emit[s] = "waiting" /\ outcomes[s] # <<>> => Head(outcomes[s]) = emits[s]
    /\ start[s] = "open" /\ ~in_flight[s] => events[s] = <<>>
    /\ callback[s] \in {"succeeded", "failed"} => outcomes[s] = <<>>

\* What a runtime reports, and what its sinks are told, is exact.
SinksExact == SnapshotExact /\ SpinIsBrief /\ AnswersMatch

\* Starting a sink and emitting return even when every callback hangs, and only a callback
\* that never returns can keep the capacity of a dropped sink.
RuntimeEnded ==
  \A s \in Sinks :
    /\ start[s] \in {"new", "open", "dropped", "failed"} /\ emit[s] = "idle"
    /\ start[s] = "dropped" => join_task[s] = "done" \/ callback[s] = "callback"
SinksEnd == []<>RuntimeEnded

-----------------------------------------------------------------------------
(* The inductive invariant of SinksExact. *)

Marked == {s \in Sinks : status[s] = "TimedOut"}

\* The sinks that hold a join slot.
JoinSlots == {s \in Sinks : start[s] = "reserved" \/ join_task[s] \in {"queued", "joining", "released"}}

Busy(s) == callback[s] \in {"callback", "succeeded", "failed"}

\* A permit follows its sink from acquire to the end of the join task.
PermitFollows(s) ==
  /\ start[s] = "new" => status[s] = "None"
  /\ start[s] \in {"acquired", "prepared", "reserved"} => status[s] = "Running"
  /\ start[s] = "failed" => status[s] \in {"None", "Finished"}
  /\ start[s] \in {"open", "dropped"} <=> callback[s] # "none"
  /\ callback[s] = "none" <=> join_task[s] = "none"
  /\ join_task[s] # "pending"
  /\ join_task[s] \in {"queued", "joining"} => status[s] \in {"Running", "TimedOut"}
  /\ join_task[s] \in {"released", "done"} => status[s] = "Finished" /\ callback[s] = "exited"

\* One event is out at a time, in one place, and a caller waits only for the last it sent.
EventFollows(s) ==
  /\ ~in_flight[s] => events[s] = <<>> /\ outcomes[s] = <<>> /\ ~Busy(s)
  /\ callback[s] = "none" => ~in_flight[s]
  /\ events[s] # <<>> => callback[s] = "recv" /\ outcomes[s] = <<>>
  /\ Busy(s) => outcomes[s] = <<>> /\ event[s] # 0
  /\ emit[s] # "idle" => start[s] = "open"
  /\ emit[s] = "waiting" =>
       /\ in_flight[s]
       /\ events[s] # <<>> => Head(events[s]) = emits[s]
       /\ outcomes[s] # <<>> => Head(outcomes[s]) = emits[s]
       /\ Busy(s) => event[s] = emits[s]

RuntimeInv ==
  /\ RuntimeTypeOK
  /\ active = Cardinality(Permitted) /\ active <= runtime_capacity
  /\ timed_out = Cardinality(Marked)
  /\ cleanup_active = Cardinality(JoinSlots) /\ cleanup_active <= runtime_capacity
  /\ \A s \in Sinks : PermitFollows(s) /\ EventFollows(s)
=============================================================================
