---------------------------- MODULE RuntimeProofs ----------------------------
(***************************************************************************)
(* Proofs about publication workers, for any number of sinks, any capacity *)
(* and any number of events.                                               *)
(***************************************************************************)
EXTENDS PublicationRuntime, FiniteSetTheorems, TLAPS

\* The steps of one sink: its start, its caller, its thread and its join task.
SinkStep(s) ==
  NewIn(s) \/ Emit(s) \/ Wait(s) \/ DropWorker(s) \/ Loop(s) \/ CallbackEnds(s) \/ ReapSink(s)

\* Nothing about sink s changes.
Untouched(s) ==
  /\ start'[s] = start[s] /\ status'[s] = status[s] /\ callback'[s] = callback[s]
  /\ join_task'[s] = join_task[s]
  /\ events'[s] = events[s] /\ outcomes'[s] = outcomes[s] /\ event'[s] = event[s]
  /\ in_flight'[s] = in_flight[s] /\ emit'[s] = emit[s] /\ emits'[s] = emits[s]

\* The types of what is kept of every sink.
SinkTypes ==
  /\ start \in [Sinks -> StartStates]
  /\ status \in [Sinks -> {"None", "Running", "TimedOut", "Finished"}]
  /\ callback \in [Sinks -> LoopStates]
  /\ events \in [Sinks -> Seq(1 .. MaxEmits)] /\ outcomes \in [Sinks -> Seq(1 .. MaxEmits)]
  /\ event \in [Sinks -> 0 .. MaxEmits] /\ in_flight \in [Sinks -> BOOLEAN]
  /\ emit \in [Sinks -> {"idle", "waiting", "late"}]
  /\ emits \in [Sinks -> 0 .. MaxEmits] /\ join_task \in [Sinks -> JoinStates]

\* A counter moves by one when the sink of the step enters or leaves what it counts.
Moves(n, m, before, after) ==
  \/ m = n /\ (before <=> after)
  \/ m = n + 1 /\ ~before /\ after
  \/ m = n - 1 /\ before /\ ~after

Tally(s) ==
  /\ Moves(active, active', s \in Permitted, s \in Permitted')
  /\ Moves(timed_out, timed_out', s \in Marked, s \in Marked')
  /\ Moves(cleanup_active, cleanup_active', s \in JoinSlots, s \in JoinSlots')
  /\ active' <= runtime_capacity /\ cleanup_active' <= runtime_capacity
  /\ rejected' \in Nat /\ cleanup' \in BOOLEAN

-----------------------------------------------------------------------------
\* The sizes of two sets that differ at most in one element.
LEMMA Sizes ==
  ASSUME NEW U, IsFiniteSet(U), NEW S \in SUBSET U, NEW T \in SUBSET U, NEW s \in U,
         \A t \in U \ {s} : t \in S <=> t \in T
  PROVE  /\ Cardinality(S) \in Nat /\ Cardinality(T) \in Nat
         /\ (s \in S <=> s \in T) => Cardinality(T) = Cardinality(S)
         /\ s \notin S /\ s \in T => Cardinality(T) = Cardinality(S) + 1
         /\ s \in S /\ s \notin T => Cardinality(T) = Cardinality(S) - 1
<1>1. IsFiniteSet(S) /\ IsFiniteSet(T)
  BY FS_Subset
<1>2. Cardinality(S) \in Nat /\ Cardinality(T) \in Nat
  BY <1>1, FS_CardinalityType
<1>3. ASSUME s \in S <=> s \in T PROVE T = S
  BY <1>3
<1>4. ASSUME s \notin S, s \in T PROVE Cardinality(T) = Cardinality(S) + 1
  <2>1. T = S \cup {s}
    BY <1>4
  <2> QED BY <1>1, <1>4, <2>1, FS_AddElement
<1>5. ASSUME s \in S, s \notin T PROVE Cardinality(T) = Cardinality(S) - 1
  <2>1. T = S \ {s}
    BY <1>5
  <2> QED BY <1>1, <1>5, <2>1, FS_RemoveElement
<1> QED BY <1>2, <1>3, <1>4, <1>5

\* A counter that moves so stays the size of what it counts.
LEMMA Recount ==
  ASSUME NEW U, IsFiniteSet(U), NEW S \in SUBSET U, NEW T \in SUBSET U, NEW s \in U,
         \A t \in U \ {s} : t \in S <=> t \in T,
         NEW n, NEW m, n = Cardinality(S), Moves(n, m, s \in S, s \in T)
  PROVE  m = Cardinality(T) /\ m \in Nat
BY Sizes DEF Moves

LEMMA HeadIn == ASSUME NEW S, NEW q \in Seq(S), q # <<>> PROVE Head(q) \in S
BY SMT

\* No transfer is refused, so there is nothing to offer again.
LEMMA RetryNothing ==
  ASSUME RuntimeInv, retry_pending
  PROVE  join_task' = join_task
<1>1. SinksIn("pending") = {}
  BY DEF RuntimeInv, PermitFollows, SinksIn
<1>2. PICK Q \in SUBSET {} : join_task' = [s \in Sinks |-> IF s \in Q THEN "queued" ELSE IF s \in {} THEN "pending" ELSE join_task[s]]
  BY <1>1 DEF retry_pending, SinksTransferred
<1>3. join_task' = [s \in Sinks |-> join_task[s]]
  BY <1>2
<1> QED BY <1>3 DEF RuntimeInv, RuntimeTypeOK

\* The service's channel has room for the join task of a sink that holds a slot.
LEMMA SpawnQueued ==
  ASSUME RuntimeAssumption, RuntimeInv, NEW s \in Sinks, Spawn(s)
  PROVE  join_task' = [join_task EXCEPT ![s] = "queued"]
<1> DEFINE room == runtime_capacity - Cardinality(SinksIn("queued"))
<1>1. SinksIn("pending") \cup {s} = {s}
  BY DEF RuntimeInv, PermitFollows, SinksIn
<1>2. Cardinality({s}) = 1
  BY Zenon, FS_Singleton
<1>3. s \notin SinksIn("queued") /\ SinksIn("queued") \cup {s} \subseteq JoinSlots
  BY DEF Spawn, RuntimeInv, PermitFollows, SinksIn, JoinSlots
<1>4. IsFiniteSet(JoinSlots) /\ IsFiniteSet(SinksIn("queued"))
  BY FS_Subset DEF RuntimeAssumption, JoinSlots, SinksIn
<1>5. Cardinality(SinksIn("queued") \cup {s}) = Cardinality(SinksIn("queued")) + 1
  BY Zenon, <1>3, <1>4, FS_AddElement
<1>6. Cardinality(SinksIn("queued") \cup {s}) <= Cardinality(JoinSlots)
  BY <1>3, <1>4, FS_Subset
<1>7. room \in Int /\ 1 <= room
  <2>1. Cardinality(SinksIn("queued")) \in Nat /\ Cardinality(JoinSlots) \in Nat /\ runtime_capacity \in Nat
    BY <1>4, FS_CardinalityType DEF RuntimeAssumption, RuntimeCapacityAssumption
  <2>2. Cardinality(JoinSlots) <= runtime_capacity
    BY DEF RuntimeInv
  <2> QED BY <1>5, <1>6, <2>1, <2>2
<1>8. PICK Q \in SUBSET {s} :
        /\ Cardinality(Q) = IF Cardinality({s}) <= room THEN Cardinality({s}) ELSE room
        /\ join_task' = [t \in Sinks |-> IF t \in Q THEN "queued" ELSE IF t \in {s} THEN "pending" ELSE join_task[t]]
  <2>1. join_task' \in SinksTransferred({s})
    BY Zenon, <1>1 DEF Spawn
  <2> QED BY <2>1 DEF SinksTransferred
<1>9. Cardinality(Q) = 1
  BY <1>2, <1>7, <1>8
<1>10. Q = {s}
  <2>1. Q # {}
    BY <1>9, FS_EmptySet
  <2> QED BY <2>1
<1>11. join_task' = [t \in Sinks |-> IF t = s THEN "queued" ELSE join_task[t]]
  BY <1>8, <1>10
<1> QED BY Zenon, <1>11 DEF RuntimeInv, RuntimeTypeOK

-----------------------------------------------------------------------------
\* A step of a sink leaves the others alone, keeps its own permit, thread, join task and event
\* in order, and moves the counters with them.
LEMMA SinkSteps ==
  ASSUME RuntimeAssumption, RuntimeInv, NEW s \in Sinks, SinkStep(s)
  PROVE  /\ \A t \in Sinks \ {s} : Untouched(t)
         /\ PermitFollows(s)' /\ EventFollows(s)' /\ Tally(s) /\ SinkTypes'
<1>a. PermitFollows(s) /\ EventFollows(s)
  BY DEF RuntimeInv
<1>b. SinkTypes /\ rejected \in Nat /\ cleanup \in BOOLEAN /\ MaxEmits \in Nat
  BY DEF RuntimeInv, RuntimeTypeOK, SinkTypes, RuntimeAssumption, MaxEmitsAssumption
<1>c. active <= runtime_capacity /\ cleanup_active <= runtime_capacity /\ active \in Nat /\ cleanup_active \in Nat /\ runtime_capacity \in Nat
  BY DEF RuntimeInv, RuntimeTypeOK, RuntimeAssumption, RuntimeCapacityAssumption
<1> USE <1>a, <1>b, <1>c DEF SinkTypes, budgetVars, cleanupVars, emitVars, callbackVars
<1>1. CASE Acquire(s)
  <2>r. join_task' = join_task
    BY <1>1, RetryNothing DEF Acquire
  <2>1. /\ start[s] = "new"
        /\ start'[s] = "acquired" /\ status'[s] = "Running" /\ callback'[s] = callback[s]
        /\ join_task'[s] = join_task[s]
        /\ events'[s] = events[s] /\ outcomes'[s] = outcomes[s] /\ event'[s] = event[s]
        /\ in_flight'[s] = in_flight[s] /\ emit'[s] = emit[s] /\ emits'[s] = emits[s]
        /\ active' = active + 1 /\ active < runtime_capacity /\ timed_out' = timed_out
        /\ cleanup_active' = cleanup_active
        /\ rejected' \in Nat /\ cleanup' \in BOOLEAN
    BY <1>1, <2>r DEF Acquire
  <2>2. \A t \in Sinks \ {s} : Untouched(t)
    BY Zenon, <1>1, <2>r DEF Acquire, Untouched
  <2>3. PermitFollows(s)'
    BY Zenon, <2>1 DEF PermitFollows
  <2>4. EventFollows(s)'
    BY Zenon, <2>1 DEF EventFollows, PermitFollows, Busy, Disconnected
  <2>k. active' <= runtime_capacity /\ cleanup_active' <= runtime_capacity
    BY <2>1
  <2>5. Tally(s)
    BY Zenon, <2>1, <2>k DEF Tally, Moves, Permitted, Marked, JoinSlots, PermitFollows
  <2>6. SinkTypes'
    BY <1>1, <2>r DEF Acquire, StartStates, LoopStates, JoinStates
  <2> QED BY Zenon, <2>2, <2>3, <2>4, <2>5, <2>6
<1>2. CASE Reject(s)
  <2>r. join_task' = join_task
    BY <1>2, RetryNothing DEF Reject
  <2>1. /\ start[s] = "new"
        /\ start'[s] = "failed" /\ status'[s] = status[s] /\ callback'[s] = callback[s]
        /\ join_task'[s] = join_task[s]
        /\ events'[s] = events[s] /\ outcomes'[s] = outcomes[s] /\ event'[s] = event[s]
        /\ in_flight'[s] = in_flight[s] /\ emit'[s] = emit[s] /\ emits'[s] = emits[s]
        /\ active' = active /\ timed_out' = timed_out /\ cleanup_active' = cleanup_active
        /\ rejected' \in Nat /\ cleanup' \in BOOLEAN
    BY <1>2, <2>r DEF Reject
  <2>2. \A t \in Sinks \ {s} : Untouched(t)
    BY Zenon, <1>2, <2>r DEF Reject, Untouched
  <2>3. PermitFollows(s)'
    BY Zenon, <2>1 DEF PermitFollows
  <2>4. EventFollows(s)'
    BY Zenon, <2>1 DEF EventFollows, PermitFollows, Busy, Disconnected
  <2>5. Tally(s)
    BY Zenon, <2>1 DEF Tally, Moves, Permitted, Marked, JoinSlots, PermitFollows
  <2>6. SinkTypes'
    BY <1>2, <2>r DEF Reject, StartStates, LoopStates, JoinStates
  <2> QED BY Zenon, <2>2, <2>3, <2>4, <2>5, <2>6
<1>3. CASE Prepare(s)
  <2>1. /\ start[s] = "acquired"
        /\ start'[s] = "prepared" /\ status'[s] = status[s] /\ callback'[s] = callback[s]
        /\ join_task'[s] = join_task[s]
        /\ events'[s] = events[s] /\ outcomes'[s] = outcomes[s] /\ event'[s] = event[s]
        /\ in_flight'[s] = in_flight[s] /\ emit'[s] = emit[s] /\ emits'[s] = emits[s]
        /\ active' = active /\ timed_out' = timed_out /\ cleanup_active' = cleanup_active
        /\ rejected' \in Nat /\ cleanup' \in BOOLEAN
    BY <1>3 DEF Prepare
  <2>2. \A t \in Sinks \ {s} : Untouched(t)
    BY Zenon, <1>3 DEF Prepare, Untouched
  <2>3. PermitFollows(s)'
    BY Zenon, <2>1 DEF PermitFollows
  <2>4. EventFollows(s)'
    BY Zenon, <2>1 DEF EventFollows, PermitFollows, Busy, Disconnected
  <2>5. Tally(s)
    BY Zenon, <2>1 DEF Tally, Moves, Permitted, Marked, JoinSlots, PermitFollows
  <2>6. SinkTypes'
    BY <1>3 DEF Prepare, StartStates, LoopStates, JoinStates
  <2> QED BY Zenon, <2>2, <2>3, <2>4, <2>5, <2>6
<1>4. CASE PrepareFailed(s)
  <2>1. /\ start[s] = "acquired"
        /\ start'[s] = "failed" /\ status'[s] = "Finished" /\ callback'[s] = callback[s]
        /\ join_task'[s] = join_task[s]
        /\ events'[s] = events[s] /\ outcomes'[s] = outcomes[s] /\ event'[s] = event[s]
        /\ in_flight'[s] = in_flight[s] /\ emit'[s] = emit[s] /\ emits'[s] = emits[s]
        /\ active' = active - 1
        /\ timed_out' = (IF status[s] = "TimedOut" THEN timed_out - 1 ELSE timed_out)
        /\ cleanup_active' = cleanup_active
        /\ rejected' \in Nat /\ cleanup' \in BOOLEAN
    BY <1>4 DEF PrepareFailed, DropPermit
  <2>2. \A t \in Sinks \ {s} : Untouched(t)
    BY Zenon, <1>4 DEF PrepareFailed, DropPermit, Untouched
  <2>3. PermitFollows(s)'
    BY Zenon, <2>1 DEF PermitFollows
  <2>4. EventFollows(s)'
    BY Zenon, <2>1 DEF EventFollows, PermitFollows, Busy, Disconnected
  <2>k. active' <= runtime_capacity /\ cleanup_active' <= runtime_capacity
    BY <2>1
  <2>5. Tally(s)
    BY Zenon, <2>1, <2>k DEF Tally, Moves, Permitted, Marked, JoinSlots, PermitFollows
  <2>6. SinkTypes'
    BY <1>4 DEF PrepareFailed, DropPermit, StartStates, LoopStates, JoinStates
  <2> QED BY Zenon, <2>2, <2>3, <2>4, <2>5, <2>6
<1>5. CASE Reserve(s)
  <2>r. join_task' = join_task
    BY <1>5, RetryNothing DEF Reserve
  <2>1. /\ start[s] = "prepared"
        /\ start'[s] = "reserved" /\ status'[s] = status[s] /\ callback'[s] = callback[s]
        /\ join_task'[s] = join_task[s]
        /\ events'[s] = events[s] /\ outcomes'[s] = outcomes[s] /\ event'[s] = event[s]
        /\ in_flight'[s] = in_flight[s] /\ emit'[s] = emit[s] /\ emits'[s] = emits[s]
        /\ cleanup_active' = cleanup_active + 1 /\ cleanup_active < runtime_capacity /\ active' = active
        /\ timed_out' = timed_out
        /\ rejected' \in Nat /\ cleanup' \in BOOLEAN
    BY <1>5, <2>r DEF Reserve
  <2>2. \A t \in Sinks \ {s} : Untouched(t)
    BY Zenon, <1>5, <2>r DEF Reserve, Untouched
  <2>3. PermitFollows(s)'
    BY Zenon, <2>1 DEF PermitFollows
  <2>4. EventFollows(s)'
    BY Zenon, <2>1 DEF EventFollows, PermitFollows, Busy, Disconnected
  <2>k. active' <= runtime_capacity /\ cleanup_active' <= runtime_capacity
    BY <2>1
  <2>5. Tally(s)
    BY Zenon, <2>1, <2>k DEF Tally, Moves, Permitted, Marked, JoinSlots, PermitFollows
  <2>6. SinkTypes'
    BY <1>5, <2>r DEF Reserve, StartStates, LoopStates, JoinStates
  <2> QED BY Zenon, <2>2, <2>3, <2>4, <2>5, <2>6
<1>6. CASE Spawn(s)
  <2>r. join_task' = [join_task EXCEPT ![s] = "queued"]
    BY <1>6, SpawnQueued
  <2>1. /\ start[s] = "reserved"
        /\ start'[s] = "open" /\ status'[s] = status[s] /\ callback'[s] = "recv"
        /\ join_task'[s] = "queued"
        /\ events'[s] = events[s] /\ outcomes'[s] = outcomes[s] /\ event'[s] = event[s]
        /\ in_flight'[s] = in_flight[s] /\ emit'[s] = emit[s] /\ emits'[s] = emits[s]
        /\ active' = active /\ timed_out' = timed_out /\ cleanup_active' = cleanup_active
        /\ rejected' \in Nat /\ cleanup' \in BOOLEAN
    BY <1>6, <2>r DEF Spawn
  <2>2. \A t \in Sinks \ {s} : Untouched(t)
    BY Zenon, <1>6, <2>r DEF Spawn, Untouched
  <2>3. PermitFollows(s)'
    BY Zenon, <2>1 DEF PermitFollows
  <2>4. EventFollows(s)'
    BY Zenon, <2>1 DEF EventFollows, PermitFollows, Busy, Disconnected
  <2>5. Tally(s)
    BY Zenon, <2>1 DEF Tally, Moves, Permitted, Marked, JoinSlots, PermitFollows
  <2>6. SinkTypes'
    BY <1>6, <2>r DEF Spawn, StartStates, LoopStates, JoinStates
  <2> QED BY Zenon, <2>2, <2>3, <2>4, <2>5, <2>6
<1>7. CASE SpawnFailed(s)
  <2>r. join_task' = join_task
    BY <1>7, RetryNothing DEF SpawnFailed
  <2>1. /\ start[s] = "reserved"
        /\ start'[s] = "failed" /\ status'[s] = "Finished" /\ callback'[s] = callback[s]
        /\ join_task'[s] = join_task[s]
        /\ events'[s] = events[s] /\ outcomes'[s] = outcomes[s] /\ event'[s] = event[s]
        /\ in_flight'[s] = in_flight[s] /\ emit'[s] = emit[s] /\ emits'[s] = emits[s]
        /\ active' = active - 1
        /\ timed_out' = (IF status[s] = "TimedOut" THEN timed_out - 1 ELSE timed_out)
        /\ cleanup_active' = cleanup_active - 1
        /\ rejected' \in Nat /\ cleanup' \in BOOLEAN
    BY <1>7, <2>r DEF SpawnFailed, DropPermit
  <2>2. \A t \in Sinks \ {s} : Untouched(t)
    BY Zenon, <1>7, <2>r DEF SpawnFailed, DropPermit, Untouched
  <2>3. PermitFollows(s)'
    BY Zenon, <2>1 DEF PermitFollows
  <2>4. EventFollows(s)'
    BY Zenon, <2>1 DEF EventFollows, PermitFollows, Busy, Disconnected
  <2>k. active' <= runtime_capacity /\ cleanup_active' <= runtime_capacity
    BY <2>1
  <2>5. Tally(s)
    BY Zenon, <2>1, <2>k DEF Tally, Moves, Permitted, Marked, JoinSlots, PermitFollows
  <2>6. SinkTypes'
    BY <1>7, <2>r DEF SpawnFailed, DropPermit, StartStates, LoopStates, JoinStates
  <2> QED BY Zenon, <2>2, <2>3, <2>4, <2>5, <2>6
<1>8. CASE EmitRefused(s)
  <2>r. join_task' = join_task
    BY <1>8, RetryNothing DEF EmitRefused
  <2>1. /\ start[s] = "open" /\ emit[s] = "idle"
        /\ start'[s] = start[s] /\ status'[s] = status[s] /\ callback'[s] = callback[s]
        /\ join_task'[s] = join_task[s]
        /\ events'[s] = events[s] /\ outcomes'[s] = outcomes[s] /\ event'[s] = event[s]
        /\ in_flight'[s] = in_flight[s] /\ emit'[s] = emit[s] /\ emits'[s] = emits[s] + 1
        /\ active' = active /\ timed_out' = timed_out /\ cleanup_active' = cleanup_active
        /\ rejected' \in Nat /\ cleanup' \in BOOLEAN
    BY <1>8, <2>r DEF EmitRefused, CanEmit
  <2>2. \A t \in Sinks \ {s} : Untouched(t)
    BY Zenon, <1>8, <2>r DEF EmitRefused, CanEmit, Untouched
  <2>3. PermitFollows(s)'
    BY Zenon, <2>1 DEF PermitFollows, EventFollows
  <2>4. EventFollows(s)'
    BY Zenon, <2>1 DEF EventFollows, PermitFollows, Busy, Disconnected
  <2>5. Tally(s)
    BY Zenon, <2>1 DEF Tally, Moves, Permitted, Marked, JoinSlots, PermitFollows
  <2>v. emits[s] + 1 \in 0 .. MaxEmits
    BY <1>8, <2>1 DEF EmitRefused, CanEmit
  <2>6. SinkTypes'
    BY <1>8, <2>r, <2>v DEF EmitRefused, CanEmit, StartStates, LoopStates, JoinStates
  <2> QED BY Zenon, <2>2, <2>3, <2>4, <2>5, <2>6
<1>9. CASE EmitUnsent(s)
  <2>r. join_task' = join_task
    BY <1>9, RetryNothing DEF EmitUnsent
  <2>1. /\ start[s] = "open" /\ emit[s] = "idle"
        /\ start'[s] = start[s] /\ status'[s] = status[s] /\ callback'[s] = callback[s]
        /\ join_task'[s] = join_task[s]
        /\ events'[s] = events[s] /\ outcomes'[s] = outcomes[s] /\ event'[s] = event[s]
        /\ in_flight'[s] = in_flight[s] /\ emit'[s] = emit[s] /\ emits'[s] = emits[s] + 1
        /\ active' = active /\ timed_out' = timed_out /\ cleanup_active' = cleanup_active
        /\ rejected' \in Nat /\ cleanup' \in BOOLEAN
    BY <1>9, <2>r DEF EmitUnsent, CanEmit
  <2>2. \A t \in Sinks \ {s} : Untouched(t)
    BY Zenon, <1>9, <2>r DEF EmitUnsent, CanEmit, Untouched
  <2>3. PermitFollows(s)'
    BY Zenon, <2>1 DEF PermitFollows
  <2>4. EventFollows(s)'
    BY Zenon, <2>1 DEF EventFollows, PermitFollows, Busy, Disconnected
  <2>5. Tally(s)
    BY Zenon, <2>1 DEF Tally, Moves, Permitted, Marked, JoinSlots, PermitFollows
  <2>v. emits[s] + 1 \in 0 .. MaxEmits
    BY <1>9, <2>1 DEF EmitUnsent, CanEmit
  <2>6. SinkTypes'
    BY <1>9, <2>r, <2>v DEF EmitUnsent, CanEmit, StartStates, LoopStates, JoinStates
  <2> QED BY Zenon, <2>2, <2>3, <2>4, <2>5, <2>6
<1>10. CASE EmitSent(s)
  <2>r. join_task' = join_task
    BY <1>10, RetryNothing DEF EmitSent
  <2>1. /\ start[s] = "open" /\ emit[s] = "idle" /\ ~in_flight[s] /\ ~Disconnected(s)
        /\ events[s] = <<>>
        /\ start'[s] = start[s] /\ status'[s] = status[s] /\ callback'[s] = callback[s]
        /\ join_task'[s] = join_task[s]
        /\ events'[s] = <<emits[s] + 1>> /\ outcomes'[s] = outcomes[s] /\ event'[s] = event[s]
        /\ in_flight'[s] = TRUE /\ emit'[s] = "waiting" /\ emits'[s] = emits[s] + 1
        /\ active' = active /\ timed_out' = timed_out /\ cleanup_active' = cleanup_active
        /\ rejected' \in Nat /\ cleanup' \in BOOLEAN
    BY <1>10, <2>r DEF EmitSent, CanEmit
  <2>2. \A t \in Sinks \ {s} : Untouched(t)
    BY Zenon, <1>10, <2>r DEF EmitSent, CanEmit, Untouched
  <2>3. PermitFollows(s)'
    BY Zenon, <2>1 DEF PermitFollows
  <2>h. callback[s] \in LoopStates /\ Head(<<emits[s] + 1>>) = emits[s] + 1
    BY <2>1
  <2>4. EventFollows(s)'
    BY Zenon, <2>1, <2>h DEF EventFollows, PermitFollows, Busy, Disconnected, LoopStates
  <2>5. Tally(s)
    BY Zenon, <2>1 DEF Tally, Moves, Permitted, Marked, JoinSlots, PermitFollows
  <2>v. emits[s] + 1 \in 0 .. MaxEmits /\ <<emits[s] + 1>> \in Seq(1 .. MaxEmits)
    BY <1>10, <2>1 DEF EmitSent, CanEmit
  <2>6. SinkTypes'
    BY <1>10, <2>r, <2>v DEF EmitSent, CanEmit, StartStates, LoopStates, JoinStates
  <2> QED BY Zenon, <2>2, <2>3, <2>4, <2>5, <2>6
<1>11. CASE EmitAnswered(s)
  <2>1. /\ emit[s] = "waiting" /\ (outcomes[s] # <<>> \/ Disconnected(s))
        /\ start'[s] = start[s] /\ status'[s] = status[s] /\ callback'[s] = callback[s]
        /\ join_task'[s] = join_task[s]
        /\ events'[s] = events[s] /\ outcomes'[s] = <<>> /\ event'[s] = event[s]
        /\ in_flight'[s] = FALSE /\ emit'[s] \in {"idle", "late"} /\ emits'[s] = emits[s]
        /\ active' = active /\ timed_out' = timed_out /\ cleanup_active' = cleanup_active
        /\ rejected' \in Nat /\ cleanup' \in BOOLEAN
    BY <1>11 DEF EmitAnswered
  <2>2. \A t \in Sinks \ {s} : Untouched(t)
    BY Zenon, <1>11 DEF EmitAnswered, Untouched
  <2>3. PermitFollows(s)'
    BY Zenon, <2>1 DEF PermitFollows
  <2>4. EventFollows(s)'
    BY Zenon, <2>1 DEF EventFollows, PermitFollows, Busy, Disconnected
  <2>5. Tally(s)
    BY Zenon, <2>1 DEF Tally, Moves, Permitted, Marked, JoinSlots, PermitFollows
  <2>6. SinkTypes'
    BY <1>11 DEF EmitAnswered, StartStates, LoopStates, JoinStates
  <2> QED BY Zenon, <2>2, <2>3, <2>4, <2>5, <2>6
<1>12. CASE EmitTimeout(s)
  <2>1. /\ emit[s] = "waiting"
        /\ start'[s] = start[s] /\ status'[s] = status[s] /\ callback'[s] = callback[s]
        /\ join_task'[s] = join_task[s]
        /\ events'[s] = events[s] /\ outcomes'[s] = outcomes[s] /\ event'[s] = event[s]
        /\ in_flight'[s] = in_flight[s] /\ emit'[s] = "late" /\ emits'[s] = emits[s]
        /\ active' = active /\ timed_out' = timed_out /\ cleanup_active' = cleanup_active
        /\ rejected' \in Nat /\ cleanup' \in BOOLEAN
    BY <1>12 DEF EmitTimeout
  <2>2. \A t \in Sinks \ {s} : Untouched(t)
    BY Zenon, <1>12 DEF EmitTimeout, Untouched
  <2>3. PermitFollows(s)'
    BY Zenon, <2>1 DEF PermitFollows
  <2>4. EventFollows(s)'
    BY Zenon, <2>1 DEF EventFollows, PermitFollows, Busy, Disconnected
  <2>5. Tally(s)
    BY Zenon, <2>1 DEF Tally, Moves, Permitted, Marked, JoinSlots, PermitFollows
  <2>6. SinkTypes'
    BY <1>12 DEF EmitTimeout, StartStates, LoopStates, JoinStates
  <2> QED BY Zenon, <2>2, <2>3, <2>4, <2>5, <2>6
<1>13. CASE MarkTimedOut(s)
  <2>1. /\ emit[s] = "late"
        /\ start'[s] = start[s]
        /\ status'[s] = (IF status[s] = "Running" THEN "TimedOut" ELSE status[s])
        /\ callback'[s] = callback[s] /\ join_task'[s] = join_task[s]
        /\ events'[s] = events[s] /\ outcomes'[s] = outcomes[s] /\ event'[s] = event[s]
        /\ in_flight'[s] = in_flight[s] /\ emit'[s] = "idle" /\ emits'[s] = emits[s]
        /\ active' = active
        /\ timed_out' = (IF status[s] = "Running" THEN timed_out + 1 ELSE timed_out)
        /\ cleanup_active' = cleanup_active
        /\ rejected' \in Nat /\ cleanup' \in BOOLEAN
    BY <1>13 DEF MarkTimedOut
  <2>2. \A t \in Sinks \ {s} : Untouched(t)
    BY Zenon, <1>13 DEF MarkTimedOut, Untouched
  <2>3. PermitFollows(s)'
    BY Zenon, <2>1 DEF PermitFollows, EventFollows
  <2>4. EventFollows(s)'
    BY Zenon, <2>1 DEF EventFollows, PermitFollows, Busy, Disconnected
  <2>k. active' <= runtime_capacity /\ cleanup_active' <= runtime_capacity
    BY <2>1
  <2>5. Tally(s)
    BY Zenon, <2>1, <2>k DEF Tally, Moves, Permitted, Marked, JoinSlots, PermitFollows
  <2>6. SinkTypes'
    BY <1>13 DEF MarkTimedOut, StartStates, LoopStates, JoinStates
  <2> QED BY Zenon, <2>2, <2>3, <2>4, <2>5, <2>6
<1>14. CASE DropWorker(s)
  <2>r. join_task' = join_task
    BY <1>14, RetryNothing DEF DropWorker
  <2>1. /\ start[s] = "open" /\ emit[s] = "idle"
        /\ start'[s] = "dropped" /\ status'[s] = status[s] /\ callback'[s] = callback[s]
        /\ join_task'[s] = join_task[s]
        /\ events'[s] = events[s] /\ outcomes'[s] = <<>> /\ event'[s] = event[s]
        /\ in_flight'[s] = in_flight[s] /\ emit'[s] = emit[s] /\ emits'[s] = emits[s]
        /\ active' = active /\ timed_out' = timed_out /\ cleanup_active' = cleanup_active
        /\ rejected' \in Nat /\ cleanup' \in BOOLEAN
    BY <1>14, <2>r DEF DropWorker
  <2>2. \A t \in Sinks \ {s} : Untouched(t)
    BY Zenon, <1>14, <2>r DEF DropWorker, Untouched
  <2>3. PermitFollows(s)'
    BY Zenon, <2>1 DEF PermitFollows, EventFollows
  <2>4. EventFollows(s)'
    BY Zenon, <2>1 DEF EventFollows, PermitFollows, Busy, Disconnected
  <2>5. Tally(s)
    BY Zenon, <2>1 DEF Tally, Moves, Permitted, Marked, JoinSlots, PermitFollows
  <2>6. SinkTypes'
    BY <1>14, <2>r DEF DropWorker, StartStates, LoopStates, JoinStates
  <2> QED BY Zenon, <2>2, <2>3, <2>4, <2>5, <2>6
<1>15. CASE LoopRecv(s)
  <2>1. /\ callback[s] = "recv" /\ events[s] # <<>>
        /\ start'[s] = start[s] /\ status'[s] = status[s] /\ callback'[s] = "callback"
        /\ join_task'[s] = join_task[s]
        /\ events'[s] = <<>> /\ outcomes'[s] = outcomes[s] /\ event'[s] = Head(events[s])
        /\ in_flight'[s] = in_flight[s] /\ emit'[s] = emit[s] /\ emits'[s] = emits[s]
        /\ active' = active /\ timed_out' = timed_out /\ cleanup_active' = cleanup_active
        /\ rejected' \in Nat /\ cleanup' \in BOOLEAN
    BY <1>15 DEF LoopRecv
  <2>2. \A t \in Sinks \ {s} : Untouched(t)
    BY Zenon, <1>15 DEF LoopRecv, Untouched
  <2>3. PermitFollows(s)'
    BY Zenon, <2>1 DEF PermitFollows
  <2>h. Head(events[s]) \in 1 .. MaxEmits /\ Head(events[s]) # 0
    BY <2>1, HeadIn
  <2>4. EventFollows(s)'
    BY Zenon, <2>1, <2>h DEF EventFollows, PermitFollows, Busy, Disconnected
  <2>5. Tally(s)
    BY Zenon, <2>1 DEF Tally, Moves, Permitted, Marked, JoinSlots, PermitFollows
  <2>v. Head(events[s]) \in 0 .. MaxEmits /\ <<>> \in Seq(1 .. MaxEmits)
    BY <1>15, <2>1, <2>h
  <2>6. SinkTypes'
    BY <1>15, <2>v DEF LoopRecv, StartStates, LoopStates, JoinStates
  <2> QED BY Zenon, <2>2, <2>3, <2>4, <2>5, <2>6
<1>16. CASE LoopClosed(s)
  <2>1. /\ callback[s] = "recv" /\ events[s] = <<>>
        /\ start'[s] = start[s] /\ status'[s] = status[s] /\ callback'[s] = "returned"
        /\ join_task'[s] = join_task[s]
        /\ events'[s] = events[s] /\ outcomes'[s] = outcomes[s] /\ event'[s] = event[s]
        /\ in_flight'[s] = in_flight[s] /\ emit'[s] = emit[s] /\ emits'[s] = emits[s]
        /\ active' = active /\ timed_out' = timed_out /\ cleanup_active' = cleanup_active
        /\ rejected' \in Nat /\ cleanup' \in BOOLEAN
    BY <1>16 DEF LoopClosed
  <2>2. \A t \in Sinks \ {s} : Untouched(t)
    BY Zenon, <1>16 DEF LoopClosed, Untouched
  <2>3. PermitFollows(s)'
    BY Zenon, <2>1 DEF PermitFollows
  <2>4. EventFollows(s)'
    BY Zenon, <2>1 DEF EventFollows, PermitFollows, Busy, Disconnected
  <2>5. Tally(s)
    BY Zenon, <2>1 DEF Tally, Moves, Permitted, Marked, JoinSlots, PermitFollows
  <2>6. SinkTypes'
    BY Zenon, <1>16 DEF LoopClosed, StartStates, LoopStates, JoinStates
  <2> QED BY Zenon, <2>2, <2>3, <2>4, <2>5, <2>6
<1>17. CASE CallbackEnds(s)
  <2>1. /\ callback[s] = "callback"
        /\ start'[s] = start[s] /\ status'[s] = status[s]
        /\ callback'[s] \in {"succeeded", "failed", "returned"} /\ join_task'[s] = join_task[s]
        /\ events'[s] = events[s] /\ outcomes'[s] = outcomes[s] /\ event'[s] = event[s]
        /\ in_flight'[s] = in_flight[s] /\ emit'[s] = emit[s] /\ emits'[s] = emits[s]
        /\ active' = active /\ timed_out' = timed_out /\ cleanup_active' = cleanup_active
        /\ rejected' \in Nat /\ cleanup' \in BOOLEAN
    BY <1>17 DEF CallbackEnds
  <2>2. \A t \in Sinks \ {s} : Untouched(t)
    BY Zenon, <1>17 DEF CallbackEnds, Untouched
  <2>3. PermitFollows(s)'
    BY Zenon, <2>1 DEF PermitFollows
  <2>4. EventFollows(s)'
    BY Zenon, <2>1 DEF EventFollows, PermitFollows, Busy, Disconnected
  <2>5. Tally(s)
    BY Zenon, <2>1 DEF Tally, Moves, Permitted, Marked, JoinSlots, PermitFollows
  <2>6. SinkTypes'
    BY <1>17 DEF CallbackEnds, StartStates, LoopStates, JoinStates
  <2> QED BY Zenon, <2>2, <2>3, <2>4, <2>5, <2>6
<1>18. CASE Reply(s)
  <2>1. /\ callback[s] \in {"succeeded", "failed"}
        /\ start'[s] = start[s] /\ status'[s] = status[s]
        /\ callback'[s] = (IF start[s] = "dropped" \/ callback[s] = "failed" THEN "returned" ELSE "recv") /\ join_task'[s] = join_task[s]
        /\ events'[s] = events[s]
        /\ outcomes'[s] = (IF start[s] = "dropped" THEN <<>> ELSE <<event[s]>>)
        /\ event'[s] = event[s]
        /\ in_flight'[s] = in_flight[s] /\ emit'[s] = emit[s] /\ emits'[s] = emits[s]
        /\ active' = active /\ timed_out' = timed_out /\ cleanup_active' = cleanup_active
        /\ rejected' \in Nat /\ cleanup' \in BOOLEAN
    BY <1>18 DEF Reply
  <2>2. \A t \in Sinks \ {s} : Untouched(t)
    BY Zenon, <1>18 DEF Reply, Untouched
  <2>3. PermitFollows(s)'
    BY Zenon, <2>1 DEF PermitFollows, EventFollows
  <2>h. Head(<<event[s]>>) = event[s] /\ <<event[s]>> # <<>>
    BY <2>1
  <2>4. EventFollows(s)'
    BY Zenon, <2>1, <2>h DEF EventFollows, PermitFollows, Busy, Disconnected
  <2>5. Tally(s)
    BY Zenon, <2>1 DEF Tally, Moves, Permitted, Marked, JoinSlots, PermitFollows
  <2>v. <<event[s]>> \in Seq(1 .. MaxEmits) /\ <<>> \in Seq(1 .. MaxEmits)
    BY <1>18, <2>1 DEF EventFollows, Busy
  <2>6. SinkTypes'
    BY Zenon, <1>18, <2>v DEF Reply, StartStates, LoopStates, JoinStates
  <2> QED BY Zenon, <2>2, <2>3, <2>4, <2>5, <2>6
<1>19. CASE LoopExit(s)
  <2>1. /\ callback[s] = "returned"
        /\ start'[s] = start[s] /\ status'[s] = status[s] /\ callback'[s] = "exited"
        /\ join_task'[s] = join_task[s]
        /\ events'[s] = events[s] /\ outcomes'[s] = outcomes[s] /\ event'[s] = event[s]
        /\ in_flight'[s] = in_flight[s] /\ emit'[s] = emit[s] /\ emits'[s] = emits[s]
        /\ active' = active /\ timed_out' = timed_out /\ cleanup_active' = cleanup_active
        /\ rejected' \in Nat /\ cleanup' \in BOOLEAN
    BY <1>19 DEF LoopExit
  <2>2. \A t \in Sinks \ {s} : Untouched(t)
    BY Zenon, <1>19 DEF LoopExit, Untouched
  <2>3. PermitFollows(s)'
    BY Zenon, <2>1 DEF PermitFollows
  <2>4. EventFollows(s)'
    BY Zenon, <2>1 DEF EventFollows, PermitFollows, Busy, Disconnected
  <2>5. Tally(s)
    BY Zenon, <2>1 DEF Tally, Moves, Permitted, Marked, JoinSlots, PermitFollows
  <2>6. SinkTypes'
    BY <1>19 DEF LoopExit, StartStates, LoopStates, JoinStates
  <2> QED BY Zenon, <2>2, <2>3, <2>4, <2>5, <2>6
<1>20. CASE ReapTake(s)
  <2>1. /\ join_task[s] = "queued"
        /\ start'[s] = start[s] /\ status'[s] = status[s] /\ callback'[s] = callback[s]
        /\ join_task'[s] = "joining"
        /\ events'[s] = events[s] /\ outcomes'[s] = outcomes[s] /\ event'[s] = event[s]
        /\ in_flight'[s] = in_flight[s] /\ emit'[s] = emit[s] /\ emits'[s] = emits[s]
        /\ active' = active /\ timed_out' = timed_out /\ cleanup_active' = cleanup_active
        /\ rejected' \in Nat /\ cleanup' \in BOOLEAN
    BY <1>20 DEF ReapTake
  <2>2. \A t \in Sinks \ {s} : Untouched(t)
    BY Zenon, <1>20 DEF ReapTake, Untouched
  <2>3. PermitFollows(s)'
    BY Zenon, <2>1 DEF PermitFollows
  <2>4. EventFollows(s)'
    BY Zenon, <2>1 DEF EventFollows, PermitFollows, Busy, Disconnected
  <2>5. Tally(s)
    BY Zenon, <2>1 DEF Tally, Moves, Permitted, Marked, JoinSlots, PermitFollows
  <2>6. SinkTypes'
    BY <1>20 DEF ReapTake, StartStates, LoopStates, JoinStates
  <2> QED BY Zenon, <2>2, <2>3, <2>4, <2>5, <2>6
<1>21. CASE ReaperDropsOwner(s)
  <2>1. /\ join_task[s] = "joining" /\ callback[s] = "exited"
        /\ start'[s] = start[s] /\ status'[s] = "Finished" /\ callback'[s] = callback[s]
        /\ join_task'[s] = "released"
        /\ events'[s] = events[s] /\ outcomes'[s] = outcomes[s] /\ event'[s] = event[s]
        /\ in_flight'[s] = in_flight[s] /\ emit'[s] = emit[s] /\ emits'[s] = emits[s]
        /\ active' = active - 1
        /\ timed_out' = (IF status[s] = "TimedOut" THEN timed_out - 1 ELSE timed_out)
        /\ cleanup_active' = cleanup_active
        /\ rejected' \in Nat /\ cleanup' \in BOOLEAN
    BY <1>21 DEF ReaperDropsOwner, DropPermit
  <2>2. \A t \in Sinks \ {s} : Untouched(t)
    BY Zenon, <1>21 DEF ReaperDropsOwner, DropPermit, Untouched
  <2>3. PermitFollows(s)'
    BY Zenon, <2>1 DEF PermitFollows
  <2>4. EventFollows(s)'
    BY Zenon, <2>1 DEF EventFollows, PermitFollows, Busy, Disconnected
  <2>k. active' <= runtime_capacity /\ cleanup_active' <= runtime_capacity
    BY <2>1
  <2>5. Tally(s)
    BY Zenon, <2>1, <2>k DEF Tally, Moves, Permitted, Marked, JoinSlots, PermitFollows
  <2>6. SinkTypes'
    BY <1>21 DEF ReaperDropsOwner, DropPermit, StartStates, LoopStates, JoinStates
  <2> QED BY Zenon, <2>2, <2>3, <2>4, <2>5, <2>6
<1>22. CASE ReaperDropsSlot(s)
  <2>1. /\ join_task[s] = "released"
        /\ start'[s] = start[s] /\ status'[s] = status[s] /\ callback'[s] = callback[s]
        /\ join_task'[s] = "done"
        /\ events'[s] = events[s] /\ outcomes'[s] = outcomes[s] /\ event'[s] = event[s]
        /\ in_flight'[s] = in_flight[s] /\ emit'[s] = emit[s] /\ emits'[s] = emits[s]
        /\ active' = active /\ timed_out' = timed_out /\ cleanup_active' = cleanup_active - 1
        /\ rejected' \in Nat /\ cleanup' \in BOOLEAN
    BY <1>22 DEF ReaperDropsSlot
  <2>2. \A t \in Sinks \ {s} : Untouched(t)
    BY Zenon, <1>22 DEF ReaperDropsSlot, Untouched
  <2>3. PermitFollows(s)'
    BY Zenon, <2>1 DEF PermitFollows
  <2>4. EventFollows(s)'
    BY Zenon, <2>1 DEF EventFollows, PermitFollows, Busy, Disconnected
  <2>k. active' <= runtime_capacity /\ cleanup_active' <= runtime_capacity
    BY <2>1
  <2>5. Tally(s)
    BY Zenon, <2>1, <2>k DEF Tally, Moves, Permitted, Marked, JoinSlots, PermitFollows
  <2>6. SinkTypes'
    BY <1>22 DEF ReaperDropsSlot, StartStates, LoopStates, JoinStates
  <2> QED BY Zenon, <2>2, <2>3, <2>4, <2>5, <2>6
<1> QED BY Zenon, <1>1, <1>2, <1>3, <1>4, <1>5, <1>6, <1>7, <1>8, <1>9, <1>10, <1>11, <1>12,
           <1>13, <1>14, <1>15, <1>16, <1>17, <1>18, <1>19, <1>20, <1>21, <1>22
       DEF SinkStep, NewIn, Emit, Wait, Loop, ReapSink

\* What a step of one sink keeps of the others.
LEMMA OthersFollow ==
  ASSUME NEW t \in Sinks, Untouched(t), PermitFollows(t), EventFollows(t)
  PROVE  PermitFollows(t)' /\ EventFollows(t)'
BY Zenon DEF Untouched, PermitFollows, EventFollows, Busy

LEMMA RuntimeStart == ASSUME RuntimeAssumption, RuntimeInit PROVE RuntimeInv
<1>1. Permitted = {} /\ Marked = {} /\ JoinSlots = {}
  BY DEF RuntimeInit, Permitted, Marked, JoinSlots
<1>2. Cardinality({}) = 0
  BY FS_EmptySet
<1>3. RuntimeTypeOK
  <2>1. 0 \in 0 .. MaxEmits /\ <<>> \in Seq(1 .. MaxEmits)
    BY DEF RuntimeAssumption, MaxEmitsAssumption
  <2> QED BY Zenon, <2>1 DEF RuntimeInit, RuntimeTypeOK, StartStates, LoopStates, JoinStates
<1>4. \A s \in Sinks : PermitFollows(s) /\ EventFollows(s)
  BY DEF RuntimeInit, PermitFollows, EventFollows, Busy
<1>5. active = 0 /\ timed_out = 0 /\ cleanup_active = 0 /\ 0 <= runtime_capacity
  BY DEF RuntimeInit, RuntimeAssumption, RuntimeCapacityAssumption
<1> QED BY <1>1, <1>2, <1>3, <1>4, <1>5 DEF RuntimeInv

LEMMA RuntimeStep ==
  ASSUME RuntimeAssumption, RuntimeInv, [RuntimeNext]_runtimeVars
  PROVE  RuntimeInv'
<1>1. CASE UNCHANGED runtimeVars
  <2>1. Permitted' = Permitted /\ Marked' = Marked /\ JoinSlots' = JoinSlots
    BY Zenon, <1>1 DEF runtimeVars, budgetVars, cleanupVars, emitVars, callbackVars, Permitted,
       Marked, JoinSlots
  <2>2. RuntimeTypeOK'
    BY Zenon, <1>1 DEF runtimeVars, budgetVars, cleanupVars, emitVars, callbackVars, RuntimeInv,
       RuntimeTypeOK
  <2>3. \A s \in Sinks : Untouched(s)
    BY Zenon, <1>1 DEF runtimeVars, budgetVars, cleanupVars, emitVars, callbackVars, Untouched
  <2>4. \A s \in Sinks : PermitFollows(s)' /\ EventFollows(s)'
    BY Zenon, <2>3, OthersFollow DEF RuntimeInv
  <2>5. active' = active /\ timed_out' = timed_out /\ cleanup_active' = cleanup_active
    BY Zenon, <1>1 DEF runtimeVars, budgetVars, cleanupVars
  <2> QED BY Zenon, <2>1, <2>2, <2>4, <2>5 DEF RuntimeInv
<1>2. ASSUME NEW s \in Sinks, SinkStep(s) PROVE RuntimeInv'
  <2>1. /\ \A t \in Sinks \ {s} : Untouched(t)
        /\ PermitFollows(s)' /\ EventFollows(s)' /\ Tally(s) /\ SinkTypes'
    BY Zenon, <1>2, SinkSteps
  <2>2. \A t \in Sinks : PermitFollows(t)' /\ EventFollows(t)'
    BY Zenon, <2>1, OthersFollow DEF RuntimeInv
  <2>3. /\ \A t \in Sinks \ {s} : t \in Permitted <=> t \in Permitted'
        /\ \A t \in Sinks \ {s} : t \in Marked <=> t \in Marked'
        /\ \A t \in Sinks \ {s} : t \in JoinSlots <=> t \in JoinSlots'
    BY Zenon, <2>1 DEF Untouched, Permitted, Marked, JoinSlots
  <2>4. /\ Permitted \in SUBSET Sinks /\ Permitted' \in SUBSET Sinks
        /\ Marked \in SUBSET Sinks /\ Marked' \in SUBSET Sinks
        /\ JoinSlots \in SUBSET Sinks /\ JoinSlots' \in SUBSET Sinks
    BY DEF Permitted, Marked, JoinSlots
  <2>5. IsFiniteSet(Sinks)
    BY DEF RuntimeAssumption
  <2>6. active' = Cardinality(Permitted') /\ active' \in Nat
    <3>1. Moves(active, active', s \in Permitted, s \in Permitted') /\ active = Cardinality(Permitted)
      BY Zenon, <2>1 DEF Tally, RuntimeInv
    <3> QED BY <2>3, <2>4, <2>5, <3>1, Recount
  <2>7. timed_out' = Cardinality(Marked') /\ timed_out' \in Nat
    <3>1. Moves(timed_out, timed_out', s \in Marked, s \in Marked') /\ timed_out = Cardinality(Marked)
      BY Zenon, <2>1 DEF Tally, RuntimeInv
    <3> QED BY <2>3, <2>4, <2>5, <3>1, Recount
  <2>8. cleanup_active' = Cardinality(JoinSlots') /\ cleanup_active' \in Nat
    <3>1. Moves(cleanup_active, cleanup_active', s \in JoinSlots, s \in JoinSlots') /\ cleanup_active = Cardinality(JoinSlots)
      BY Zenon, <2>1 DEF Tally, RuntimeInv
    <3> QED BY <2>3, <2>4, <2>5, <3>1, Recount
  <2>9. RuntimeTypeOK' /\ active' <= runtime_capacity /\ cleanup_active' <= runtime_capacity
    BY Zenon, <2>1, <2>6, <2>7, <2>8 DEF Tally, SinkTypes, RuntimeTypeOK
  <2> QED BY Zenon, <2>2, <2>6, <2>7, <2>8, <2>9 DEF RuntimeInv
<1>3. CASE RuntimeNext
  BY Zenon, <1>2, <1>3 DEF RuntimeNext, SinkStep
<1> QED BY Zenon, <1>1, <1>3

-----------------------------------------------------------------------------
\* A sink that is still to reserve its join slot holds a permit and no slot, and every slot but
\* those about to be returned has a permit.
LEMMA SpinFollows == ASSUME RuntimeAssumption, RuntimeInv PROVE SpinIsBrief
<1>1. IsFiniteSet(Permitted) /\ IsFiniteSet(JoinSlots)
  BY FS_Subset DEF RuntimeAssumption, Permitted, JoinSlots
<1>2. ASSUME NEW s \in Sinks, start[s] = "prepared", SinksIn("released") = {}
      PROVE  ~(cleanup_active >= runtime_capacity)
  <2>1. JoinSlots \subseteq Permitted \ {s} /\ s \in Permitted
    BY <1>2 DEF RuntimeInv, PermitFollows, JoinSlots, Permitted, SinksIn
  <2>2. IsFiniteSet(Permitted \ {s}) /\ Cardinality(Permitted \ {s}) = Cardinality(Permitted) - 1
    BY Zenon, <1>1, <2>1, FS_RemoveElement
  <2>3. Cardinality(JoinSlots) <= Cardinality(Permitted \ {s})
    BY Zenon, <2>1, <2>2, FS_Subset
  <2>4. /\ cleanup_active = Cardinality(JoinSlots) /\ active = Cardinality(Permitted)
        /\ active <= runtime_capacity
        /\ active \in Nat /\ cleanup_active \in Nat /\ runtime_capacity \in Nat
    BY Zenon DEF RuntimeInv, RuntimeTypeOK, RuntimeAssumption, RuntimeCapacityAssumption
  <2> QED BY <2>2, <2>3, <2>4
<1>3. SinksIn("pending") = {}
  BY DEF RuntimeInv, PermitFollows, SinksIn
<1>4. Cardinality(SinksIn("queued") \cup SinksIn("joining") \cup SinksIn("released")) <= runtime_capacity
  <2> DEFINE Tasks == SinksIn("queued") \cup SinksIn("joining") \cup SinksIn("released")
  <2>1. Tasks \subseteq JoinSlots
    BY DEF SinksIn, JoinSlots
  <2>2. Cardinality(Tasks) <= Cardinality(JoinSlots) /\ IsFiniteSet(Tasks)
    BY Zenon, <1>1, <2>1, FS_Subset
  <2>3. Cardinality(Tasks) \in Nat /\ Cardinality(JoinSlots) \in Nat
    BY Zenon, <1>1, <2>2, FS_CardinalityType
  <2>4. Cardinality(JoinSlots) <= runtime_capacity /\ runtime_capacity \in Nat
    BY Zenon DEF RuntimeInv, RuntimeAssumption, RuntimeCapacityAssumption
  <2> HIDE DEF Tasks
  <2>5. Cardinality(Tasks) <= runtime_capacity
    BY <2>2, <2>3, <2>4
  <2> QED BY Zenon, <2>5 DEF Tasks
<1> QED BY Zenon, <1>2, <1>3, <1>4 DEF SpinIsBrief

LEMMA AnswersFollow == ASSUME RuntimeInv PROVE AnswersMatch
BY Zenon DEF RuntimeInv, EventFollows, AnswersMatch, Busy

LEMMA SnapshotFollows == ASSUME RuntimeInv PROVE SnapshotExact
<1>1. \A s \in Sinks : callback[s] \notin {"none", "exited"} => s \in Permitted
  <2> SUFFICES ASSUME NEW s \in Sinks, callback[s] \notin {"none", "exited"} PROVE s \in Permitted
    BY Zenon
  <2>1. PermitFollows(s) /\ join_task[s] \in JoinStates
    BY DEF RuntimeInv, RuntimeTypeOK
  <2> QED BY Zenon, <2>1 DEF PermitFollows, JoinStates, Permitted
<1> QED BY Zenon, <1>1 DEF RuntimeInv, SnapshotExact, Marked

\* runtime.rs and thread_cleanup: for any number of sinks and any capacity, the runtime's
\* counters are those of its permits and never pass the capacity, a sink that finds no join slot
\* waits only for one about to be returned, no join task is refused, and emit returns the
\* outcome of its own event.
THEOREM SinksTheorem == ASSUME RuntimeAssumption PROVE RuntimeSpec => []SinksExact
<1>1. RuntimeInit => RuntimeInv
  BY RuntimeStart
<1>2. RuntimeInv /\ [RuntimeNext]_runtimeVars => RuntimeInv'
  BY RuntimeStep
<1>3. RuntimeInv => SinksExact
  BY SpinFollows, AnswersFollow, SnapshotFollows DEF SinksExact
<1> QED BY <1>1, <1>2, <1>3, PTL DEF RuntimeSpec
=============================================================================
