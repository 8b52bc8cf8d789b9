---------------------------- MODULE LiveCapture ----------------------------
(***************************************************************************)
(* One native capture: its activation and handoff, the reader thread, the  *)
(* bounded queue it fills, the session that drains and stops it, and the   *)
(* reaper that inherits an unfinished reader.                              *)
(* packetcraftr-netio/src/capture/activation.rs, capture/live/*.rs.         *)
(*                                                                         *)
(* A frame is its arrival number and its length.  The three native drop    *)
(* counters, which are treated alike, are one.  The u64 statistics are     *)
(* natural numbers: their overflow errors are out of reach.                *)
(***************************************************************************)
EXTENDS Integers, Sequences, FiniteSetsExt

CONSTANTS
  max_frames, max_bytes,  \* Limits
  Lengths,     \* frame lengths the source may return (at most snap_length)
  NativeSpan,  \* the native drop counter counts modulo this (2^32 in the code)
  MaxSeen,     \* bound: frames the source returns
  MaxDrops     \* bound: frames the native receiver drops

ASSUME LimitsAssumption == max_frames \in Nat \ {0} /\ max_bytes \in Nat \ {0}
ASSUME LengthsAssumption == Lengths \subseteq 1 .. max_bytes
ASSUME SpanAssumption == NativeSpan \in Nat /\ NativeSpan > 1
ASSUME BoundsAssumption == MaxSeen \in Nat /\ MaxDrops \in Nat

VARIABLES
  overflow_policy,
  ready, closed, error, error_observed, queue, queued_bytes, statistics,  \* CaptureState
  stop,               \* the shared stop flag
  worker,             \* where the reader's thread is
  native,             \* the source's wrapping drop counter
  native_statistics,  \* its value when the worker last read it
  running,            \* who holds the task, the interrupt and the lease
  retained,           \* the lease was marked as retained
  stop_result, shutdown,
  owner, dropping,    \* where the session's owner is; Drop is running
  seen, got,          \* history: frames and bytes returned by the source, and delivered
  drops, ended        \* history: native drops; the end was reported to the caller

stateVars == <<ready, closed, error, error_observed, queue, queued_bytes, statistics>>
sourceVars == <<native, native_statistics, drops, seen>>
ownerVars == <<running, retained, stop_result, shutdown, owner, dropping>>
captureVars == <<overflow_policy, stateVars, stop, worker, sourceVars, ownerVars, got, ended>>

\* activating, offering, refusing: before the handoff.  check .. failed: the steps of
\* capture_worker.  exit: the source is being destroyed; done: the outcome is published.
Reading == {"start", "check", "entering", "wait", "woken", "statistics", "final", "closing", "failed"}
WorkerStates == Reading \cup {"activating", "offering", "refusing", "exit", "done", "panicked"}
Finished == {"done", "panicked"}

None == [frames |-> 0, bytes |-> 0]
Add(t, frames, bytes) == [frames |-> t.frames + frames, bytes |-> t.bytes + bytes]

CaptureInit ==
  /\ overflow_policy \in {"Fail", "DropNewest", "DropOldest"}
  /\ ready = FALSE /\ closed = FALSE /\ error = FALSE /\ error_observed = FALSE
  /\ queue = <<>> /\ queued_bytes = 0
  /\ statistics = [received |-> None, dropped |-> None, overflow_events |-> 0, receiver_dropped |-> 0]
  /\ stop = FALSE
  /\ worker = "activating"
  /\ native \in 0 .. NativeSpan - 1 /\ native_statistics = native
  /\ running = "session" /\ retained = FALSE
  /\ stop_result = "none" /\ shutdown = "NotAttempted"
  /\ owner = "arming" /\ dropping = FALSE
  /\ seen = None /\ got = None /\ drops = 0 /\ ended = FALSE

-----------------------------------------------------------------------------
(* Activation.                                                             *)

\* The worker activates the source, or reports an error or an expired deadline, or
\* panics, which disconnects the handoff.
Activate ==
  /\ worker = "activating"
  /\ worker' \in {"offering", "refusing", "panicked"}
  /\ UNCHANGED <<overflow_policy, stateVars, stop, sourceVars, ownerVars, got, ended>>

\* await_handoff takes the started capture and the session is attached; a deadline that
\* has passed meanwhile sends the new session to the reaper, which drops it.
Claim ==
  /\ owner = "arming" /\ worker = "offering"
  /\ worker' = "start"
  /\ \/ owner' = "idle" /\ UNCHANGED retained
     \/ owner' = "late" /\ retained' = TRUE
  /\ UNCHANGED <<overflow_policy, stateVars, stop, sourceVars, running, stop_result, shutdown, dropping, got, ended>>

\* await_handoff gets an error, or finds the worker gone: task and lease are dropped.
ClaimError ==
  /\ owner = "arming" /\ worker \in {"refusing", "panicked"}
  /\ worker' = IF worker = "refusing" THEN "exit" ELSE worker
  /\ owner' = "gone" /\ running' = "none"
  /\ UNCHANGED <<overflow_policy, stateVars, stop, sourceVars, retained, stop_result, shutdown, dropping, got, ended>>

\* The deadline passes or is cancelled first: the claim is dropped, and the reaper waits
\* for the worker with the lease.
ArmInterrupted ==
  /\ owner = "arming"
  /\ owner' = "gone" /\ running' = "orphan" /\ retained' = TRUE
  /\ UNCHANGED <<overflow_policy, stateVars, stop, worker, sourceVars, stop_result, shutdown, dropping, got, ended>>

\* The worker's send finds no claim: it never reads.
HandoffRefused ==
  /\ worker \in {"offering", "refusing"} /\ owner = "gone"
  /\ worker' = "exit"
  /\ UNCHANGED <<overflow_policy, stateVars, stop, sourceVars, ownerVars, got, ended>>

-----------------------------------------------------------------------------
(* CaptureQueue::enqueue.                                                  *)

\* The bytes of the first n frames, for each n, and of all of them.
running_bytes(frames) ==
  LET total[n \in 0 .. Len(frames)] == IF n = 0 THEN 0 ELSE total[n - 1] + frames[n].bytes
  IN  total

bytes_of(frames) == running_bytes(frames)[Len(frames)]

admits(frames, queued, frame_bytes) == frames < max_frames /\ queued + frame_bytes <= max_bytes

\* plan_eviction: how many of the oldest frames may go for the new one to fit; the code
\* takes the smallest such number, if there is one.
plan_eviction(frame_bytes) ==
  {n \in 0 .. Len(queue) : admits(Len(queue) - n, bytes_of(SubSeq(queue, n + 1, Len(queue))), frame_bytes)}

record_overflow(s, frames, bytes) ==
  [s EXCEPT !.overflow_events = @ + 1, !.dropped = Add(@, frames, bytes)]
record_received(s, bytes) == [s EXCEPT !.received = Add(@, 1, bytes)]

\* The oldest n frames go and the new one is appended.
Push(frame_bytes, n, s) ==
  /\ queue' = Append(SubSeq(queue, n + 1, Len(queue)), [id |-> seen.frames + 1, bytes |-> frame_bytes])
  /\ queued_bytes' = queued_bytes - bytes_of(SubSeq(queue, 1, n)) + frame_bytes
  /\ statistics' = record_received(s, frame_bytes)

\* The new frame is dropped and counted.
Discard(frame_bytes) ==
  /\ statistics' = record_overflow(statistics, 1, frame_bytes)
  /\ UNCHANGED <<queue, queued_bytes>>

\* The queue cannot take the frame: DropOldest makes room if that can help, the other
\* policies drop the frame, Fail with an error (Enqueue).
Overflow(frame_bytes) ==
  LET evictions == plan_eviction(frame_bytes)
      evicted == Min(evictions)
  IN  IF overflow_policy = "DropOldest" /\ evictions # {}
      THEN Push(frame_bytes, evicted,
                record_overflow(statistics, evicted, bytes_of(SubSeq(queue, 1, evicted))))
      ELSE Discard(frame_bytes)

Enqueue(frame_bytes) ==
  LET fits == admits(Len(queue), queued_bytes, frame_bytes)
  IN  /\ IF fits THEN Push(frame_bytes, 0, statistics) ELSE Overflow(frame_bytes)
      /\ worker' = IF ~fits /\ overflow_policy = "Fail" THEN "failed" ELSE "statistics"

-----------------------------------------------------------------------------
(* capture_worker.                                                         *)

\* The first statistics are the baseline; then the capture is ready.
WorkerReady ==
  /\ worker = "start"
  /\ native_statistics' = native /\ drops' = 0
  /\ ready' = TRUE
  /\ worker' = "check"
  /\ UNCHANGED <<overflow_policy, closed, error, error_observed, queue, queued_bytes, statistics, stop, native, seen, ownerVars, got, ended>>

\* The loop condition, and the way into next_event: a stop set in between is not seen.
WorkerCheck ==
  /\ worker \in {"check", "entering"}
  /\ worker' = IF worker = "entering" THEN "wait" ELSE IF stop THEN "final" ELSE "entering"
  /\ UNCHANGED <<overflow_policy, stateVars, stop, sourceVars, ownerVars, got, ended>>

\* next_event returns a packet, which is enqueued.
WorkerPacket ==
  /\ worker = "wait"
  /\ seen.frames < MaxSeen
  /\ \E b \in Lengths : Enqueue(b) /\ seen' = Add(seen, 1, b)
  /\ UNCHANGED <<overflow_policy, ready, closed, error, error_observed, stop, native, native_statistics, drops, ownerVars, got, ended>>

\* next_event times out.
WorkerTimeout ==
  /\ worker = "wait"
  /\ worker' = "statistics"
  /\ UNCHANGED <<overflow_policy, stateVars, stop, sourceVars, ownerVars, got, ended>>

\* next_event reports Closed: expected once the stop flag is set.
WorkerClosed ==
  /\ worker = "wait"
  /\ worker' = IF stop THEN "final" ELSE "failed"
  /\ UNCHANGED <<overflow_policy, stateVars, stop, sourceVars, ownerVars, got, ended>>

\* next_event was interrupted, and reports Closed or a timeout.
WorkerWoken ==
  /\ worker = "woken"
  /\ worker' \in {"statistics", IF stop THEN "final" ELSE "failed"}
  /\ UNCHANGED <<overflow_policy, stateVars, stop, sourceVars, ownerVars, got, ended>>

\* Mutant of drop_delta: the difference of the counters without the wrap.
drop_delta_saturating == IF native >= native_statistics THEN native - native_statistics ELSE 0

\* add_native_drop_deltas: wrapping_sub.
drop_delta == (native - native_statistics) % NativeSpan

AddDrops ==
  /\ statistics' = [statistics EXCEPT !.receiver_dropped = @ + drop_delta, !.dropped.frames = @ + drop_delta]
  /\ native_statistics' = native

\* The statistics are read when their interval has passed.
WorkerStatistics ==
  /\ worker = "statistics"
  /\ worker' = "check"
  /\ AddDrops \/ UNCHANGED <<statistics, native_statistics>>
  /\ UNCHANGED <<overflow_policy, ready, closed, error, error_observed, queue, queued_bytes, stop, native, drops, seen, ownerVars, got, ended>>

\* ... and once more after the loop.
WorkerFinal ==
  /\ worker = "final"
  /\ worker' = "closing"
  /\ AddDrops
  /\ UNCHANGED <<overflow_policy, ready, closed, error, error_observed, queue, queued_bytes, stop, native, drops, seen, ownerVars, got, ended>>

\* A failing or panicking source, an invalid frame: the error goes to Reader::run.
WorkerFails ==
  /\ worker \in {"start", "wait", "statistics", "final"}
  /\ worker' = "failed"
  /\ UNCHANGED <<overflow_policy, stateVars, stop, sourceVars, ownerVars, got, ended>>

\* Reader::run: set_error.
WorkerSetsError ==
  /\ worker = "failed"
  /\ error' = TRUE
  /\ closed' = TRUE
  /\ worker' = "exit"
  /\ UNCHANGED <<overflow_policy, ready, error_observed, queue, queued_bytes, statistics, stop, sourceVars, ownerVars, got, ended>>

\* CaptureQueue::close.
WorkerCloses ==
  /\ worker = "closing"
  /\ closed' = TRUE
  /\ worker' = "exit"
  /\ UNCHANGED <<overflow_policy, ready, error, error_observed, queue, queued_bytes, statistics, stop, sourceVars, ownerVars, got, ended>>

\* The source is destroyed and the task's outcome published.
WorkerExits ==
  /\ worker = "exit"
  /\ worker' \in Finished
  /\ UNCHANGED <<overflow_policy, stateVars, stop, sourceVars, ownerVars, got, ended>>

\* The native receiver drops a frame; fewer than NativeSpan between two readings.
NativeDrop ==
  /\ worker \in Reading \ {"closing", "failed"}
  /\ drops < MaxDrops
  /\ drop_delta < NativeSpan - 1
  /\ native' = (native + 1) % NativeSpan
  /\ drops' = drops + 1
  /\ UNCHANGED <<overflow_policy, stateVars, stop, worker, native_statistics, seen, ownerVars, got, ended>>

-----------------------------------------------------------------------------
(* NativeCaptureSession.                                                   *)

\* wait_ready reports an error unless the capture was ready and frames are left.
WaitReadyError ==
  /\ owner = "idle"
  /\ error
  /\ ~ready \/ queue = <<>>
  /\ error_observed' = TRUE
  /\ UNCHANGED <<overflow_policy, ready, closed, error, queue, queued_bytes, statistics, stop, worker, sourceVars, ownerVars, got, ended>>

\* next_captured_frame: CaptureState::pop_front.
NextFrame ==
  /\ owner = "idle"
  /\ queue # <<>>
  /\ queue' = Tail(queue)
  /\ queued_bytes' = queued_bytes - Head(queue).bytes
  /\ got' = Add(got, 1, Head(queue).bytes)
  /\ UNCHANGED <<overflow_policy, ready, closed, error, error_observed, statistics, stop, worker, sourceVars, ownerVars, ended>>

\* next_captured_frame: the queue is empty and an error or the end is reported.
NextEnd ==
  /\ owner = "idle"
  /\ queue = <<>>
  /\ closed
  /\ error_observed' = (error_observed \/ error)
  /\ ended' = TRUE
  /\ UNCHANGED <<overflow_policy, ready, closed, error, queue, queued_bytes, statistics, stop, worker, sourceVars, ownerVars, got>>

\* request_stop: the flag, and then the interrupt (Interrupt).
StopRequested(next) ==
  /\ owner' = next
  /\ IF stop_result = "none" THEN shutdown' = "Incomplete" /\ stop' = TRUE ELSE UNCHANGED <<shutdown, stop>>

RequestStop ==
  /\ owner = "idle"
  /\ stop_result = "none"
  /\ StopRequested("stop")
  /\ UNCHANGED <<overflow_policy, stateVars, worker, sourceVars, running, retained, stop_result, dropping, got, ended>>

\* request_stop calls the interrupt once; a panicking one wakes nobody.
Interrupt ==
  /\ owner \in {"stop", "stopjoin"}
  /\ \/ stop_result' = "ok" /\ worker' = IF worker = "wait" THEN "woken" ELSE worker
     \/ stop_result' = "panicked" /\ UNCHANGED worker
  /\ owner' = IF owner = "stop" THEN "idle" ELSE "join"
  /\ UNCHANGED <<overflow_policy, stateVars, stop, sourceVars, running, retained, shutdown, dropping, got, ended>>

\* join_until, unless its result is already known.
JoinUntil ==
  /\ owner = "idle"
  /\ shutdown # "Finished"
  /\ StopRequested(IF stop_result = "none" THEN "stopjoin" ELSE "join")
  /\ UNCHANGED <<overflow_policy, stateVars, worker, sourceVars, running, retained, stop_result, dropping, got, ended>>

\* join_until: the deadline passes first; the lease is marked and kept, and Drop hands
\* the bundle to the reaper.
JoinPending ==
  /\ owner = "join"
  /\ worker \notin Finished
  /\ retained' = TRUE
  /\ owner' = IF dropping THEN "gone" ELSE "idle"
  /\ running' = IF dropping THEN "reaper" ELSE running
  /\ UNCHANGED <<overflow_policy, stateVars, stop, worker, sourceVars, stop_result, shutdown, dropping, got, ended>>

\* join_until: the worker has finished; interrupt and lease are released, and an error
\* nobody has seen is reported.
JoinFinished ==
  /\ owner = "join"
  /\ worker \in Finished
  /\ running' = "none" /\ shutdown' = "Finished"
  /\ owner' = IF dropping THEN "gone" ELSE "idle"
  /\ IF worker = "done"
     THEN closed' = TRUE /\ error_observed' = (error_observed \/ error)
     ELSE UNCHANGED <<closed, error_observed>>
  /\ UNCHANGED <<overflow_policy, ready, error, queue, queued_bytes, statistics, stop, worker, sourceVars, retained, stop_result, dropping, got, ended>>

\* Drop, when no shutdown was attempted: it is now.
DropAttempts ==
  /\ owner \in {"idle", "late"}
  /\ shutdown = "NotAttempted"
  /\ dropping' = TRUE
  /\ StopRequested("stopjoin")
  /\ UNCHANGED <<overflow_policy, stateVars, worker, sourceVars, running, retained, stop_result, got, ended>>

\* Drop after an explicit stop or shutdown: an unfinished worker goes to the reaper.
DropTransfers ==
  /\ owner = "idle"
  /\ shutdown # "NotAttempted"
  /\ dropping' = TRUE /\ owner' = "gone"
  /\ running' = IF running = "session" THEN "reaper" ELSE running
  /\ retained' = (retained \/ running = "session")
  /\ UNCHANGED <<overflow_policy, stateVars, stop, worker, sourceVars, stop_result, shutdown, got, ended>>

\* Mutant of ReaperNudge: the reaper trusts an earlier stop.
ReaperNudgeOnce ==
  /\ running = "reaper"
  /\ worker = "wait"
  /\ ~stop
  /\ stop' = TRUE /\ worker' = "woken"
  /\ UNCHANGED <<overflow_policy, stateVars, sourceVars, ownerVars, got, ended>>

\* transfer_capture_worker: the reaper sets the flag and repeats the interrupt.
ReaperNudge ==
  /\ running = "reaper"
  /\ worker = "wait"
  /\ stop' = TRUE /\ worker' = "woken"
  /\ UNCHANGED <<overflow_policy, stateVars, sourceVars, ownerVars, got, ended>>

\* wait_until_finished returns and the bundle is released.
ReaperReleases ==
  /\ running \in {"reaper", "orphan"}
  /\ worker \in Finished
  /\ running' = "none"
  /\ UNCHANGED <<overflow_policy, stateVars, stop, worker, sourceVars, retained, stop_result, shutdown, owner, dropping, got, ended>>

-----------------------------------------------------------------------------
Worker ==
  \/ HandoffRefused \/ WorkerReady \/ WorkerCheck \/ WorkerWoken \/ WorkerStatistics \/ WorkerFinal
  \/ WorkerSetsError \/ WorkerCloses \/ WorkerExits
Source == Activate \/ WorkerPacket \/ WorkerTimeout \/ WorkerClosed \/ WorkerFails \/ NativeDrop
Arm == Claim \/ ClaimError \/ ArmInterrupted
Read == WaitReadyError \/ NextFrame \/ NextEnd
Finish == Interrupt \/ JoinPending \/ JoinFinished
Stop == RequestStop \/ JoinUntil \/ DropAttempts \/ DropTransfers
Reaper == ReaperNudge \/ ReaperReleases

CaptureNext == Worker \/ Source \/ Arm \/ Read \/ Finish \/ Stop \/ Reaper
CaptureSpec == CaptureInit /\ [][CaptureNext]_captureVars

-----------------------------------------------------------------------------
Tally == [frames : Nat, bytes : Nat]

\* Type invariant.
CaptureTypeOK ==
  /\ overflow_policy \in {"Fail", "DropNewest", "DropOldest"}
  /\ {ready, closed, error, error_observed, stop, retained, dropping, ended} \subseteq BOOLEAN
  /\ queue \in Seq([id : 1 .. MaxSeen, bytes : Lengths]) /\ queued_bytes \in Nat
  /\ statistics \in [received : Tally, dropped : Tally, overflow_events : Nat, receiver_dropped : Nat]
  /\ worker \in WorkerStates
  /\ {native, native_statistics} \subseteq 0 .. NativeSpan - 1
  /\ running \in {"session", "reaper", "orphan", "none"}
  /\ stop_result \in {"none", "ok", "panicked"}
  /\ shutdown \in {"NotAttempted", "Incomplete", "Finished"}
  /\ owner \in {"arming", "idle", "late", "stop", "stopjoin", "join", "gone"}
  /\ seen \in Tally /\ got \in Tally /\ drops \in Nat

NoReportedLoss == ready /\ ~error /\ ~error_observed /\ statistics.dropped = None

\* No frame is lost without a trace: what the source returned was delivered, is queued, in
\* arrival order and within the limits of every policy, or is counted as dropped, in frames
\* and in bytes.  After a clean close the native drops are all counted too, although their
\* counter wraps, and observation_quality reports no loss only if there was none.
FramesAccounted ==
  /\ CaptureTypeOK
  /\ Len(queue) <= max_frames /\ queued_bytes <= max_bytes /\ queued_bytes = bytes_of(queue)
  /\ \A i \in 1 .. Len(queue) : queue[i].id <= seen.frames /\ (i > 1 => queue[i - 1].id < queue[i].id)
  /\ seen.frames = got.frames + Len(queue) + statistics.dropped.frames - statistics.receiver_dropped
  /\ seen.bytes = got.bytes + queued_bytes + statistics.dropped.bytes
  /\ closed /\ ~error /\ worker \in {"exit"} \cup Finished => statistics.receiver_dropped = drops
  /\ NoReportedLoss => seen.frames = got.frames + Len(queue)

\* A capture error is never swallowed: when shutdown has finished, somebody saw it.  The
\* end of the records, once reported, is final: no frame is queued after it.
ErrorsReported ==
  /\ shutdown = "Finished" /\ error => error_observed \/ worker = "panicked"
  /\ ended => queue = <<>> /\ worker \notin Reading

\* "A rendezvous: the reader starts only once an owner holds its stop flag", and "The
\* interrupt outlives the worker, and the lease outlives the interrupt": a reading
\* worker is owned by a session or by the reaper, and resources that outlive their
\* deadline are marked as retained.
ReadersAreOwned ==
  /\ worker \in Reading => running \in {"session", "reaper"}
  /\ running \in {"reaper", "orphan"} => retained

\* Nothing is swallowed, neither a frame nor an error of the capture, and no reader is left alone.
CaptureHonest == FramesAccounted /\ ErrorsReported /\ ReadersAreOwned

\* Arming and shutdown have ended, by their deadlines, and a dropped or refused session has
\* given its lease back, even if the reader was blocked in next_event and missed the first
\* interrupt; only a hung activation can keep it.
CaptureEnded ==
  /\ owner \in {"idle", "gone"}
  /\ owner = "gone" => running = "none" \/ worker = "activating"

-----------------------------------------------------------------------------
(* The inductive invariant.                                                *)

\* How far the reader can be follows from where its owner is: it reads only after the
\* handoff, and once the queue is closed, by the reader itself or by the session that
\* joined it, it never reads again.
HandoffInv ==
  /\ owner = "arming" =>
       worker \in {"activating", "offering", "refusing", "panicked"} /\ running = "session"
  /\ owner \notin {"arming", "gone"} =>
       /\ worker \in Reading \cup {"exit"} \cup Finished
       /\ worker \notin Reading => closed
  /\ closed => worker \in {"exit"} \cup Finished
  /\ error => closed
  /\ shutdown = "Finished" => worker \in Finished
  /\ ended => closed
  /\ running \in {"orphan", "none"} => worker \notin Reading

\* The native drops are those already counted and the distance of the two readings of
\* the wrapping counter, from the baseline until the last reading after the loop.
DropsInv ==
  /\ statistics.receiver_dropped <= statistics.dropped.frames
  /\ worker \in {"activating", "offering", "refusing", "start"} => statistics.receiver_dropped = 0
  /\ worker \in Reading \ {"start", "closing", "failed"} => drops = statistics.receiver_dropped + drop_delta
  /\ worker = "closing" => drops = statistics.receiver_dropped

CaptureInv == CaptureHonest /\ HandoffInv /\ DropsInv
=============================================================================
