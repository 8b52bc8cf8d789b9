---------------------------- MODULE CaptureGroup ----------------------------
(***************************************************************************)
(* A capture over several interfaces: the shared queue limits are split,   *)
(* the sources are armed one by one, awaited, polled in rotation, and all  *)
(* stopped before any is joined.                                           *)
(* packetcraftr-netio/src/capture/group.rs and group/source.rs.             *)
(*                                                                         *)
(* The group is called by one thread; its sources fill their own queues    *)
(* meanwhile.  A member session is reduced to the records it holds and the *)
(* answers it may give.                                                    *)
(***************************************************************************)
EXTENDS Integers, FiniteSets

CONSTANTS
  MAX_SOURCES,
  FrameLimits, ByteLimits, SnapLengths,  \* the limits a request may ask for
  MaxPending   \* bound: records queued in one source

SourcesAssumption ==
  /\ MAX_SOURCES \in Nat \ {0} /\ MaxPending \in Nat
  /\ FrameLimits \subseteq Nat /\ ByteLimits \subseteq Nat /\ SnapLengths \subseteq Nat

VARIABLES
  limits, count,       \* GroupRequest: shared limits and number of interfaces
  lifecycle, cursor,
  armed,               \* sources: members armed so far, the first `armed` requests
  sources_ready, stop_attempted, stop_failed, shutdown_attempted, shutdown_confirmed,
  cleanup,             \* number of errors in Group::cleanup
  call, step,          \* the call in progress and how far it is
  pending,             \* records each member holds
  skipped              \* history: records delivered from others while this one waited

requestVars == <<limits, count>>
memberVars == <<sources_ready, stop_attempted, stop_failed, shutdown_attempted, shutdown_confirmed>>
groupVars == <<requestVars, lifecycle, cursor, armed, memberVars, cleanup, call, step, pending, skipped>>

Members == 0 .. count - 1
Armed == 0 .. armed - 1

\* GroupRequest::validate: every member can hold at least one full snapshot.
validate(l, n) ==
  /\ n \in 1 .. MAX_SOURCES
  /\ l.max_frames > 0 /\ l.max_bytes > 0 /\ l.snap_length \in 1 .. l.max_bytes
  /\ l.max_frames >= n /\ l.max_bytes \div n >= l.snap_length

\* GroupRequest::partition: the remainder goes to the first members.
share(total, i) == total \div count + IF i < total % count THEN 1 ELSE 0

\* What the first members together get of it.
spent(total) ==
  LET sum[n \in 0 .. count] == IF n = 0 THEN 0 ELSE sum[n - 1] + share(total, n - 1) IN sum

GroupInit ==
  /\ limits \in [max_frames : FrameLimits, max_bytes : ByteLimits, snap_length : SnapLengths]
  /\ count \in 1 .. MAX_SOURCES
  /\ validate(limits, count)
  /\ lifecycle = "New" /\ cursor = 0 /\ armed = 0
  /\ sources_ready = {} /\ stop_attempted = {} /\ stop_failed = {}
  /\ shutdown_attempted = {} /\ shutdown_confirmed = {}
  /\ cleanup = 0
  /\ call = "idle" /\ step = 0
  /\ pending = [m \in Members |-> 0]
  /\ skipped = [m \in Members |-> 0]

-----------------------------------------------------------------------------
Enter(c) == call = "idle" /\ call' = c /\ step' = 0
Leave == call' = "idle" /\ step' = 0

\* Mutant of Fail: the error is returned without cleanup.
FailReturns == call' = "idle" /\ step' = 0 /\ lifecycle' = "Closed"

\* fail and shutdown_until: stop_all closes the group, then every member is stopped.
Fail == call' = "stopping" /\ step' = 0 /\ lifecycle' = "Closed"

\* arm, wait_ready and next_captured_frame begin in the right lifecycle or fail.
Call(c, from, to) ==
  /\ IF lifecycle = from
     THEN Enter(c) /\ lifecycle' = to
     ELSE call = "idle" /\ Fail
  /\ UNCHANGED <<requestVars, cursor, armed, memberVars, cleanup, pending, skipped>>

ArmGroup == Call("arm", "New", "Armed")
WaitReady == Call("ready", "Armed", "Armed")
Receive == Call("receive", "Ready", "Ready")

\* arm_sources: the next member is armed; one whose metadata disagree is kept for
\* cleanup and the call fails.
ArmSource ==
  /\ call = "arm" /\ armed < count
  /\ armed' = armed + 1
  /\ Fail \/ UNCHANGED <<call, step, lifecycle>>
  /\ UNCHANGED <<requestVars, cursor, memberVars, cleanup, pending, skipped>>

ArmDone ==
  /\ call = "arm" /\ armed = count
  /\ Leave
  /\ UNCHANGED <<requestVars, lifecycle, cursor, armed, memberVars, cleanup, pending, skipped>>

\* wait_sources_ready: the next member is ready.
ReadySource ==
  /\ call = "ready" /\ step < armed
  /\ sources_ready' = sources_ready \cup {step}
  /\ step' = step + 1
  /\ UNCHANGED <<requestVars, lifecycle, cursor, armed, stop_attempted, stop_failed, shutdown_attempted, shutdown_confirmed, cleanup, call, pending, skipped>>

ReadyDone ==
  /\ call = "ready" /\ step = armed
  /\ Leave /\ lifecycle' = "Ready"
  /\ UNCHANGED <<requestVars, cursor, armed, memberVars, cleanup, pending, skipped>>

\* A member's error, a contract violation, or cancellation ends the call in cleanup.
CallFails ==
  /\ call \in {"arm", "ready", "receive"}
  /\ Fail
  /\ UNCHANGED <<requestVars, cursor, armed, memberVars, cleanup, pending, skipped>>

Advance == cursor' = (cursor + 1) % armed

\* receive_frame: the member at the cursor is polled, in an immediate round over all
\* members and then for one waiting slice; a record ends the call.
PollRecord ==
  /\ call = "receive" /\ pending[cursor] > 0
  /\ Advance
  /\ pending' = [pending EXCEPT ![cursor] = @ - 1]
  /\ skipped' = [m \in Members |-> IF m # cursor /\ pending[m] > 0 THEN skipped[m] + 1 ELSE 0]
  /\ Leave
  /\ UNCHANGED <<requestVars, lifecycle, armed, memberVars, cleanup>>

PollEmpty ==
  /\ call = "receive" /\ pending[cursor] = 0
  /\ Advance
  /\ step' = (step + 1) % (armed + 1)
  /\ UNCHANGED <<requestVars, lifecycle, armed, memberVars, cleanup, call, pending, skipped>>

\* receive_frame: the deadline passed after a full round.
ReceiveNone ==
  /\ call = "receive" /\ step = armed
  /\ Leave
  /\ UNCHANGED <<requestVars, lifecycle, cursor, armed, memberVars, cleanup, pending, skipped>>

-----------------------------------------------------------------------------
\* Session::request_stop, and shutdown_until or Drop.
StopGroup ==
  /\ Enter("stop_only") /\ lifecycle' = "Closed"
  /\ UNCHANGED <<requestVars, cursor, armed, memberVars, cleanup, pending, skipped>>

Shutdown ==
  /\ call = "idle" /\ Fail
  /\ UNCHANGED <<requestVars, cursor, armed, memberVars, cleanup, pending, skipped>>

\* Owned::request_stop, once per member; it may fail.
StopSource ==
  /\ call \in {"stop_only", "stopping"} /\ step < armed
  /\ step' = step + 1
  /\ IF step \in stop_attempted
     THEN UNCHANGED <<stop_attempted, stop_failed, cleanup>>
     ELSE /\ stop_attempted' = stop_attempted \cup {step}
          /\ \/ UNCHANGED <<stop_failed, cleanup>>
             \/ stop_failed' = stop_failed \cup {step} /\ cleanup' = cleanup + 1
  /\ UNCHANGED <<requestVars, lifecycle, cursor, armed, sources_ready, shutdown_attempted, shutdown_confirmed, call, pending, skipped>>

\* stop_all is through.
StopDone ==
  /\ call \in {"stop_only", "stopping"} /\ step = armed
  /\ IF call = "stop_only" THEN Leave ELSE call' = "joining" /\ step' = 0
  /\ UNCHANGED <<requestVars, lifecycle, cursor, armed, memberVars, cleanup, pending, skipped>>

\* Owned::shutdown, once per member; joining and the final statistics may each fail.
JoinSource ==
  /\ call = "joining" /\ step < armed
  /\ step' = step + 1
  /\ IF step \in shutdown_attempted
     THEN UNCHANGED <<shutdown_attempted, shutdown_confirmed, cleanup>>
     ELSE /\ shutdown_attempted' = shutdown_attempted \cup {step}
          /\ \E join_failed, statistics_invalid \in 0 .. 1 :
               /\ cleanup' = cleanup + join_failed + statistics_invalid
               /\ shutdown_confirmed' =
                    IF join_failed = 0 /\ step \notin stop_failed
                    THEN shutdown_confirmed \cup {step} ELSE shutdown_confirmed
  /\ UNCHANGED <<requestVars, lifecycle, cursor, armed, sources_ready, stop_attempted, stop_failed, call, pending, skipped>>

JoinDone ==
  /\ call = "joining" /\ step = armed
  /\ Leave
  /\ UNCHANGED <<requestVars, lifecycle, cursor, armed, memberVars, cleanup, pending, skipped>>

\* A member that is armed and not yet stopped captures a record.
Capture(m) ==
  /\ m \in Armed \ stop_attempted
  /\ pending[m] < MaxPending
  /\ pending' = [pending EXCEPT ![m] = @ + 1]
  /\ UNCHANGED <<requestVars, lifecycle, cursor, armed, memberVars, cleanup, call, step, skipped>>

Begin == ArmGroup \/ WaitReady \/ Receive \/ StopGroup \/ Shutdown
Continue ==
  \/ ArmSource \/ ArmDone \/ ReadySource \/ ReadyDone \/ CallFails
  \/ PollRecord \/ PollEmpty \/ ReceiveNone
  \/ StopSource \/ StopDone \/ JoinSource \/ JoinDone

GroupNext == Begin \/ Continue \/ \E m \in Members : Capture(m)
GroupSpec == GroupInit /\ [][GroupNext]_groupVars

-----------------------------------------------------------------------------
\* Type invariant.
GroupTypeOK ==
  /\ lifecycle \in {"New", "Armed", "Ready", "Closed"}
  /\ cursor \in Members /\ armed \in 0 .. count
  /\ call \in {"idle", "arm", "ready", "receive", "stop_only", "stopping", "joining"}
  /\ step \in 0 .. count
  /\ \A members \in {sources_ready, stop_attempted, stop_failed, shutdown_attempted, shutdown_confirmed} :
       members \subseteq Armed
  /\ cleanup \in Nat
  /\ pending \in [Members -> 0 .. MaxPending]

\* The group is ready only when every requested member is, and a failed call leaves no
\* member running behind, including one armed with wrong metadata: between calls a closed
\* group has stopped all its members.  They share one cleanup deadline, so all are asked to
\* stop before the first is joined; each unconfirmed member was reported.
FailureStopsAll ==
  /\ GroupTypeOK
  /\ lifecycle = "Ready" => sources_ready = Members
  /\ call = "idle" /\ lifecycle = "Closed" => stop_attempted = Armed
  /\ shutdown_attempted # {} => stop_attempted = Armed
  /\ shutdown_confirmed \cap stop_failed = {}
  /\ Cardinality(shutdown_attempted \ shutdown_confirmed) <= cleanup

\* No member starves.  "Rotation after every returned record prevents a busy interface
\* starving the others": a member with a record is passed over at most once by each of the
\* others.  partition spends exactly the shared limits and leaves every member room for a
\* frame and for a full snapshot (validate: "shared queues must hold at least one full
\* snapshot per interface").
NoStarvation ==
  /\ \A m \in Members : skipped[m] <= count - 1
  /\ spent(limits.max_frames)[count] = limits.max_frames
  /\ spent(limits.max_bytes)[count] = limits.max_bytes
  /\ \A m \in Members :
       share(limits.max_frames, m) >= 1 /\ share(limits.max_bytes, m) >= limits.snap_length

\* A group closes as a whole and serves its members in turn.
GroupHonest == FailureStopsAll /\ NoStarvation

-----------------------------------------------------------------------------
(* The inductive invariant.                                                *)

RequestValid ==
  /\ limits \in [max_frames : FrameLimits, max_bytes : ByteLimits, snap_length : SnapLengths]
  /\ count \in 1 .. MAX_SOURCES /\ validate(limits, count)

\* What the call in progress has behind it: the lifecycle it runs in, and the members it has
\* been through.
CallInv ==
  /\ lifecycle = "New" => call = "idle" /\ armed = 0
  /\ call \in {"stop_only", "stopping", "joining"} => lifecycle = "Closed"
  /\ lifecycle = "Closed" => call \in {"idle", "stop_only", "stopping", "joining"}
  /\ call = "arm" => lifecycle = "Armed"
  /\ call = "ready" => lifecycle = "Armed" /\ 0 .. step - 1 \subseteq sources_ready
  /\ call = "receive" => lifecycle = "Ready"
  /\ lifecycle \in {"Armed", "Ready"} /\ call # "arm" => armed = count
  /\ call # "idle" => step <= armed
  /\ call \in {"stop_only", "stopping"} => 0 .. step - 1 \subseteq stop_attempted
  /\ call = "joining" => stop_attempted = Armed
  /\ shutdown_attempted # {} => lifecycle = "Closed"

\* Every member whose stop failed, and every other one whose end is not confirmed, was
\* reported once for it.
CleanupInv ==
  /\ stop_failed \subseteq stop_attempted /\ shutdown_confirmed \subseteq shutdown_attempted
  /\ Cardinality(stop_failed) +
       Cardinality((shutdown_attempted \ shutdown_confirmed) \ stop_failed) <= cleanup

\* The polls until the cursor is at m.
distance(m) == IF m >= cursor THEN m - cursor ELSE m + count - cursor

\* A member with a record is passed over at most once more by each of those before it.
RotationInv ==
  /\ skipped \in [Members -> Nat]
  /\ \A m \in Members :
       /\ skipped[m] + distance(m) <= count - 1
       /\ pending[m] = 0 => skipped[m] = 0

GroupInv == RequestValid /\ GroupHonest /\ CallInv /\ CleanupInv /\ RotationInv
=============================================================================
