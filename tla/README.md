# Verification of PacketcraftR

TLA+ models of the stateful parts of PacketcraftR, model-checked with TLC on
small instances, and proofs, checked by TLAPS, of the safety properties of its
worker pool, captures, blocking calls, caches and published files for every size
of them. `PROJECT.json` holds the index: components, runs, the source lines of
every definition, hazards, mutants, findings and theorems.

- [The system](#the-system)
- [Modules and the code they model](#modules-and-the-code-they-model)
- [How the instances are put together](#how-the-instances-are-put-together)
- [Runs](#runs)
- [Bounds](#bounds)
- [Fairness](#fairness)
- [What is proved](#what-is-proved)
- [What is only model-checked](#what-is-only-model-checked)
- [Disagreements found](#disagreements-found)
- [Not modelled](#not-modelled)

Paths are shortened: `core/`, `netio/`, `lib/` and `cli/` stand for
`src/crates/packetcraftr-core/src/`, `src/crates/packetcraftr-netio/src/`,
`src/crates/packetcraftr/src/` and `src/crates/packetcraftr-cli/src/`.

## The system

PacketcraftR is a Rust workspace of four crates: `core` (packets, codecs, capture
files, analysis), `netio` (native I/O: worker threads, captures, sockets), `lib`
(operations: scan, exchange, trace, DNS, replay, neighbor resolution) and `cli`.

| Part | State | Operations | Interacts with |
|---|---|---|---|
| worker admission | four counters (root, TCP, execution, sockets), phase bits per grant | admit, retain, promote to a socket, finish, last drop | every blocking native call |
| worker threads, reaper | idle, busy and retiring tables, reaper channel | dispatch, reuse, spawn, recycle, retire, join | admission, tasks |
| worker tasks | outcome slot, caller's handle | wait, take, abandon, publish | admission, threads |
| publication runtime | permits, channels of each sink, join slots | start a sink, emit with a timeout, drop, join | callbacks that may hang |
| live capture | bounded queue, statistics, stop flag, owner of the reader | activate, hand over, read, overflow, stop, join, reap | worker pool, capture group |
| capture group | members, lifecycle, cursor | arm, await, poll in rotation, stop all and join all | live captures, scan pipeline |
| TCP connect, host lookup, DNS over TCP | budgets, cancel flags, outcome; octets of one frame | start, poll, cancel, expire, drop | worker pool |
| adaptive controller and feed | windows, waves, ready, delayed and active endpoints, reserved evidence | select, admit, settle, halve, infer, back off, expire | pipeline, connect scan |
| scan pipeline | attempts ready, pending and recent; memory and evidence budgets | refill, rotate, send, read, settle, drain | feed, capture group |
| connect scan, scan stages | pending connects, accounting; approved routes, records of hosts | settle, admit, time out; approve, discover, send, classify | controller, TCP connect |
| neighbor resolver | shared and per-operation caches, requests, evidence | look up, pin, insert, evict; send, wait, retain | the operations that need a link address |
| exchange, probe runner, trace, DNS batch, replay | plan, clock, traffic and evidence accounts | plan, pace, send, drain, correlate, report | captures, neighbors |
| staged output | staging files, names, journal of a process | stage, sync, publish, verify, roll back, sweep | other processes, signals |
| packet build and decode | the layers and the bytes between them | validate, encode, wrap, dissect, rebuild | registry of codecs |
| capture files, live capture files | sections, interfaces, budgets; rotated files | read, write, select, map, merge; rotate, discard, finish | captures, analysis |
| reassembly and analysis | fragments, flows, source spans, HTTP/2 and TCP state | admit, overlap, deliver, evict, cut messages, report | decoded packets |

What makes these hard: a caller gives up at a deadline while the blocking call it
started goes on, so every resource needs an owner after its owner left; charges
move between accounts in any order; threads outlive the work and the network
namespace they were started for; a reply is queued but unread when its deadline
passes; an index kept beside its data must not drift; a writer reads the clock
before it takes the lock; two processes publish to one name; the two directions
of a conversation are read independently of each other; and any step may fail
half way. The hazards of `PROJECT.json` name the line where each of them bites
and the property that would catch it.

## Modules and the code they model

Definitions keep the source's names; where one function becomes several steps,
each step is named for what it does. `PROJECT.json` "map" gives the lines of
each. An action is a whole critical section or handler: what the code does under
one lock, or between two points where another thread can act, is one step.

| Module | Source | How state and actions correspond |
|---|---|---|
| `AdmissionControl` | none: the promise | Grants handed out and returned as sets, with the two limits. |
| `WorkerAdmission` | `netio/workers/admission.rs` | `active`, `rejected`, `retained` are the `Counters` of the four accounts; `phase` is the bit set of `RetentionMarker`; the owners of a grant's `Arc` are `permits`, `reserved`, `leases`. One action per method; the last drop is its own action, for it takes the lock only after the count reached zero. |
| `WorkerThreads` | `netio/workers.rs`, `workers/reaper.rs` | `idle`, `busy`, `retiring` as worker ids. A pass of dispatch's loop is one action; `serve` has a step for receiving, running, publishing and recycling; a thread ends in two steps, its function and its destructors. |
| `WorkerPool` | `netio/workers/task.rs`, `workers.rs` | Composes the two by `INSTANCE`: a job and its grant share an identity, `serve`'s steps settle the grant. Adds the task slot and what the outcome owns. |
| `PublicationRuntime` | `lib/runtime.rs`, `netio/resources` | `new_in_with` step by step, the two one-place channels as sequences, `emit` with its timeout and the separate step that marks the permit, and the reaper that drops the permit and then the slot. |
| `LiveCapture` | `netio/capture/activation.rs`, `capture/live/` | Activation, rendezvous, the reader's loop with its final statistics, the queue with three overflow policies, stop, join, drop and the reaper that nudges a blocked reader. |
| `CaptureGroup` | `netio/capture/group.rs`, `group/source.rs` | One thread of calls; each call is a sequence of steps over the members, which fill meanwhile. |
| `TcpConnect` | `netio/tcp/connect.rs`, `tcp.rs` | `Load` and `CompareExchange` are separate steps; so are the worker's claim, the provider call, the check after it, settlement and publication. |
| `HostLookup` | `netio/resolution.rs`, `workers/task.rs` | The lookup permit, then the root permit, dispatch, the wait that may be given up, and retention in both pools. The resolver is external. |
| `DnsTcp` | `lib/dns/tcp.rs` | The write and read loops of one query, octet by octet as the socket takes and gives them. |
| `NeighborResolver` | `lib/neighbor/{cache,resolver,options}.rs` | A lookup reads the clock, takes the lock and inserts in separate steps; the ordering beside the map is a variable of its own; each operation pins what it used. |
| `NeighborExchange` | `lib/neighbor/{resolver,evidence,wire}.rs` | One discovery: requests, windows, frames that answer, match or do neither, and the retained evidence. |
| `ExchangeExecutor` | `lib/exchange/` | Send and drain of each request, correlation, response slots, collection windows and the guard that shuts the capture down. |
| `ProbeRunner` | `lib/probe/runner.rs`, `runner/`, `evidence/retention.rs` | `run_planned` with a program counter: pacing, execution, merged statistics, evidence and the phases of the time account. |
| `TraceHosts` | `lib/traceroute/hosts/` | Hops of several hosts in turn, answers that are copied to a host with the same path while they are fresh. |
| `ScanStages` | `lib/scan/engine.rs`, `engine/pacing.rs`, `scan/executor.rs` | Approval, neighbor discovery, the discovery and port stages, routes that change between them, and each host's record. |
| `DnsBatch` | `lib/dns/{batch,engine,plan,evidence,report}.rs`, `engine/` | Questions in order; UDP attempts, truncation, fallback to TCP, the best outcome, shared limits. |
| `Replay` | `lib/replay/` | Select, schedule, wait, route, revalidate, send and publish each frame. |
| `StagedOutput` | `cli/staged_output.rs`, `staged_output/unix.rs`, `cli/cancellation.rs` | Each system call of each process is a step; a process can be interrupted or killed between any two. |
| `AdaptiveController` | `lib/scan/adaptive/` | Pure operators on one record (`Controller` and `Work`): `select`, `admitted`, `settle`, `expire`, `qualify_pending`, ... |
| `AdaptiveFeed` | `lib/scan/engine/adaptive_execution/`, `evidence/retention.rs` | `poll` and one action per `Event` the pipeline reports; the reservation `outstanding`. |
| `ConnectScan` | `lib/scan/connect/` | `run_stage_adaptive` with a program counter: settling loop, controller, admission of the wave, pause, time-out. |
| `ScanPipeline` | `lib/scan/executor/pipeline/`, `reply_history.rs`, `scan/plan/reply_identity.rs` | The loop with a program counter; `a` is `Attempts`, `g` the capture group with its queues. |
| `LayerCodecs`, `PacketCodec` | `core/protocol/`, `registry/`, `build.rs`, `decode/`, `fuzz/roundtrip.rs` | A layer is a record of the fields another layer depends on; `encode` and `decode` of each codec are operators, the builder and the dissector are loops over layers. |
| `PacketBuffer` | `core/build/buffer.rs` | The bytes in the middle of a larger storage; a wrap puts a piece before and after them and moves them when a side runs out. Its proof is in the module. |
| `CaptureFiles`, `CaptureRing` | `core/capture_file/`, `cli/commands/network/capture/` | Readers and writers over blocks with their budgets; the rotation of a live capture's files. |
| `IpReassembly`, `TcpReassembly` | `core/analysis/reassembly/`, `analysis/pipeline/` | One action per fragment or segment, with the overlap policy, the memory account and the evictions it causes. |
| `MessageCollector` | `core/analysis/application.rs`, `analysis/messages.rs`, `protocol/framing.rs` | `TcpSources` and the messages cut from a stream, on top of `TcpReassembly`. |
| `TcpExpert`, `Http2Analysis` | `core/analysis/expert`, `analysis/http2/` | The analysis beside a model of the two endpoints, whose frames it sees in an order of its own. |

Composition. `WorkerPool` runs `WorkerAdmission` and `WorkerThreads` together.
`TcpConnect` and `HostLookup` use what `WorkerPool` shows of the pool: an admitted
job runs, its admission is settled, then its outcome is published. `ConnectScan`
uses what `TcpConnect` shows: a connect ends at any time and a cancelled one keeps
its lease until its worker returns. `AdaptiveFeed` and `ConnectScan` run the same
`AdaptiveController`. `AdaptiveFeed` lets the pipeline report what `ScanPipeline`
shows it reports: each attempt is sent or omitted, and a sent one is answered or
timed out, once. `NeighborResolver` asks, and `NeighborExchange` is what happens
while it waits. `MessageCollector` and `TcpExpert` extend `TcpReassembly`, and
`PacketCodec` extends `LayerCodecs`.

Abstractions. Frames, replies and events are a number and the few attributes a
property tells apart. Clocks are natural numbers; time may pass between any two
steps. The round-trip estimator is a choice within its clamp. A layer has the
fields that lengths, boundaries, bindings and checksums depend on. Payloads,
wording and rendering are left out. Counters that saturate in the code are exact
here up to a named bound, except where the saturation is the point (the rejection
counters, the wrapping native drop counter, 32-bit sequence numbers).

`ProbeRunner` leaves out the byte limit of the evidence, `TcpExpert` the window
scale, `Http2Analysis` header compression, CONTINUATION, PRIORITY, PING,
PUSH_PROMISE, informational responses and the resource limits; its SETTINGS carry
the initial window and nothing else, so that no concurrency limit is announced.
In `MessageCollector` two framings of bytes 0 and 1 stand for those of the protocols:
a textual one with keep-alives between messages and malformed input, and a binary
one with an unsupported preface, a message longer than the buffer and an unsupported
format.

## How the instances are put together

A run asks one question of several components that do not share state. Each of its
behaviours runs one of them, chosen initially and named by the variable `subject`;
the others stay as they were created. `MCWorkers`, `MCPackets`, `MCScheduling`,
`MCOperations`, `MCDissection` and `MCConversations` hold the constants, the
initial states and the next-state relation of their components:

| Module | Extends | Instances |
|---|---|---|
| `MCWorkers` | `LiveCapture`, `WorkerThreads`, `PublicationRuntime` | `WorkerPool` |
| `MCScheduling` | `WorkerAdmission`, `CaptureGroup` | `AdaptiveFeed` twice, `ConnectScan`, `ScanPipeline` three times |
| `MCOperations` | `TcpConnect`, `HostLookup`, `StagedOutput`, `NeighborResolver`, `NeighborExchange` | `DnsBatch`, `Replay`, `ProbeRunner`, `TraceHosts`, `ScanStages`, `DnsTcp`, `ExchangeExecutor` |
| `MCPackets` | `PacketCodec` | `PacketBuffer`, `CaptureFiles`, `CaptureRing` |
| `MCDissection` | `MessageCollector` | `IpReassembly` |
| `MCConversations` | `Http2Analysis` | `TcpExpert` |

A component that a theorem is about is extended, so that the run and the proof
name the same definition; the others are instances whose variables are the slots
`x1`, `x2`, ... . A slot that the subject does not use is 0. An invariant of a run
is then a conjunction of implications, one per subject, or the component's own
definition, which an idle component satisfies in its initial state.

## Runs

Every run takes at most about three minutes with two workers.

| Run | What it shows |
|---|---|
| `workers` | `JobsServed`: an accepted job is served by a live thread of its namespace, slots and threads stay within capacity. `ChargesSettled`: an outcome is seen only after its charges are settled, and work nobody waits for is counted as retained. `SinksExact`: the snapshot counts the live permits while a timeout races the reaper, and an answer belongs to its event. `CaptureHonest`: every frame is delivered, queued or counted, no error is swallowed, a reader has an owner. `WorkersEnd`: nobody waits for ever. |
| `scheduling` | `LedgerExact`, `ImplementsControl`: the four counters are the charges of the live grants and implement `AdmissionControl`. `GroupHonest`: a failure stops all members before joining any; rotation starves none. `NoLostWork`, `WindowKept`: no endpoint is out of sight, no probe leaves while its window is full, one cohort halves it once. `AttemptsRecorded`: every connect is in the report, budgets are those of the live attempts, a late reply is not credited to a probe that looks alike and no two pending probes match one reply, a failure keeps the evidence. |
| `pipeline` | `OutcomesSound`: one outcome per attempt, under one capture group, and memory never stalls the loop. `TimelyReplyWins`, `DueAttemptsSettle`: a reply queued in time beats the timeout, and yet a flood of frames cannot keep a due attempt waiting. |
| `calls` | `ConnectHonest`, `NoLateConnection`: `cancel` answers truthfully, an open stream is charged and owned, a late one never becomes a connection. `LookupHonest`: a running resolver is charged to both pools. `DiscoveryEvidence`, `RequestsBounded`: an answer came while a request was waiting, and the evidence says exactly when it lost a frame. `EvidenceHonest`: a DNS query over TCP and an exchange report what happened. `CallsEnd`: they all return. |
| `operations` | `ListsFollowed`: a DNS batch and a replay do what they were asked, in order. `PublishedComplete`, `DestinationKept`: a published file is complete and synced, and an existing one is never lost. `CacheCoherent`, `StalestGoesFirst`: the cache agrees with its orderings and evicts the stalest entry however late a writer takes the lock. |
| `probes` | `ReportExact`, `TimeCharged`: a report has every transmitted probe once and in order, and time is charged. `HopsAccounted`: every hop was probed, or copied from a fresh answer. `StagesSound`: nothing leaves before its target is approved with the route it takes, and every target has one record. |
| `packets` | `BytesPlaced`: every byte of a frame or a buffer has one place. `RebuildExact`, `StrictBuildReads`: what was decoded builds to the same bytes, and what strict mode builds reads back. `FilesFaithful`: files hold the frames they were given, also after a selection, a mapping, a merge or a rotation. |
| `dissection` | `StreamsFaithful`, `MessagesSourced`, `DatagramsExact`: streams, messages and datagrams are the bytes of their segments and fragments as the policy selects them, traced to the frames that carried them, and the memory charged is the memory held. |
| `conversations` | `ConfirmedIsReal`, `MessagesOnce`: an HTTP/2 issue is confirmed only if an endpoint did it, and messages are reported once. `FindingsTrue`: TCP findings are true of what the sender did. |
| `feed_reservation`, `message_split`, `http2_credit` | A property that the code's own comments state is violated; see [Disagreements found](#disagreements-found). |

`WorkersEnd`, `CallsEnd` and `DueAttemptsSettle` are liveness properties;
`NoLateConnection`, `RequestsBounded`, `TimelyReplyWins`, `WindowKept`,
`TimeCharged`, `DestinationKept` and `StalestGoesFirst` are action properties;
`ImplementsControl` is a refinement. The others are invariants, and a component's
type invariant, where it has one, is part of one of them.

Each property has a mutant in `PROJECT.json`: a plausible slip in one mapped
definition under which the same run finds the property violated.

Deadlock checking is off where the modelled system stops by design: all jobs,
attempts or frames of the instance have ended, or the operation's clock has run
out. `packets` runs with it on.

## Bounds

- `workers`. Capture: a queue of two frames and three bytes with lengths 1 and 3,
  so that one long frame evicts two short ones; the native counter starts where it
  wraps. Threads: three jobs, two namespaces and the unknown one, two slots, three
  worker ids, so that a foreign idle worker has to be retired and a third thread
  starts only once one was joined. Pool: two jobs, and a lease that outlives its
  job; reuse of a thread is left to the threads. Sinks: two with capacity 1, and
  three emits, which reach a send after a timeout and one after its late answer.
- `scheduling`. Three grants on two slots, one of them kept for control work, with
  rejection counters that saturate at 1. Groups of one to three members, limits
  with and without remainder. Two hosts with two endpoints and two attempts share
  a window that can grow and halve, with time boxes that end one tick before the
  operation; a lone host has two control responders, each of which has to reply
  twice, and a timeout its time box may cut short. Three endpoints of a host with a
  time box of 2 compete for two connects. A pipeline in which a probe of an IPv6
  extension header follows a TCP probe of the same address, so that a reply may
  match both, and a TCP probe of another address follows them, with two replies
  each, two evidence frames and a capture queue of one; and one of two attempts and
  one reply each, in which a probe of the TCP protocol, without a port, follows a TCP
  probe of the same address.
- `pipeline`. Three attempts over two interfaces, less memory than they need
  together, and one reply each.
- `calls`. Two connects and a budget of one, so that the exchange of the counter is
  contended. Three lookups on two permits. A discovery of two attempts that keeps
  one frame of one byte, of frames of one and two bytes. A query of three octets
  with declared lengths 0 to 3 and a limit of 2. An exchange of two requests with
  frames that are undecodable, corrupt, unstamped, claimed already, ambiguous, or
  a better fit for the second request.
- `operations`. Two questions with different retries, transports and delays, and at
  most one neighbor request per query.
  Replay files of two or three frames from two interfaces under six schedules and
  three routings, with limits that are met. Two processes that publish two files
  and one file, with a common name. Three callers, one of them in an operation,
  three keys and two entries, which live for one tick.
- `probes`. Two batches of two probes, each with at most one frame of each kind that
  answers no probe. Two hosts with three hops on one path. Two
  targets and one change of routes, for every valid combination of options.
- `packets`. Stacks of every built-in protocol, each also with the fields that a
  permissive build accepts; at most eight layers. Permissive builds with and without
  inherited addresses; the round trip is checked without, as the campaign of
  `fuzz/roundtrip.rs` does it. Pieces of up to three bytes in
  buffers limited to 0, 5 and 8. Fifteen single capture files and what selections,
  mappings, rewrites and merges make of them. Rings of up to three files, six
  frames.
- `dissection`. Sequence numbers modulo 8, so that they wrap within four frames; two
  source spans, three buffered bytes, four messages, and what four messages of
  four bytes in all are charged to retain. Both framings. Three datagrams, one of
  them inside another, fourteen fragments, three policies.
- `conversations`. Five HTTP/2 scenarios with windows of 2 and a maximum of 3. TCP
  streams of three bytes, modulo 16, with seven sends.

Named bounds (`MaxLeases`, `MaxWorkers`, `MaxEmits`, `MaxSeen`, `MaxDrops`,
`MaxPending`, `Horizon` and others) stand in guards, and deadlines bound the clocks
as they do in the code. `LeftOut` takes a case out of the `dissection` and
`conversations` instances that a violation run or the last part of
[Disagreements found](#disagreements-found) is about.

## Fairness

Weak fairness, of these steps only:

- threads that can run do (`serve`, reapers, callback loops, capture readers,
  connect and lookup workers): the operating system's scheduler;
- a caller inside a call keeps going: dispatch's polling loop, the start of a
  sink, joins, a discovery, a query, an exchange, the scan loop, whose reads wait
  for milliseconds. Where a call ends at a deadline, time passes;
- in the pool, work returns and callers drop what they own in the end: the promise
  is then about the pool alone;
- a TCP provider's connect returns, since its deadline is the provider's to
  enforce; a resolver need not return, and its caller is released by the deadline;
- the caller that received a capture session too late drops it, which is what the
  code on that path does.

Nothing is assumed of what the code does not control: a callback may never return,
a source may never yield a frame and activation may hang, frames may arrive without
end, a peer may stay silent, no session need be dropped.

Only the subject of a behaviour takes steps, so one weak fairness condition of a run
serves a condition of each of its components: the disjunction is enabled, or taken,
exactly when the subject's own disjunct is.

## What is proved

Eight modules hold theorems: `PacketBuffer`, and `SchedulingProofs`,
`ThreadProofs`, `RuntimeProofs`, `CaptureProofs`, `CallProofs`, `NeighborProofs`
and `OperationProofs`, which extend the components they are about. The constants
are arbitrary up to the named assumptions of each component, which say that a limit
is a natural number (positive where the code refuses zero), that frame lengths are
positive (and at most `max_bytes` in a capture, whose frames are cut at a
`snap_length` that `Limits::validate` refuses to be more), and that a set the code
counts is finite. TLC evaluates the assumptions for every instance.

| Theorem | Statement | Also checked by |
|---|---|---|
| `LedgerTheorem`, `ControlRefinement` | `AdmissionSpec => []LedgerExact`, `AdmissionSpec => ImplementsControl` | `scheduling` |
| `CapacityTheorem`, `BalanceTheorem`, `TypeTheorem`, `ReserveTheorem`, `OwnershipTheorem` | the parts of the ledger: limits, exact accounts, no `usize` underflow, the control reserve; an owned grant is charged | |
| `GroupTheorem` | `GroupHonest` of every capture group | `scheduling` |
| `JobsTheorem` | `JobsServed` | `workers` |
| `SinksTheorem` | `SinksExact` | `workers` |
| `CaptureTheorem` | `CaptureHonest` | `workers` |
| `ConnectTheorem`, `NoLateConnectionTheorem` | `ConnectHonest`, `NoLateConnection` | `calls` |
| `LookupTheorem` | `LookupHonest` | `calls` |
| `RequestsTheorem`, `EvidenceTheorem` | `RequestsBounded`, `DiscoveryEvidence` | `calls` |
| `QueryTheorem` | what a DNS query over TCP reports, `EvidenceHonest`'s part about `DnsTcp` | |
| `CacheTheorem`, `StalestTheorem` | `CacheCoherent`, `StalestGoesFirst` | `operations` |
| `PublishedTheorem`, `DestinationTheorem` | `PublishedComplete`, `DestinationKept` | `operations` |
| `BufferAlwaysExact` | the buffer holds what was wrapped into it, `BytesPlaced`'s part about `PacketBuffer` | |

None of the invariants is inductive as it stands. Each component's module, or its
proof module, states the strengthening.

- `AdmissionInv`. A release subtracts one from an account, and no bound says that
  the account counted the grant. So every account is the *cardinality* of the set of
  grants whose phase and class put them there, this set is finite although the set
  of grants need not be (`FiniteCharges`), and a grant's phase bits and owners
  constrain one another (`PhaseOK`). Each action is then about one grant entering or
  leaving some sets. The refinement maps the granted and unreleased grants to the
  abstract sets; the counters the code compares become the cardinalities the
  abstract guards compare.
- `GroupInv`. A poll passes over a member at most once per other member because the
  passes so far and the distance from the cursor together stay below the number of
  members (`RotationInv`). Where each call stands (`CallInv`), and how far a cleanup
  has come (`CleanupInv`), gives that all are stopped before one is joined. The
  limits are sums of quotients and remainders over the members, which an induction
  over the members shows to add up.
- `ThreadsInv`. A slot is idle, busy or retiring and a thread outlives its table
  entry. `WorkerFollows` ties a worker's table, channel and thread together,
  `JobFollows` a job to its worker, and `PairFollows` says of two jobs of one worker
  that one is done and their namespace is known. Capacity bounds the slots together
  with the threads that have not been joined.
- `RuntimeInv`. The counters are cardinalities of the permits that are live and
  marked; `PermitFollows` says where a permit is between the timeout that marks it
  and the reaper that drops it, `EventFollows` that the channels hold the event of
  the emit that waits for it.
- `CaptureInv`. Frames seen are frames queued, delivered and dropped, in order, with
  the bytes of the queue as their sum (`Accounted`); `HandoffInv` says who owns the
  reader in each step of the rendezvous; `DropsInv` relates the wrapping native
  counter to the statistics across the last reading after the loop.
- `ConnectInv`, `LookupInv`. The budget is the number of leases held; `JobFollows`,
  `OutcomeFollows` and `PermitsFollow` say which permits each state of a worker
  holds and what the cancel flag can still change.
- `QueryInv`. What the socket took is what was offered, the declared length is known
  once two octets were read, and a cancelled query has at most one call left.
- `NeighborInv`. Both caches list in their ordering exactly the entries of their
  map, a caller between two locks holds what it read (`CallTypes`), and an operation
  pins what its members may still insert (`PinnedInv`). The ordering's least element
  exists since the entries are finite.
- `RequestInv`, `EvidenceInv`. A request is prepared only when the window of the last
  one is over. An answer is looked for only once a request was sent and ends the
  exchange, and no more frames are queued and kept than arrived, so that `truncated`
  can be compared with what was lost: frames that came when the evidence was full,
  and old ones that made room for an answer. This rests on what the recursive
  functions compute: the length of the frames up to each (`RunningLengths`,
  `LengthAppend`) and the evidence after each frame of the queue (`RetainAllGrown`).
- `StagedInv`. For each process: what it has synced (`SyncFollows`), what it counts
  as published (`CountFollows`), which staging names exist and are listed for the
  sweep (`NamesFollow`), and the same for files that have no name yet
  (`UnnamedFollow`), whatever the other processes and its own signal handler do.
- `BufferInv`. `BufferExact` with the types it needs; the arithmetic of growth is in
  lemmas of its own.

Induction over data is done with sets. The library's well-foundedness of the
naturals gives `LeastNatural`; from it follow `Induction` for a set of naturals
closed under successor, and that a recursive function exists and has the value its
equation says.

## What is only model-checked

- Liveness: `WorkersEnd`, `CallsEnd`, `DueAttemptsSettle`. The prover has no support
  for weak fairness and `ENABLED`.
- What folds, `RECURSIVE` operators and theorems with an operator parameter say for
  every input: the installed provers cannot instantiate them. This is why nothing is
  proved about the components that are mostly such operators: the codecs, the
  capture files, reassembly, the analyses and the adaptive controller with the feed,
  the connect scan and the scan pipeline that use it.
- The worker pool's composition (`ChargesSettled`); what it rests on is proved of
  its two parts. The operations with a plan (`ProbeRunner`, `TraceHosts`,
  `ScanStages`, `DnsBatch`, `Replay`, `ExchangeExecutor`) keep sequences and sums of
  them in most of their state, and stay with TLC.

## Disagreements found

`feed_reservation`. `Controller::expire` (`lib/scan/adaptive/controller.rs:320`)
gives back the responses an unfinished endpoint may still have had, also for one
whose sent attempt is not settled. The poll that expires a host reads the clock
after `settle_expired` did (`lib/scan/executor/pipeline.rs:377`), so a reply to that
attempt may still be waiting in the capture queue. When it is read, the settlement
(`lib/scan/evidence.rs:229`, `lib/probe/runner/batch_evidence.rs:222`) gives the
unsent retries back again, and an extra reply can take the capacity of a first one.
The comment at `lib/evidence/retention.rs:145` excludes that: "Extra replies can use
only capacity beyond one maximum-size response per outstanding probe. This protects
future winners across batches." Only the retention of a reply's frame is at stake.

`message_split`. A SYN makes the reassembler evict one flow of a conversation while
the other keeps data that waits behind a gap. `FlowState::admit`
(`core/analysis/application.rs:397`) takes the eviction as reuse of the whole tuple
and forgets the source spans of both flows. When the gap is filled, no span is found
for the bytes that waited, and the analysis ends with `Error::Sources`. The comment
at line 387 says "Reassembly can prove tuple reuse from sequence state even when
this collector sees only the new connection's SYN-ACK."

`http2_credit`. The two directions of a connection are read independently, so a
stream's WINDOW_UPDATE can be read before the HEADERS that open the stream, and its
credit is not kept. `reconcile_closed_credit`
(`core/analysis/http2/connection/control/flow_control.rs:150`) nevertheless reports
a confirmed overflow of a sender that stayed within the credit it had received: "A
clean, fully consumed granting direction cannot hide later credit."

Smaller ones, which the properties leave room for where they are stated:

- The HTTP/2 analysis does not follow three more orders of reading: DATA read before
  the stream it belongs to is not debited (with the WINDOW_UPDATE above, "grant" in
  the `LeftOut` of `Http2Analysis`), the server's direction ends before the client's
  first bytes are read ("start"), and a direction ends while its ACK still waits for
  the SETTINGS it acknowledges ("held"). Taking any of the three names out of
  `LeftOut` makes TLC find a confirmed issue of endpoints that follow the protocol;
  `http2_credit` is the run of the first.
- A strict build accepts opaque bytes under TCP, EAPOL and a BSD null header in the
  other byte order which decode as a protocol (`Undecided` in `PacketCodec`),
  although "A discriminator that selects a registered typed codec must have that
  child" (`core/protocol/common/validation.rs:43`).
- A selection may put metadata blocks next to each other that the input spread
  between frames, and exceed the reader's own metadata limit (`SelectionReads` in
  `CaptureFiles`).
- When a ring file cannot be truncated for reuse, it is counted as discarded and
  still reported (`CountedTwice` in `CaptureRing`).

## Not modelled

`PROJECT.json` lists every part of the repository with its status. Left out, with
the reasons there: scan planning, classification and reports, scan discovery and
follow-up, route selection and its cache, identification and OS detection, the
differential engine, policy and audits, the thin send, fuzz and capture workflows,
TCP exchange, TLS and UDP sockets, the platform backends, filters, transforms and
documents, output streams and rendering, commands and settings, errors and
diagnostics. They are pure, or one caller's sequence of calls, or the operating
system's. Partly modelled: the registry (custom codecs are left out), the codecs
(fields no other layer depends on are not told apart), the DNS message parser,
multipath stopping rules of traceroute, the fixed-rate connect scan, the Windows
variant of staged output, TLS, HTTP/1, header compression and statistics in the
analysis.
