---------------------------- MODULE ScanPipeline ----------------------------
(***************************************************************************)
(* The packet scan pipeline: the loop that settles expired probes, refills *)
(* its window from the feed, transmits, and reads capture frames, and the  *)
(* containers of `Attempts` every probe passes through (ready, pending,    *)
(* recent).  Time passes between any two steps of the loop, frames reach   *)
(* the capture queues at any moment, and every fallible call may fail.     *)
(*                                                                         *)
(* A frame is [probe, at, definitive, carried]: the attempt that provoked  *)
(* it, the moment it was queued, whether it settles its probe on its own,  *)
(* and the protocols its IP header and extension headers name.             *)
(* Frames the decoder or the checksum test rejects, frames without an      *)
(* ingress time and repeated records change no state modelled here.        *)
(***************************************************************************)
EXTENDS Integers, Sequences, FiniteSets, FiniteSetsExt, SequencesExt, Functions

CONSTANTS
  Interface,            \* attempt -> the interface of its route (a number)
  ReplyIdentity,        \* attempt -> <<its address, its response_protocol>>
  Opaque,               \* the attempts whose replies carry no identity
  Ipv6, Extensions,     \* the addresses of IPv6, the protocols that extend its header
  HostDeadline,         \* attempt -> host_deadline
  Memory,               \* attempt -> admitted.memory
  FirstInterfaces,      \* plan.interfaces of the first capture group
  timeout, deadline, spacing,
  max_in_flight, max_prepared_bytes, max_probe_bytes, base_bytes,
  max_evidence_frames, max_frames,
  MaxReplies            \* bound: frames one attempt provokes

Indices == DOMAIN Interface
AllInterfaces == Range(Interface)
Address(i) == ReplyIdentity[i][1]
Protocol(i) == ReplyIdentity[i][2]
Protocols == {Protocol(i) : i \in Indices}
NONE == "none"

VARIABLES
  now, pc,
  draining_captures,    \* the result of settle_expired, used until read_frame
  sending,              \* the attempt between prepare and transmit, as a set
  a,                    \* Attempts, with PendingDeadlines and the evidence budget
  g,                    \* the capture group: plan.interfaces, queues, accounting
  history,              \* ReplyHistory: <<interface, address, protocol>> -> 0, 1 or 2
  next_send,
  stream,               \* the feed's last answer: done, next_ready (0 is None)
  log                   \* what was published and observed, for the properties

vars == <<now, pc, draining_captures, sending, a, g, history, next_send, stream, log>>

Bytes(S) == MapThenSumSet(LAMBDA i : Memory[i], S)
Idle == a.ready = {} /\ a.pending = {}
Active == Cardinality(a.ready) + Cardinality(a.pending)
capture_drain_limit(interfaces) == max_frames * Cardinality(interfaces)

Group(interfaces) ==
  [interfaces |-> interfaces, accounted |-> FALSE, next |-> 0,
   queue |-> [s \in AllInterfaces |-> <<>>],
   remaining |-> capture_drain_limit(interfaces)]

Init ==
  /\ now = 0 /\ pc = "settle" /\ draining_captures = FALSE /\ sending = {}
  /\ a = [ready |-> {}, armed_ready |-> {}, previews |-> {}, pending |-> {},
          sent_at |-> [i \in Indices |-> 0], ends |-> [i \in Indices |-> 0],
          best |-> [i \in Indices |-> NONE], passed |-> [i \in Indices |-> 0],
          last_response |-> {}, scheduled |-> {}, draining |-> {},
          recent |-> <<>>, retained |-> base_bytes, evidence |-> 0]
  /\ g = Group(FirstInterfaces)
  /\ history = [k \in AllInterfaces \X {Address(i) : i \in Indices} \X Protocols |-> 0]
  /\ next_send = 0
  /\ stream = [done |-> FALSE, next_ready |-> 0]
  /\ log = [outcome |-> [i \in Indices |-> "unseen"],
            provoked |-> [i \in Indices |-> 0],
            epoch |-> [i \in Indices |-> 0],
            credited |-> [i \in Indices |-> {}],
            accounted |-> <<0>>]

Logged(S, o) == [log EXCEPT !.outcome = [i \in Indices |-> IF i \in S THEN o ELSE @[i]]]

(***************************************************************************)
(* Attempts.                                                               *)
(***************************************************************************)
\* retire_recent, n times: the oldest recent attempts are forgotten.
retire(at, n) ==
  [at EXCEPT !.recent = SubSeq(@, n + 1, Len(@)),
             !.retained = @ - Bytes(Range(SubSeq(at.recent, 1, n)))]

\* `while retained + more > max_prepared_bytes && retire_recent() {}`
retire_for(at, more) ==
  LET enough == {n \in 0 .. Len(at.recent) :
                   retire(at, n).retained + more <= max_prepared_bytes}
  IN  retire(at, IF enough = {} THEN Len(at.recent) ELSE Min(enough))

\* discard_previews: the newest previews go first, until `more` fits.
discard_previews(at, more) ==
  LET newest(n) == {i \in at.previews :
                      Cardinality({j \in at.previews : j >= i}) <= n}
      discard(n) == [at EXCEPT !.previews = @ \ newest(n),
                               !.retained = @ - Bytes(newest(n))]
      all == Cardinality(at.previews)
      enough == {n \in 0 .. all : discard(n).retained + more <= max_prepared_bytes}
  IN  discard(IF enough = {} THEN all ELSE Min(enough))

\* queue, for one of `selected` offers: the preview is kept while a full-size
\* probe still fits beside it.
queue(at, i, selected) ==
  LET keep == /\ at.retained + max_probe_bytes * (selected + 1) <= max_prepared_bytes
              /\ at.retained + Memory[i] + max_probe_bytes <= max_prepared_bytes
  IN  [at EXCEPT !.ready = @ \cup {i},
                 !.armed_ready = IF Interface[i] \in g.interfaces THEN @ \cup {i} ELSE @,
                 !.previews = IF keep THEN @ \cup {i} ELSE @,
                 !.retained = IF keep THEN @ + Memory[i] ELSE @]

\* Attempts::omit and Attempts::prepare take an attempt out of the queue.
unqueue(at, i) ==
  [at EXCEPT !.ready = @ \ {i}, !.armed_ready = @ \ {i}, !.previews = @ \ {i},
             !.retained = IF i \in at.previews THEN @ - Memory[i] ELSE @]

record_sent(at, i) ==
  [at EXCEPT !.pending = @ \cup {i}, !.scheduled = @ \cup {i},
             !.retained = @ + Memory[i], !.sent_at[i] = now,
             !.ends[i] = Min({now + timeout, deadline, HostDeadline[i]})]

\* The responses leave the entry, and the evidence budget, before the event.
publish(at, i) ==
  [at EXCEPT !.best[i] = NONE, !.passed[i] = 0,
             !.evidence = @ - at.passed[i] - (IF at.best[i] = NONE THEN 0 ELSE 1),
             !.last_response = IF at.best[i] = NONE THEN @ \ {i} ELSE @ \cup {i}]

\* The published attempt moves to `recent`, whose oldest entry makes room.
move_to_recent(at, i) ==
  LET r == IF Len(at.recent) = max_in_flight THEN retire(at, 1) ELSE at
  IN  [r EXCEPT !.pending = @ \ {i}, !.scheduled = @ \ {i},
                !.draining = @ \ {i}, !.recent = Append(@, i)]

extension_probe(i) == i \in Opaque /\ Protocol(i) \in Extensions

replies_overlap(i, j) ==
  /\ Address(i) = Address(j) /\ (i \in Opaque \/ j \in Opaque)
  /\ \/ Protocol(i) = Protocol(j)
     \/ Address(i) \in Ipv6 /\ (extension_probe(i) \/ extension_probe(j))

reply_overlaps(i) == \E j \in a.pending : replies_overlap(i, j)

\* complete(i), on attempts `at` and log `l`: the event is published and the
\* attempt becomes recent, or publication fails and it stays pending.
complete(at, l, i, next) ==
  \/ /\ a' = move_to_recent(publish(at, i), i)
     /\ log' = [l EXCEPT !.outcome[i] =
                  IF at.best[i] = NONE THEN "timed_out" ELSE "answered"]
     /\ stream' = [stream EXCEPT !.next_ready = 0]
     /\ pc' = next
  \/ /\ a' = [publish(at, i) EXCEPT !.draining = @ \ {i}]
     /\ log' = l /\ pc' = "fail" /\ UNCHANGED stream

(***************************************************************************)
(* settle_expired: due attempts are set aside, the bounded capture queues  *)
(* are drained, and only then the attempts are completed in index order.   *)
(***************************************************************************)
Due == {i \in a.scheduled : a.ends[i] <= now}

\* Mutant of settle_expired: due attempts are completed before the queues are read.
settle_at_once ==
  /\ pc = "settle" /\ ~(stream.done /\ Idle) /\ now < deadline
  /\ a' = [a EXCEPT !.scheduled = @ \ Due, !.draining = @ \cup Due]
  /\ draining_captures' = FALSE
  /\ pc' = IF a'.draining = {} THEN "refill" ELSE "expire"
  /\ UNCHANGED <<now, sending, g, history, next_send, stream, log>>

settle_expired ==
  /\ pc = "settle" /\ ~(stream.done /\ Idle) /\ now < deadline
  /\ a' = [a EXCEPT !.scheduled = @ \ Due, !.draining = @ \cup Due]
  /\ LET remaining == IF Due = {} THEN g.remaining ELSE capture_drain_limit(g.interfaces)
         drains == a'.draining # {} /\ remaining > 0
     IN  /\ draining_captures' = drains
         /\ g' = [g EXCEPT !.remaining =
                    IF drains THEN remaining ELSE capture_drain_limit(g.interfaces)]
         /\ pc' = IF drains \/ a'.draining = {} THEN "refill" ELSE "expire"
  /\ UNCHANGED <<now, sending, history, next_send, stream, log>>

pop_expired ==
  /\ pc = "expire"
  /\ LET i == Min(a.draining)
     IN  complete(a, log, i, IF a.draining = {i} THEN "refill" ELSE "expire")
  /\ UNCHANGED <<now, draining_captures, sending, g, history, next_send>>

(***************************************************************************)
(* refill: make room, poll the feed for that many attempts, queue them.    *)
(***************************************************************************)
Unseen == {i \in Indices : log.outcome[i] = "unseen"}

\* The feed's answer: the next n attempts in index order, whether all its
\* work is settled, and when to ask again.
Poll(n, d, next_ready) ==
  /\ n <= Cardinality(Unseen)
  /\ d = (Unseen = {} /\ Idle /\ sending = {})
  /\ next_ready \in IF n = 0 /\ ~d THEN {0, now + 1} ELSE {0}

refill ==
  /\ pc = "refill"
  /\ IF \/ draining_captures \/ Active >= max_in_flight
        \/ now < next_send \/ stream.next_ready > now
     THEN pc' = "omit" /\ UNCHANGED <<a, stream, log>>
     ELSE LET roomy == discard_previews(retire_for(a, max_probe_bytes), max_probe_bytes)
              room == max_prepared_bytes - roomy.retained
              offered == Min({max_in_flight - Active, room \div max_probe_bytes})
          IN  IF offered <= 0
              THEN /\ a' = roomy /\ UNCHANGED <<stream, log>>
                   /\ pc' = IF a.pending = {} THEN "fail" ELSE "omit"
              ELSE \E n \in 0 .. offered, d \in BOOLEAN, next_ready \in 0 .. deadline + 1 :
                     LET first == Cardinality(Indices) - Cardinality(Unseen)
                         offers == first .. first + n - 1
                     IN  /\ Poll(n, d, next_ready)
                         /\ stream' = [done |-> d, next_ready |-> next_ready]
                         /\ a' = FoldLeft(LAMBDA at, i : queue(at, i, n), roomy,
                                          SetToSortSeq(offers, <))
                         /\ log' = Logged(offers, "offered")
                         /\ pc' = "rotate_refill"
  /\ UNCHANGED <<now, draining_captures, sending, g, history, next_send>>

(***************************************************************************)
(* rotate_if_needed: a queued route outside the armed interfaces replaces  *)
(* the capture group, but never under an attempt in flight.                *)
(***************************************************************************)
RouteChanges == \E i \in a.ready : Interface[i] \notin g.interfaces

rotate_needed == RouteChanges /\ a.pending = {}

\* account_group: the statistics of the group are added once.
account_group(l) ==
  IF g.accounted THEN l ELSE [l EXCEPT !.accounted[Len(l.accounted)] = @ + 1]

begin_epoch(at) == [retire(at, Len(at.recent)) EXCEPT !.armed_ready = at.ready]

rotate_if_needed ==
  /\ pc \in {"rotate_refill", "rotate_send"}
  /\ IF ~rotate_needed
     THEN /\ pc' = IF pc = "rotate_refill" THEN "omit" ELSE "send"
          /\ UNCHANGED <<a, g, log>>
     ELSE LET closed == account_group(log)
              opened == [closed EXCEPT !.accounted = Append(@, 0)]
              next == {Interface[i] : i \in a.ready}
          IN  \/ \* shutdown, its accounting, or Group::new fails
                 /\ g' = [g EXCEPT !.accounted = TRUE]
                 /\ log' = closed /\ pc' = "fail" /\ UNCHANGED a
              \/ \* arm or wait_ready fails: the new group is still to be closed
                 /\ g' = Group(next)
                 /\ log' = opened /\ pc' = "fail"
                 /\ a' = retire(a, Len(a.recent))
              \/ /\ g' = Group(next)
                 /\ log' = opened
                 /\ a' = begin_epoch(a)
                 /\ pc' = IF pc = "rotate_refill" THEN "omit" ELSE "send"
  /\ UNCHANGED <<now, draining_captures, sending, history, next_send, stream>>

(***************************************************************************)
(* send_ready.                                                             *)
(***************************************************************************)
ExpiredReady == {i \in a.ready : HostDeadline[i] <= now}
Unqueued(S) == FoldSet(LAMBDA i, at : unqueue(at, i), a, S)

\* Every ready attempt of an expired host is omitted, earliest deadline
\* first; publication of an omission may fail after the attempt left.
omit_expired ==
  /\ pc = "omit"
  /\ \/ /\ a' = Unqueued(ExpiredReady)
        /\ log' = Logged(ExpiredReady, "omitted")
        /\ stream' = IF ExpiredReady = {} THEN stream ELSE [stream EXCEPT !.next_ready = 0]
        /\ pc' = "rotate_send"
     \/ \E i \in ExpiredReady :
          LET before == {j \in ExpiredReady :
                           \/ HostDeadline[j] < HostDeadline[i]
                           \/ HostDeadline[j] = HostDeadline[i] /\ j < i}
          IN  /\ a' = Unqueued(before \cup {i})
              /\ log' = Logged(before, "omitted")
              /\ pc' = "fail" /\ UNCHANGED stream
  /\ UNCHANGED <<now, draining_captures, sending, g, history, next_send>>

\* After one send, or one omission, the loop goes on only without pacing.
AfterSend == IF spacing = 0 THEN "send" ELSE "read"

\* Mutant of omit: the attempt stays queued.
omit_requeued(at, i) ==
  /\ a' = [at EXCEPT !.previews = @ \ {i},
                     !.retained = IF i \in at.previews THEN @ - Memory[i] ELSE @]
  /\ \/ /\ log' = Logged({i}, "omitted")
        /\ stream' = [stream EXCEPT !.next_ready = 0]
        /\ pc' = AfterSend
     \/ pc' = "fail" /\ UNCHANGED <<log, stream>>

\* omit: the attempt leaves the queue, and the feed is told.
omit(at, i) ==
  /\ a' = unqueue(at, i)
  /\ \/ /\ log' = Logged({i}, "omitted")
        /\ stream' = [stream EXCEPT !.next_ready = 0]
        /\ pc' = AfterSend
     \/ pc' = "fail" /\ UNCHANGED <<log, stream>>

Sendable == {i \in a.armed_ready : ~reply_overlaps(i)}

\* The head of the send loop, up to the prepared packet.
send ==
  /\ pc = "send"
  /\ IF \/ draining_captures \/ Cardinality(a.pending) >= max_in_flight
        \/ now < next_send \/ Sendable = {}
     THEN pc' = "read" /\ UNCHANGED <<a, sending, stream, log>>
     ELSE LET i == Min(Sendable)
              roomy == retire_for(a, Memory[i])
          IN  IF roomy.retained + Memory[i] > max_prepared_bytes
              THEN a' = roomy /\ pc' = "read" /\ UNCHANGED <<sending, stream, log>>
              ELSE /\ now < deadline
                   /\ IF HostDeadline[i] <= now
                      THEN omit(roomy, i) /\ UNCHANGED sending
                      ELSE /\ a' = unqueue(roomy, i) /\ sending' = {i}
                           /\ pc' = "transmit" /\ UNCHANGED <<stream, log>>
  /\ UNCHANGED <<now, draining_captures, g, history, next_send>>

sent(h, i) ==
  [h EXCEPT ![<<Interface[i], Address(i), Protocol(i)>>] = Min({@ + 1, 2})]

\* The rest of the send: the host may have expired while the packet was
\* prepared.  The Sent event is published after the attempt is recorded.
transmit ==
  /\ pc = "transmit" /\ now < deadline
  /\ sending' = {}
  /\ \E i \in sending :
       IF HostDeadline[i] <= now
       THEN omit(a, i) /\ UNCHANGED <<history, next_send>>
       ELSE /\ a' = record_sent(a, i)
            /\ history' = sent(history, i)
            /\ log' = [Logged({i}, "sent") EXCEPT !.epoch[i] = Len(log.accounted)]
            /\ \/ next_send' = now + spacing /\ pc' = AfterSend
               \/ pc' = "fail" /\ UNCHANGED next_send
            /\ UNCHANGED stream
  /\ UNCHANGED <<now, draining_captures, g>>

(***************************************************************************)
(* read_frame and ingest.                                                  *)
(***************************************************************************)
\* Group::next_captured_frame: the first source with a frame, from `next` on.
Sources == {s \in g.interfaces : g.queue[s] # <<>>}
Turn(s) == (s - g.next) % (Max(AllInterfaces) + 1)
NextSource == CHOOSE s \in Sources : \A t \in Sources : Turn(s) <= Turn(t)

\* The attempts frame f is an observation of, and those whose window it is in.
Observes(f, i) ==
  /\ Interface[i] = Interface[f.probe]
  /\ \/ i = f.probe
     \/ i \in Opaque /\ Address(i) = Address(f.probe) /\ Protocol(i) \in f.carried

candidates(f) ==
  {i \in a.pending : Observes(f, i) /\ a.sent_at[i] <= f.at /\ f.at <= a.ends[i]}

\* Mutant of ambiguous: the history is not looked at.
never_ambiguous(f, i) == FALSE

\* A reply without identity that an earlier transmission also explains.
ambiguous(f, i) ==
  i \in Opaque /\ \E p \in f.carried :
    history[<<Interface[i], Address(i), p>>] > IF p = Protocol(i) THEN 1 ELSE 0

\* buffer_duplicate: kept only within the evidence limit.
buffer_duplicate(at, i) ==
  IF at.evidence + 1 <= max_evidence_frames
  THEN [at EXCEPT !.passed[i] = @ + 1, !.evidence = @ + 1]
  ELSE at

\* A first winner takes the place of a buffered duplicate when there is no
\* spare room; a better one takes the place of the previous winner.
Duplicated == {i \in a.pending : a.passed[i] > 0}
NoRoom == a.evidence + 1 > max_evidence_frames

accept(i, kind) ==
  IF a.best[i] # NONE
  THEN buffer_duplicate(
         [a EXCEPT !.best[i] = IF kind = "definitive" THEN kind ELSE @], i)
  ELSE IF NoRoom
       THEN [a EXCEPT !.best[i] = kind, !.passed[Min(Duplicated)] = @ - 1]
       ELSE [a EXCEPT !.best[i] = kind, !.evidence = @ + 1]

ingest(f) ==
  IF Cardinality(candidates(f)) # 1 \/ \E i \in candidates(f) : ambiguous(f, i)
  THEN pc' = "settle" /\ UNCHANGED <<a, stream, log>>
  ELSE LET i == Min(candidates(f))
           l == [log EXCEPT !.credited[i] = @ \cup {f.probe}]
           kind == IF f.definitive THEN "definitive" ELSE "weak"
       IN  IF a.best[i] = NONE /\ NoRoom /\ Duplicated = {}
           THEN pc' = "fail" /\ UNCHANGED <<a, stream, log>>
           ELSE IF f.definitive
                THEN complete(accept(i, kind), l, i, "settle")
                ELSE a' = accept(i, kind) /\ log' = l /\ pc' = "settle" /\ UNCHANGED stream

Popped ==
  IF Sources = {} THEN g
  ELSE [g EXCEPT !.queue[NextSource] = Tail(@), !.next = NextSource + 1]

\* Mutant of read_frame: draining is not bounded.
read_without_limit ==
  /\ pc = "read" /\ ~(stream.done /\ Idle) /\ now < deadline
  /\ g' = Popped
  /\ IF Sources = {}
     THEN pc' = "settle" /\ UNCHANGED <<a, stream, log>>
     ELSE ingest(Head(g.queue[NextSource]))
  /\ UNCHANGED <<now, draining_captures, sending, history, next_send>>

read_frame ==
  /\ pc = "read" /\ ~(stream.done /\ Idle) /\ now < deadline
  /\ g' = [Popped EXCEPT !.remaining =
             IF ~draining_captures THEN @ ELSE IF Sources = {} THEN 0 ELSE @ - 1]
  /\ IF Sources = {}
     THEN pc' = "settle" /\ UNCHANGED <<a, stream, log>>
     ELSE ingest(Head(g.queue[NextSource]))
  /\ UNCHANGED <<now, draining_captures, sending, history, next_send>>

(***************************************************************************)
(* The end of drive, and finish.                                           *)
(***************************************************************************)
LoopPoints == {"settle", "expire", "refill", "rotate_refill", "omit",
               "rotate_send", "send", "transmit", "read"}
Ends == {"ok", "failed"}

drained ==
  /\ pc \in {"settle", "read"} /\ stream.done /\ Idle
  /\ pc' = IF now < deadline THEN "finish" ELSE "fail"
  /\ UNCHANGED <<now, draining_captures, sending, a, g, history, next_send, stream, log>>

\* The deadline checks of drive, send and read_frame.
out_of_time ==
  /\ pc \in {"settle", "send", "transmit", "read"} /\ now >= deadline
  /\ pc' = "fail"
  /\ UNCHANGED <<now, draining_captures, sending, a, g, history, next_send, stream, log>>

\* Cancellation, and errors of the providers and of a poll.
interrupted ==
  /\ pc \in LoopPoints
  /\ pc' = "fail"
  /\ UNCHANGED <<now, draining_captures, sending, a, g, history, next_send, stream, log>>

\* The last group is shut down and accounted; shutdown, accounting or the
\* qualification event may still fail.
finish ==
  /\ pc \in {"finish", "fail"}
  /\ log' = account_group(log)
  /\ g' = [g EXCEPT !.accounted = TRUE]
  /\ pc' \in IF pc = "finish" THEN Ends ELSE {"failed"}
  /\ UNCHANGED <<now, draining_captures, sending, a, history, next_send, stream>>

(***************************************************************************)
(* The environment: time, and replies to what was transmitted.             *)
(***************************************************************************)
Tick ==
  /\ pc \in LoopPoints /\ now < deadline
  /\ now' = now + 1
  /\ UNCHANGED <<pc, draining_captures, sending, a, g, history, next_send, stream, log>>

\* What a reply to attempt i may carry: its protocol, and over IPv6 extension headers
\* before it, or another protocol after it if it is an extension header itself.
Replies(i) ==
  {c \in SUBSET Protocols : /\ Protocol(i) \in c /\ Cardinality(c \ Extensions) <= 1
                            /\ Address(i) \in Ipv6 \/ c = {Protocol(i)}}

\* The open group queues a frame, unless its source's queue is full.
Arrive(i, definitive, carried) ==
  LET s == Interface[i]
  IN  /\ pc \in LoopPoints
      /\ log.outcome[i] \in {"sent", "answered", "timed_out"}
      /\ log.provoked[i] < MaxReplies
      /\ s \in g.interfaces /\ Len(g.queue[s]) < max_frames
      /\ g' = [g EXCEPT !.queue[s] =
                 Append(@, [probe |-> i, at |-> now, definitive |-> definitive,
                            carried |-> carried])]
      /\ log' = [log EXCEPT !.provoked[i] = @ + 1]
      /\ UNCHANGED <<now, pc, draining_captures, sending, a, history, next_send, stream>>

Loop ==
  \/ settle_expired \/ pop_expired \/ refill \/ rotate_if_needed \/ omit_expired
  \/ send \/ transmit \/ read_frame \/ drained \/ out_of_time \/ finish

Next ==
  \/ Loop \/ interrupted \/ Tick
  \/ \E i \in Indices, definitive \in BOOLEAN :
       \E carried \in Replies(i) : Arrive(i, definitive, carried)

Spec == Init /\ [][Next]_vars

\* The loop never blocks: every read waits for at most a few milliseconds.
FairSpec == Spec /\ WF_vars(Loop)

(***************************************************************************)
(* Properties.                                                             *)
(***************************************************************************)
\* The state has its declared shape.
PipelineTypeOK ==
  /\ now \in 0 .. deadline /\ pc \in LoopPoints \cup Ends \cup {"finish", "fail"}
  /\ draining_captures \in BOOLEAN /\ sending \subseteq Indices
  /\ a.armed_ready \subseteq a.ready /\ a.previews \subseteq a.ready
  /\ a.ready \cup a.pending \cup Range(a.recent) \subseteq Indices
  /\ a.best \in [Indices -> {NONE, "weak", "definitive"}]
  /\ a.passed \in [Indices -> Nat] /\ a.retained \in Nat /\ a.evidence \in Nat
  /\ g.remaining \in 0 .. max_frames * Cardinality(AllInterfaces)
  /\ \A k \in DOMAIN history : history[k] \in 0 .. 2

\* Every offered attempt is in exactly one place until exactly one outcome (answered,
\* timed out, omitted) is published for it.  Each attempt in flight has exactly one entry
\* of PendingDeadlines, scheduled or draining, and no settled attempt has one (expiry.rs):
\* a stale entry would make pop_expired complete an attempt twice.
OneOutcome ==
  LET is(o) == {i \in Indices : log.outcome[i] = o}
  IN  /\ PipelineTypeOK
      /\ is("sent") = a.pending
      /\ pc \in LoopPoints => is("offered") = a.ready \cup sending
      /\ Range(a.recent) \subseteq is("answered") \cup is("timed_out")
      /\ pc = "ok" => is("offered") \cup is("sent") \cup is("unseen") = {}
      /\ a.scheduled \cap a.draining = {}
      /\ pc \in LoopPoints => a.pending = a.scheduled \cup a.draining

\* An attempt lives its whole response window in the capture group it was
\* sent under: groups rotate only between intervals (capture_lifecycle.rs,
\* "no negative interval spans an unobserved cleanup/activation gap").  Every
\* group's statistics are added to the result exactly once, also when closing
\* it, opening its successor or the loop itself fails.
OneEpochPerInterval ==
  /\ \A i \in a.pending : log.epoch[i] = Len(log.accounted) /\ Interface[i] \in g.interfaces
  /\ \A e \in 1 .. Len(log.accounted) :
       log.accounted[e] = IF e < Len(log.accounted) \/ g.accounted THEN 1 ELSE 0

\* Every attempt gets one outcome, within one capture group.
OutcomesSound == OneOutcome /\ OneEpochPerInterval

\* With nothing in flight an unpaced loop never goes to wait for frames while
\* attempts are queued: memory, overlap and unarmed interfaces cannot stall
\* it, so the operation does not sit idle until its deadline.
NothingStalls ==
  spacing = 0 /\ pc = "read" /\ ~draining_captures /\ a.pending = {} => a.ready = {}

\* What admission relies on is exact through every queue, discard, send, completion and
\* retirement: `retained` is the base plus what previews, pending and recent attempts
\* hold, the evidence budget is what the attempts in flight hold (duplicates yield to
\* winners), and both stay within their limits.  The candidate index never exceeds two
\* windows, so `insert` cannot refuse a transmitted attempt.
BudgetsExact ==
  /\ a.retained = base_bytes + Bytes(a.previews) + Bytes(a.pending) + Bytes(Range(a.recent))
  /\ a.retained <= max_prepared_bytes
  /\ a.evidence = MapThenSumSet(LAMBDA i : a.passed[i] + (IF a.best[i] = NONE THEN 0 ELSE 1),
                                a.pending)
  /\ a.evidence <= max_evidence_frames
  /\ Active + Cardinality(sending) <= max_in_flight
  /\ Len(a.recent) <= max_in_flight

\* A reply is credited only to the attempt that provoked it, even when a
\* reply without identity also matches a later attempt (reply_history.rs);
\* and no reply is left uncredited because two pending attempts both match
\* it: the later of them waits to be sent (replies_overlap).
CreditedToItsProbe ==
  /\ \A i \in Indices : log.credited[i] \subseteq {i}
  /\ \A s \in g.interfaces : \A n \in DOMAIN g.queue[s] :
       Cardinality(candidates(g.queue[s][n])) <= 1

\* A failed operation reports every attempt whose outcome it did not publish,
\* with the reply it had accepted for it (Attempts::complete,
\* pending_evidence).
FailureKeepsEvidence ==
  pc = "failed" =>
    \A i \in Indices : log.outcome[i] = "sent" =>
      /\ i \in a.pending
      /\ log.credited[i] # {} => a.best[i] # NONE \/ i \in a.last_response

\* An attempt is published as timed out only when no reply queued before its
\* deadline is still unread (settle_expired: "Keep due probes until the
\* bounded queues are drained").
TimelyReplyWins ==
  [][\A i \in Indices \ Opaque :
       log.outcome[i] = "sent" /\ log'.outcome[i] = "timed_out" =>
         \A s \in g.interfaces : \A f \in Range(g.queue[s]) :
           f.probe = i => f.at >= a.ends[i]]_vars

\* Draining ends: the due attempts are all completed however many frames keep
\* arriving, unless the operation fails first.
DueAttemptsSettle == a.draining # {} ~> (a.draining = {} \/ pc \notin LoopPoints)
=============================================================================
