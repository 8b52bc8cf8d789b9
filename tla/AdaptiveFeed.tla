---------------------------- MODULE AdaptiveFeed ----------------------------
(***************************************************************************)
(* The raw adaptive scan: the feed that offers the controller's waves to   *)
(* the packet pipeline, hears what became of each attempt, and keeps the   *)
(* evidence capacity reserved for replies in step.                         *)
(* packetcraftr/src/scan/engine/adaptive_execution/feed.rs, scan/engine.rs,*)
(* evidence/retention.rs; the pipeline is modelled by what it may report.  *)
(***************************************************************************)
EXTENDS AdaptiveController

CONSTANTS
  Hosts,            \* host indices, 0 .. n - 1
  Timeouts,         \* what the estimator's clamp allows
  operation_end     \* the operation's deadline; bounds the clock

FeedAssumption == operation_end \in Nat /\ \A t \in Timeouts : t > 0

VARIABLES
  st,               \* Controller and Work
  active,           \* Feed::active: selections with their `sent` flag
  outstanding,      \* EvidenceState::outstanding_responses
  stage,            \* 1 discovery, 2 scan
  phase,            \* "open", "finished" or "failed"
  now,
  answered          \* history: endpoints of this stage whose reply was used

feedVars == <<st, active, outstanding, stage, phase, now, answered>>

InOrder(T) == SetToSortSeq(T, <)
Probes(T) == Cardinality(T) * Cardinality(Endpoints) * max_attempts

\* EvidenceState::release_responses, settle_response.
release(n, k) == AtLeast(n - k, 0)

\* Feed::new: condition inference waits until the stage is qualified.
begin_stage(c, T, t) == open_stage([c EXCEPT !.defer = TRUE], InOrder(T), t)

FeedInit ==
  /\ st = begin_stage(Controller0(Hosts), Hosts, 0)
  /\ active = {} /\ answered = {}
  /\ outstanding = 2 * Probes(Hosts)     \* both stages of every target
  /\ stage = 1 /\ phase = "open" /\ now = 0

Enforced == phase = "open" /\ now < operation_end

\* Feed::release_canceled.
release_canceled(next, left) ==
  /\ outstanding' = release(left, next.canceled)
  /\ st' = [next EXCEPT !.canceled = 0]

\* Feed::poll: the pipeline has room for `capacity` more attempts.
Poll(capacity, rtos) ==
  /\ Enforced
  /\ LET room == AtLeast(window(st) - Cardinality(active), 0)
         wave == select(st, now, operation_end, AtMost(capacity, room), rtos)
         offered == {wave.selections[k] : k \in DOMAIN wave.selections}
     IN /\ release_canceled(FoldLeft(admitted, wave.st, wave.selections), outstanding)
        /\ active' = active \cup {[sel |-> s, sent |-> FALSE, deadline |-> None] : s \in offered}
  /\ UNCHANGED <<stage, phase, now, answered>>

\* PipelineEvent::Sent.  The pipeline sends before the host deadline only, and
\* observes no longer than that.
Sent(a) ==
  /\ Enforced /\ ~a.sent /\ now < a.sel.host_deadline
  /\ LET limited == a.sel.host_limited \/ now + a.sel.timeout > a.sel.host_deadline
         b == [sel |-> [a.sel EXCEPT !.host_limited = limited], sent |-> TRUE,
               deadline |-> AtMost(now + a.sel.timeout, a.sel.host_deadline)]
     IN /\ active' = (active \ {a}) \cup {b}
        /\ st' = commit_attempt(st, b.sel, now)
  /\ UNCHANGED <<outstanding, stage, phase, now, answered>>

\* PipelineEvent::Completed with a reply, possibly drained from the capture
\* queue after the observation ended: BatchEvidence::process gives up the
\* reservations of the attempt and of the retries it makes unnecessary.
Answered(a, outcome) ==
  /\ Enforced /\ a.sent /\ outcome \in Replies
  /\ active' = active \ {a}
  /\ answered' = answered \cup {<<a.sel.slot, a.sel.endpoint>>}
  /\ release_canceled(settle(st, a.sel, outcome, 0, now),
                      release(release(outstanding, 1), max_attempts - a.sel.attempt))
  /\ UNCHANGED <<stage, phase, now>>

\* PipelineEvent::Completed without a reply.
Unanswered(a) ==
  /\ Enforced /\ a.sent /\ now >= a.deadline
  /\ active' = active \ {a}
  /\ LET heard == IF a.sel.host_limited THEN mark_incomplete(st, a.sel.host) ELSE st
         outcome == IF a.sel.host_limited THEN "Aborted" ELSE "UnqualifiedSilence"
     IN release_canceled(settle(heard, a.sel, outcome, 0, now), release(outstanding, 1))
  /\ UNCHANGED <<stage, phase, now, answered>>

\* PipelineEvent::Omitted: the host deadline came before the attempt was sent.
Omitted(a) ==
  /\ Enforced /\ ~a.sent /\ now >= a.sel.host_deadline
  /\ active' = active \ {a}
  /\ release_canceled(settle(mark_incomplete(st, a.sel.host), a.sel, "Omitted", 0, now), outstanding)
  /\ UNCHANGED <<stage, phase, now, answered>>

\* Pipeline::finish publishes the stage's qualification if anything was sent.
Qualified(permits, rtos) ==
  IF \E i \in DOMAIN st.slots, e \in Endpoints : st.slots[i].endpoints[e].sent > 0
  THEN qualify_pending(st, permits, rtos) ELSE st

\* engine.rs: discovery settled; the scan stage runs on the targets it left.
NextStage(permits, rtos, T) ==
  /\ Enforced /\ stage = 1 /\ done(st) /\ active = {}
  /\ st' = begin_stage(Qualified(permits, rtos), T, now)
  /\ outstanding' = Probes(T)
  /\ stage' = 2 /\ answered' = {}
  /\ UNCHANGED <<active, phase, now>>

\* engine.rs: the scan stage settled.
Finish(permits, rtos) ==
  /\ Enforced /\ stage = 2 /\ done(st) /\ active = {}
  /\ st' = Qualified(permits, rtos)
  /\ phase' = "finished"
  /\ UNCHANGED <<active, outstanding, stage, now, answered>>

\* Deadline::enforce at the next call or event.
DeadlineExceeded ==
  /\ phase = "open" /\ now >= operation_end
  /\ phase' = "failed"
  /\ UNCHANGED <<st, active, outstanding, stage, now, answered>>

Tick ==
  /\ phase = "open" /\ now < operation_end
  /\ now' = now + 1
  /\ UNCHANGED <<st, active, outstanding, stage, phase, answered>>

FeedNext ==
  \/ \E rtos \in [Hosts -> Timeouts] :
       \/ \E capacity \in 1 .. max_in_flight - Cardinality(active) : Poll(capacity, rtos)
       \/ \E permits \in BOOLEAN :
            \/ \E T \in SUBSET Hosts \ {{}} : NextStage(permits, rtos, T)
            \/ Finish(permits, rtos)
  \/ \E a \in active :
       \/ Sent(a) \/ Unanswered(a) \/ Omitted(a)
       \/ \E outcome \in Replies : Answered(a, outcome)
  \/ DeadlineExceeded
  \/ Tick

FeedSpec == FeedInit /\ [][FeedNext]_feedVars
-----------------------------------------------------------------------------
OpenEndpoints(i) == {e \in Endpoints : ~st.slots[i].endpoints[e].finished}
ActiveOn(i) == {a \in active : a.sel.slot = i}

\* Every field is of its type and no index names a slot that is not there.
FeedTypeOK ==
  /\ now \in 0 .. operation_end /\ stage \in 1 .. 2 /\ phase \in {"open", "finished", "failed"}
  /\ outstanding \in Nat /\ st.canceled = 0
  /\ st.runnable \subseteq DOMAIN st.slots
  /\ st.cursor \in DOMAIN st.slots
  /\ \A h \in Hosts : st.hosts[h].uncommitted \in 0 .. max_in_flight
  /\ \A i \in DOMAIN st.slots : st.slots[i].unfinished \in 0 .. Cardinality(Endpoints)

\* refresh_slot: no unfinished work is ever out of sight.  Every unfinished endpoint
\* is ready, delayed or active, and only one of them; and unless an attempt to a
\* paced host is still to be sent, ready endpoints are runnable or have a wake and
\* every delayed retry is looked at no later than it is due.  commit_attempt's assertion,
\* and more: each attempt number of an endpoint is admitted once and in order.
NoLostWork ==
  /\ FeedTypeOK
  /\ \A i \in DOMAIN st.slots :
       LET s == st.slots[i]
           h == st.hosts[s.host] IN
       /\ \A e \in OpenEndpoints(i) :
            Cardinality({x \in {"ready"} : e \in s.ready}
                          \cup {d \in s.delayed : d[2] = e}
                          \cup {a \in active : a.sel.slot = i /\ a.sel.endpoint = e}) = 1
       /\ OpenEndpoints(i) # {} /\ ~paced_out(h) =>
            /\ s.ready # {} => i \in st.runnable \/ s.wake # None
            /\ \A d \in s.delayed : s.wake \in 0 .. AtLeast(d[1], gap_end(h))
  /\ \A a \in active :
       LET endpoint == st.slots[a.sel.slot].endpoints[a.sel.endpoint] IN
       /\ endpoint.pending
       /\ a.sel.attempt = endpoint.sent + (IF a.sent THEN 0 ELSE 1)
       /\ a.sel.attempt <= max_attempts

\* Feed::poll: the window stays between its minimum and max_in_flight, and no poll
\* takes the active attempts past the window, however far it shrank below them.
\* qualify_pending: "Raw silence cannot reduce the live stage's window before this
\* point": while a stage runs the window only grows.
RespectsWindow ==
  /\ st'.window \in min_window .. max_in_flight
  /\ Cardinality(active') > Cardinality(active) => Cardinality(active') <= window(st)
  /\ stage' = stage /\ phase' # "finished" => st'.window >= st.window

WindowRespected == [][RespectsWindow]_feedVars

\* mark_incomplete: a host that is not reported incomplete had every endpoint
\* answered or every attempt of it made: no cut-short silence looks like a result.
\* select, admitted, Sent: no attempt is observed past its host's time box.
CompleteMeansObserved ==
  /\ \A i \in DOMAIN st.slots : \A e \in Endpoints :
       LET endpoint == st.slots[i].endpoints[e] IN
       /\ endpoint.finished /\ ~endpoint.pending /\ <<i, e>> \notin answered
       /\ endpoint.sent < max_attempts
       => st.hosts[st.slots[i].host].incomplete
  /\ \A a \in active :
       /\ a.sent => a.deadline <= st.hosts[a.sel.host].first + host_timeout
       /\ a.sel.host_deadline <= st.hosts[a.sel.host].first + host_timeout

\* A response that may still come: an attempt sent and not settled, or one not yet
\* made of an endpoint that is still open.
Awaited ==
  Cardinality({a \in active : a.sent})
    + FoldSet(LAMBDA i, sum : sum + Unsent(st.slots[i], OpenEndpoints(i)), 0, DOMAIN st.slots)
    + (IF stage = 1 THEN Probes(Hosts) ELSE 0)

\* The counters and indexes the controller keeps beside its slots never drift from
\* them: saturating arithmetic would hide it if they did.  Feed::release_canceled: no
\* evidence capacity stays reserved for responses that can no longer come.
CountersExact ==
  /\ \A i \in DOMAIN st.slots :
       /\ st.slots[i].unfinished = Cardinality(OpenEndpoints(i))
       /\ {w \in st.wakes : w[2] = i} = {<<t, i>> : t \in {st.slots[i].wake} \ {None}}
       /\ {x \in st.expirations : x[2] = i} = {<<t, i>> : t \in {st.slots[i].expiration} \ {None}}
       /\ st.hosts[st.slots[i].host].uncommitted = Cardinality({a \in ActiveOn(i) : ~a.sent})
  /\ st.unfinished = FoldSet(LAMBDA i, sum : sum + st.slots[i].unfinished, 0, DOMAIN st.slots)
  /\ \A c \in DOMAIN st.cohort_members :
       st.cohort_members[c] = Cardinality({a \in active : a.sel.cohort = c})
  /\ {a.sel.cohort : a \in active} = DOMAIN st.cohort_members
  /\ outstanding <= Awaited

\* The slots whose host still has time for the attempts not yet made.
InTime == {i \in DOMAIN st.slots : LET first == st.hosts[st.slots[i].host].first
                                  IN first = None \/ now < first + host_timeout}

\* "Extra replies can use only capacity beyond one maximum-size response per
\* outstanding probe": in the scan stage, whose probes are the only ones reserved for,
\* the reservation covers every attempt in flight and every one that may still be made.
ReservationCovers ==
  stage = 2 =>
    outstanding >= Cardinality({a \in active : a.sent})
                     + FoldSet(LAMBDA i, sum : sum + Unsent(st.slots[i], OpenEndpoints(i)), 0, InTime)
=============================================================================
