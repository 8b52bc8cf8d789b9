-------------------------- MODULE NeighborExchange --------------------------
(***************************************************************************)
(* One neighbor discovery after a cache miss: arm a capture, send a        *)
(* request, wait for the answer, send again, and give up at the deadline.  *)
(* packetcraftr/src/neighbor/{resolver,evidence,wire}.rs.                  *)
(*                                                                         *)
(* A captured frame is a reply to this request or not, has a length and,   *)
(* when the capture supplied one, the time it was received.                *)
(***************************************************************************)
EXTENDS Integers, Sequences

CONSTANTS
  max_attempts,        \* Options
  attempt_timeout,
  max_frames,          \* max_capture_queue_frames
  max_bytes,           \* max_captured_bytes
  Lengths,             \* lengths of captured frames
  Arrivals,            \* bound: frames captured
  Budget               \* bound: the caller's deadline, and the clock

\* Options::validate
NeighborExchangeAssumption ==
  /\ max_attempts \in Nat \ {0} /\ attempt_timeout \in Nat \ {0}
  /\ max_frames \in Nat \ {0} /\ max_bytes \in Nat /\ Lengths \subseteq Nat \ {0}
  /\ Arrivals \in Nat /\ Budget \in Nat

VARIABLES
  time,
  discovery    \* the locals of resolve and exchange, and the capture's queue

exchangeVars == <<time, discovery>>

Exchanging == {"ready", "attempt", "send", "sent", "wait"}
NoStamp == -1                 \* received_at is None
Least(a, b) == IF a < b THEN a ELSE b

ExchangeInit ==
  /\ time = 0
  /\ discovery = [pc |-> "arm", deadline |-> Budget, attempts |-> 0, attempt_deadline |-> 0,
                  marker |-> 0, queue |-> <<>>, arrived |-> 0,
                  evidence |-> [frames |-> <<>>, truncated |-> FALSE], outcome |-> "none",
                  reply |-> <<>>]

-----------------------------------------------------------------------------
(* EvidenceBuffer. *)

RunningLength(frames) ==
  LET sum[n \in 0..Len(frames)] == IF n = 0 THEN 0 ELSE sum[n - 1] + frames[n].length
  IN  sum
Length(frames) == RunningLength(frames)[Len(frames)]
InBudget(e) == Len(e.frames) <= max_frames /\ Length(e.frames) <= max_bytes
OverBudget(e, f) == Len(e.frames) >= max_frames \/ Length(e.frames) + f.length > max_bytes

Retain(e, f) ==
  IF OverBudget(e, f) THEN [e EXCEPT !.truncated = TRUE]
                      ELSE [e EXCEPT !.frames = Append(@, f)]

\* drain_pre_request retains one frame after another.
Retained(e, frames) ==
  LET kept[n \in 0..Len(frames)] == IF n = 0 THEN e ELSE Retain(kept[n - 1], frames[n])
  IN  kept
RetainAll(e, frames) == Retained(e, frames)[Len(frames)]

\* The oldest frames go until the matching one fits.
RetainMatching(e, f) ==
  LET cuts == {n \in 0..Len(e.frames) : ~OverBudget([e EXCEPT !.frames = SubSeq(@, n + 1, Len(@))], f)}
      n == CHOOSE x \in cuts : \A y \in cuts : x <= y
  IN  IF cuts = {} THEN [frames |-> <<>>, truncated |-> TRUE]
      ELSE [frames |-> Append(SubSeq(e.frames, n + 1, Len(e.frames)), f),
            truncated |-> e.truncated \/ n > 0]

-----------------------------------------------------------------------------
(* Active::resolve and exchange. *)

TimeLeft == time < discovery.deadline

\* The capture is armed; arming may fail.
Arm ==
  /\ discovery.pc = "arm"
  /\ \/ discovery' = [discovery EXCEPT !.pc = "ready"]
     \/ discovery' = [discovery EXCEPT !.pc = "done", !.outcome = "failed"]
  /\ UNCHANGED time

\* exchange: no time to wait ends it; wait_ready may fail; drain_pre_request keeps
\* what was queued before the first request.
Ready ==
  /\ discovery.pc = "ready"
  /\ \/ ~TimeLeft /\ discovery' = [discovery EXCEPT !.pc = "shutdown", !.outcome = "not_found"]
     \/ TimeLeft /\ discovery' = [discovery EXCEPT !.pc = "shutdown", !.outcome = "failed"]
     \/ /\ TimeLeft
        /\ LET n == Least(Len(discovery.queue), max_frames)
           IN discovery' = [discovery EXCEPT !.pc = "attempt",
                                         !.evidence = RetainAll(@, SubSeq(discovery.queue, 1, n)),
                                         !.queue = SubSeq(@, n + 1, Len(@))]
  /\ UNCHANGED time

\* The head of the attempt loop: an attempt needs a number and time.
Attempt ==
  /\ discovery.pc = "attempt"
  /\ IF discovery.attempts < max_attempts /\ TimeLeft
       THEN discovery' = [discovery EXCEPT !.pc = "send",
                            !.attempt_deadline = Least(time + attempt_timeout, discovery.deadline)]
       ELSE discovery' = [discovery EXCEPT !.pc = "shutdown", !.outcome = "not_found"]
  /\ UNCHANGED time

\* Mutant of Send: the deadline is not looked at again before the send.
SendLate ==
  /\ discovery.pc = "send"
  /\ discovery' = [discovery EXCEPT !.pc = "sent", !.attempts = @ + 1, !.marker = time]
  /\ UNCHANGED time

\* The provider enters the send: the freshness marker is taken here.
Send ==
  /\ discovery.pc = "send"
  /\ discovery' = IF TimeLeft
                    THEN [discovery EXCEPT !.pc = "sent", !.attempts = @ + 1, !.marker = time]
                    ELSE [discovery EXCEPT !.pc = "shutdown", !.outcome = "not_found"]
  /\ UNCHANGED time

\* The send returns; it or the check of its report may fail.
SendReturns ==
  /\ discovery.pc = "sent"
  /\ discovery' = [discovery EXCEPT !.pc = "wait"]
     \/ discovery' = [discovery EXCEPT !.pc = "shutdown", !.outcome = "failed"]
  /\ UNCHANGED time

Waiting == time < discovery.attempt_deadline /\ TimeLeft

\* The wait for this attempt is over: the next one is tried.  A frame taken as it
\* ended is kept as evidence only.
WaitOver ==
  /\ discovery.pc = "wait" /\ ~Waiting
  /\ \/ discovery' = [discovery EXCEPT !.pc = "attempt"]
     \/ /\ discovery.queue # <<>>
        /\ discovery' = [discovery EXCEPT !.pc = "attempt", !.queue = Tail(@),
                                          !.evidence = Retain(@, Head(discovery.queue))]
  /\ UNCHANGED time

\* Mutant of Fresh: the window of the first attempt stays open.
FreshSinceArming(f) == f.received_at # NoStamp /\ f.received_at <= discovery.attempt_deadline

\* A frame counts when it was received between the send and the attempt's deadline.
Fresh(f) ==
  /\ f.received_at # NoStamp
  /\ f.received_at >= discovery.marker /\ f.received_at <= discovery.attempt_deadline

\* wire::match_neighbor_response
MatchesRequest(f) == f.reply

\* next_captured_frame returns a frame.
Receive ==
  /\ discovery.pc = "wait" /\ Waiting /\ discovery.queue # <<>>
  /\ LET f == Head(discovery.queue)
     IN  discovery' = IF Fresh(f) /\ MatchesRequest(f)
                        THEN [discovery EXCEPT !.pc = "shutdown", !.outcome = "resolved",
                                               !.queue = Tail(@), !.reply = <<f>>,
                                               !.evidence = RetainMatching(@, f)]
                        ELSE [discovery EXCEPT !.queue = Tail(@), !.evidence = Retain(@, f)]
  /\ UNCHANGED time

\* next_captured_frame fails: the attempts and the evidence travel with the error.
ReceiveFails ==
  /\ discovery.pc = "wait" /\ Waiting
  /\ discovery' = [discovery EXCEPT !.pc = "shutdown", !.outcome = "failed"]
  /\ UNCHANGED time

\* The capture is stopped.  A failed cleanup, inconsistent statistics or lost frames turn
\* any outcome into a failure.
Shutdown ==
  /\ discovery.pc = "shutdown"
  /\ \E outcome \in {discovery.outcome, "failed"} :
       discovery' = [discovery EXCEPT !.pc = "done", !.outcome = outcome]
  /\ UNCHANGED time

\* The capture's reader queues a frame (LiveCapture): a reply, or something else.
Arrive(reply, length, stamp) ==
  /\ discovery.pc \in Exchanging
  /\ discovery.arrived < Arrivals
  /\ discovery' = [discovery EXCEPT !.arrived = @ + 1,
                    !.queue = Append(@, [reply |-> reply, length |-> length, received_at |-> stamp])]
  /\ UNCHANGED time

\* The caller's deadline is cancelled.
CancelDiscovery ==
  /\ discovery.pc \in Exchanging /\ TimeLeft
  /\ discovery' = [discovery EXCEPT !.deadline = time]
  /\ UNCHANGED time

DiscoveryTick ==
  /\ time < Budget
  /\ time' = time + 1
  /\ UNCHANGED discovery

DiscoveryWork ==
  Arm \/ Ready \/ Attempt \/ Send \/ SendReturns \/ WaitOver \/ Receive \/ Shutdown

ExchangeNext ==
  \/ DiscoveryTick \/ DiscoveryWork \/ ReceiveFails \/ CancelDiscovery
  \/ \E reply \in BOOLEAN, n \in Lengths, stamp \in {time, NoStamp} : Arrive(reply, n, stamp)

\* The calling thread is scheduled and time passes; nothing else is promised.
ExchangeFairness == WF_exchangeVars(DiscoveryTick) /\ WF_exchangeVars(DiscoveryWork)
ExchangeSpec == ExchangeInit /\ [][ExchangeNext]_exchangeVars /\ ExchangeFairness

-----------------------------------------------------------------------------
(* Properties. *)

Lost == discovery.arrived - Len(discovery.queue) - Len(discovery.evidence.frames)

\* An answer was received while a request of this resolution was waiting, and is part of the
\* evidence unless it exceeds the byte limit alone; the evidence stays within its limits and
\* says so exactly when it lost a frame.
DiscoveryEvidence ==
  /\ discovery.outcome = "resolved" =>
       LET f == discovery.reply[1] IN
         /\ discovery.attempts > 0 /\ f.received_at \in discovery.marker..discovery.attempt_deadline
         /\ \/ f.length > max_bytes
            \/ \E i \in 1..Len(discovery.evidence.frames) : discovery.evidence.frames[i] = f
  /\ InBudget(discovery.evidence)
  /\ discovery.evidence.truncated <=> Lost > 0

\* At most max_attempts requests, none started once the caller's deadline had passed or was
\* cancelled, and the window of the next opens only after that of the last has closed.
RequestAllowed ==
  /\ discovery'.attempts # discovery.attempts =>
       /\ discovery'.attempts \in {discovery.attempts + 1} \cap 1..max_attempts
       /\ time < discovery.deadline
  /\ discovery'.attempt_deadline # discovery.attempt_deadline =>
       discovery.attempts = 0 \/ time >= discovery.attempt_deadline

\* Every step of a discovery keeps to its attempts, its deadline and its windows.
RequestsBounded == [][RequestAllowed]_exchangeVars

\* The resolution ends, whether or not anything is ever received.
DiscoveryOver == discovery.pc = "done"
DiscoveryEnds == <>DiscoveryOver

-----------------------------------------------------------------------------
(* The inductive invariants of RequestsBounded and DiscoveryEvidence. *)

DiscoveryTypes ==
  /\ time \in Nat
  /\ DOMAIN discovery = {"pc", "deadline", "attempts", "attempt_deadline", "marker", "queue",
                         "arrived", "evidence", "outcome", "reply"}
  /\ discovery.pc \in Exchanging \cup {"arm", "shutdown", "done"}
  /\ discovery.deadline \in Nat /\ discovery.attempts \in 0..max_attempts
  /\ discovery.attempt_deadline \in Nat

\* A request may be sent, and a wait for the last one is over, when the next is prepared.
RequestInv ==
  /\ DiscoveryTypes
  /\ discovery.pc = "send" => discovery.attempts < max_attempts
  /\ discovery.pc \in {"arm", "ready"} => discovery.attempts = 0
  /\ discovery.pc = "attempt" /\ discovery.attempts > 0 /\ TimeLeft =>
       time >= discovery.attempt_deadline

Frame == [reply : BOOLEAN, length : Lengths, received_at : Nat \cup {NoStamp}]
Evidence == [frames : Seq(Frame), truncated : BOOLEAN]

\* An answer ends the exchange, and is looked for only after a request was sent; no more
\* frames are queued and kept than arrived.
EvidenceInv ==
  /\ discovery.queue \in Seq(Frame) /\ discovery.evidence \in Evidence
  /\ discovery.arrived \in Nat /\ discovery.marker \in Nat
  /\ discovery.outcome = "resolved" => discovery.pc \in {"shutdown", "done"}
  /\ discovery.pc \in {"sent", "wait"} => discovery.attempts > 0
  /\ Lost >= 0
  /\ DiscoveryEvidence
=============================================================================
