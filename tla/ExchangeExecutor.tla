-------------------------- MODULE ExchangeExecutor --------------------------
(***************************************************************************)
(* One exchange after its capture is armed: send the requests one after    *)
(* another, drain the capture around every send, collect replies until     *)
(* the window closes, stop the capture and report.                         *)
(* packetcraftr/src/exchange/{executor,capture,correlation,accumulator,    *)
(* shutdown,window,engine,evidence}.rs.                                    *)
(*                                                                         *)
(* A captured frame is a record: its ingress record's identity, the time   *)
(* it was received or NoTime, whether it decodes, whether its checksums    *)
(* hold, its length, the confidence fits[r] with which the registry's      *)
(* matchers take it as the reply to request r (0: no match), and the       *)
(* requests the workflow's own matcher claims it for.                      *)
(***************************************************************************)
EXTENDS Integers, Sequences, FiniteSets

CONSTANTS
  RequestCount,            \* request_count, the prepared packets
  max_frames,              \* Collection
  max_bytes,
  max_responses,
  max_unmatched_frames,
  Kinds,                   \* the frames that may be captured, without identity and time
  WindowEnd,               \* the window's end; the clock starts at 0
  Arrivals                 \* bound: frames captured

VARIABLES
  clock,
  mode,        \* how replies are matched and what stops the exchange: fixed when it starts
  at,          \* the step of Transaction::execute
  queue,       \* frames captured and not taken yet
  arrived,     \* the number of frames captured
  sent,        \* the freshness marker of each sent packet
  drained,     \* frames taken by this drain
  captured,    \* Accumulator
  emitted,     \* events delivered: sent, responses, unanswered
  stopped,     \* correlation_stopped
  failure,     \* OperationError
  guard,       \* CaptureGuard: shutdown_state and the calls of the provider's shutdown
  result,      \* what execute returned
  judged       \* history: frames whose processing ended inside the window, with Len(sent)

txVars == <<clock, mode, at, queue, arrived, sent, drained, captured, emitted, stopped,
            failure, guard, result, judged>>

Requests == 1..RequestCount
NoTime == -1
Lesser(a, b) == IF a < b THEN a ELSE b
Expired(t) == t >= WindowEnd                       \* Window::expired: the end is closed

\* Client::exchange with StopCondition::Window or AllAnswered has no matcher of its own;
\* exchange_hooked has a workflow's, and that of exchange_packets is authoritative.
Modes == {"window", "all_answered", "workflow", "authoritative"}
Matcher == mode \in {"workflow", "authoritative"}
Drains == {"predrain", "postdrain", "lastdrain"}

TransactionInit ==
  /\ clock = 0 /\ at = "ready" /\ queue = <<>> /\ arrived = 0 /\ sent = <<>> /\ drained = 0
  /\ mode \in Modes
  /\ captured = [frames |-> 0, bytes |-> 0, counts |-> [r \in Requests |-> 0],
                 refused |-> [r \in Requests |-> "none"], retained_unmatched |-> 0,
                 expired |-> FALSE, identities |-> {}, ingress_unknown |-> FALSE]
  /\ emitted = [sent |-> 0, responses |-> <<>>, unanswered |-> {}]
  /\ stopped = FALSE /\ failure = "none" /\ result = "none" /\ judged = {}
  /\ guard = [state |-> "not_attempted", calls |-> 0]

-----------------------------------------------------------------------------
(* Accumulator: what is retained, and under which limit it is refused. *)

ResponseCount(acc) ==
  LET n[r \in 0..RequestCount] == IF r = 0 THEN 0 ELSE n[r - 1] + acc.counts[r]
  IN  n[RequestCount]
PendingRequests(acc) == Cardinality({r \in Requests : acc.counts[r] = 0})

\* RetentionBudget::reserve with the slots held back: the limit that refuses, or "none".
Limit(acc, f, held_back) ==
  IF acc.frames + 1 > max_frames - held_back THEN "capture_frame_limit"
  ELSE IF acc.bytes + f.length > max_bytes THEN "capture_byte_limit"
  ELSE "none"

Reserved(acc, f) ==
  [acc EXCEPT !.frames = @ + 1, !.bytes = @ + f.length, !.identities = @ \cup {f.identity}]

\* held_back_for_replies
HeldBack(acc) ==
  Lesser(max_frames, Lesser(PendingRequests(acc), max_responses - ResponseCount(acc)))

\* reserve_unattributed: the limit that refuses, or "none".
Unattributed(acc, f) ==
  IF acc.retained_unmatched >= max_unmatched_frames THEN "unsolicited_limit"
  ELSE Limit(acc, f, HeldBack(acc))

\* retain_unsolicited, retain_undecoded
Retained(acc, f) ==
  IF Unattributed(acc, f) # "none" THEN acc
  ELSE [Reserved(acc, f) EXCEPT !.retained_unmatched = @ + 1]

RefuseReply(acc, r, limit) ==
  IF acc.refused[r] = "none" THEN [acc EXCEPT !.refused[r] = limit] ELSE acc

RecordResponse(acc, r) == [acc EXCEPT !.counts[r] = @ + 1]

-----------------------------------------------------------------------------
(* Correlation. *)

\* The requests sent before the frame was received: capture_follows_send, partition_point.
Eligible(f) == {r \in 1..Len(sent) : f.received_at # NoTime /\ sent[r] <= f.received_at}

InWindow(f) == f.received_at # NoTime /\ f.received_at <= WindowEnd

\* select_attribution: the requests matched with the highest confidence.
Best(f) ==
  LET rs == {r \in Eligible(f) : f.fits[r] > 0}
  IN  {r \in rs : \A q \in rs : f.fits[q] <= f.fits[r]}

\* The workflow's matcher.
Claims(f) == f.claims \cap Eligible(f)

\* correlate_decoded_capture: the winners of the matching in use.
Winners(f) ==
  IF ~InWindow(f) THEN {}
  ELSE IF mode = "authoritative" THEN Claims(f) ELSE Best(f)

\* workflow_attribution
WorkflowWinners(f) == IF Matcher /\ InWindow(f) THEN Claims(f) ELSE {}

Step(acc, response, candidate) == [acc |-> acc, response |-> response, candidate |-> candidate]

\* The frame is kept for promotion; a refused one is a refused reply when the workflow, asked
\* inside the window, would have promoted it.
RetainUncorrelated(acc, f, asked) ==
  LET limit == Unattributed(acc, f)
      w == WorkflowWinners(f)
  IN  IF limit = "none" THEN Step(Retained(acc, f), 0, TRUE)
      ELSE IF Cardinality(w) = 1 /\ ~Expired(asked)
             THEN Step(RefuseReply(acc, CHOOSE r \in w : TRUE, limit), 0, FALSE)
      ELSE Step(acc, 0, FALSE)

\* record_attribution of a unique winner.
Attributed(acc, f, r) ==
  IF ResponseCount(acc) >= max_responses
    THEN LET refused == RefuseReply(acc, r, "response_limit")
         IN  Step(Retained(refused, f), 0, Unattributed(refused, f) = "none")
  ELSE IF Limit(acc, f, 0) # "none" THEN Step(RefuseReply(acc, r, Limit(acc, f, 0)), 0, FALSE)
  ELSE Step(RecordResponse(Reserved(acc, f), r), r, FALSE)

\* The frame is retained without correlation: the window has closed.
AfterDeadline(acc, f) == Step([Retained(acc, f) EXCEPT !.expired = TRUE], 0, FALSE)

\* process: the frame has been decoded and matched at time `after`, and the workflow asked
\* about it at time `asked`.
Correlate(acc, f, after, asked) ==
  IF acc.expired \/ Expired(after) THEN AfterDeadline(acc, f)
  ELSE IF ~f.decodes THEN Step(Retained(acc, f), 0, FALSE)
  ELSE IF f.intact /\ Cardinality(Winners(f)) = 1
         THEN Attributed(acc, f, CHOOSE r \in Winners(f) : TRUE)
  ELSE RetainUncorrelated(acc, f, asked)

\* promote_workflow_unsolicited: an unsolicited frame only the workflow can place becomes
\* its response.
Promote(step, f, after) ==
  LET acc == step.acc
      w == WorkflowWinners(f)
      r == CHOOSE q \in w : TRUE
  IN  IF ~Matcher \/ ~step.candidate THEN step
      ELSE IF Expired(after) THEN Step([acc EXCEPT !.expired = TRUE], 0, FALSE)
      ELSE IF Cardinality(w) # 1 THEN step
      ELSE IF ResponseCount(acc) >= max_responses
             THEN Step(RefuseReply(acc, r, "response_limit"), 0, FALSE)
      ELSE Step([RecordResponse(acc, r) EXCEPT !.retained_unmatched = @ - 1], r, FALSE)

-----------------------------------------------------------------------------
(* The transaction. *)

Fail(kind) == failure' = kind /\ at' = "shutdown"

\* await_capture_readiness
AwaitReady ==
  /\ at = "ready"
  /\ \/ ~Expired(clock) /\ at' = "predrain" /\ drained' = 0 /\ UNCHANGED failure
     \/ Fail("io") /\ UNCHANGED drained
  /\ UNCHANGED <<clock, mode, queue, arrived, sent, captured, emitted, stopped, guard, result, judged>>

\* A workflow's predicate may ask to stop after any response; StopCondition::AllAnswered
\* asks when every request has one.
StopRequested(acc, response) ==
  {b \in BOOLEAN :
     /\ b => response # 0 /\ mode # "window"
     /\ mode = "all_answered" /\ response # 0 => (b <=> PendingRequests(acc) = 0)}

\* Where a drain or the collection goes when it is over.
Leave(expired) ==
  /\ at' = CASE at = "predrain" -> "send"
             [] at = "postdrain" -> IF Len(sent) < RequestCount THEN "predrain" ELSE "collect"
             [] at = "collect" -> "lastdrain"
             [] at = "lastdrain" -> "shutdown"
  /\ drained' = 0
  /\ stopped' = (stopped \/ (at = "postdrain" /\ expired))

\* Requests remain to be sent, so the window closing fails the exchange.
Enforced == at = "predrain" \/ (at = "postdrain" /\ Len(sent) < RequestCount)

\* process_frame: correlation, promotion, the stop predicate, then the events.  Time may
\* pass while it runs, and the output may fail.
ProcessFrame ==
  /\ queue # <<>>
  /\ at = "collect" => ~Expired(clock) /\ ~stopped
  /\ at \in Drains => drained < max_frames /\ ~(Enforced /\ Expired(clock))
  /\ at \in Drains \cup {"collect"}
  /\ LET f == Head(queue) IN
     /\ queue' = Tail(queue)
     /\ IF f.identity \in captured.identities
        THEN Fail("io") /\ UNCHANGED <<clock, drained, captured, emitted, stopped, judged>>
        ELSE \E after, asked, last \in clock..Lesser(clock + 1, WindowEnd + 1) :
          LET first == Correlate(captured, f, after, asked)
              final == Promote(first, f, last)
              delivered == IF final.response = 0 THEN emitted
                           ELSE [emitted EXCEPT !.responses =
                                   Append(@, [request |-> final.response, frame |-> f])]
              expired == final.acc.expired
          IN  /\ after <= asked /\ asked <= last
              /\ clock' = last
              /\ captured' = [final.acc EXCEPT !.ingress_unknown = @ \/ f.received_at = NoTime]
              /\ judged' = IF Expired(last) THEN judged ELSE judged \cup {<<f, Len(sent)>>}
              /\ \/ Fail("output") /\ UNCHANGED <<emitted, drained, stopped>>
                 \/ \E stop \in StopRequested(final.acc, final.response) :
                      /\ emitted' = delivered
                      /\ \/ stop /\ at' = "shutdown" /\ UNCHANGED <<drained, stopped, failure>>
                         \/ ~stop /\ expired /\ Enforced /\ Fail("io") /\ UNCHANGED <<drained, stopped>>
                         \/ ~stop /\ expired /\ ~Enforced /\ Leave(TRUE) /\ UNCHANGED failure
                         \/ /\ ~stop /\ ~expired /\ UNCHANGED <<at, stopped, failure>>
                            /\ drained' = IF at = "collect" THEN 0 ELSE drained + 1
  /\ UNCHANGED <<mode, arrived, sent, guard, result>>

\* A drain ends with the queue empty or its frames used up; the diagnostic of the latter may
\* fail to be delivered.
DrainOver ==
  /\ at \in Drains
  /\ drained = max_frames \/ (queue = <<>> /\ ~(Enforced /\ Expired(clock)))
  /\ \/ Leave(FALSE) /\ UNCHANGED failure
     \/ drained = max_frames /\ Fail("output") /\ UNCHANGED <<drained, stopped>>
  /\ UNCHANGED <<clock, mode, queue, arrived, sent, captured, emitted, guard, result, judged>>

DrainTooLate ==
  /\ at \in Drains /\ Enforced /\ Expired(clock) /\ drained < max_frames
  /\ Fail("io")
  /\ UNCHANGED <<clock, mode, queue, arrived, sent, drained, captured, emitted, stopped, guard, result, judged>>

\* collect_remaining: the window closed, or correlation had stopped before.
CollectOver ==
  /\ at = "collect" /\ (Expired(clock) \/ stopped)
  /\ Leave(FALSE)
  /\ UNCHANGED <<clock, mode, queue, arrived, sent, captured, emitted, failure, guard, result, judged>>

\* The capture reports a failure, or the operation is cancelled.
CaptureFails ==
  /\ at \in Drains \cup {"collect"}
  /\ Fail("io")
  /\ UNCHANGED <<clock, mode, queue, arrived, sent, drained, captured, emitted, stopped, guard, result, judged>>

\* ensure_send_deadline, send_one, ensure_send_deadline.  The freshness marker is the start
\* of the send; the window may close before it returns.
SendOne ==
  /\ at = "send"
  /\ \/ Fail("io") /\ UNCHANGED <<clock, sent, emitted, drained>>
     \/ /\ ~Expired(clock)
        /\ sent' = Append(sent, clock)
        /\ clock' \in {clock, Lesser(clock + 1, WindowEnd + 1)}
        /\ \/ Fail("output") /\ UNCHANGED <<emitted, drained>>
           \/ /\ emitted' = [emitted EXCEPT !.sent = @ + 1]
              /\ \/ Expired(clock') /\ Fail("io") /\ UNCHANGED drained
                 \/ ~Expired(clock') /\ at' = "postdrain" /\ drained' = 0 /\ UNCHANGED failure
  /\ UNCHANGED <<mode, queue, arrived, captured, stopped, guard, result, judged>>

\* CaptureGuard::shutdown, then fail_after_shutdown when the operation failed.  The
\* provider's shutdown may fail or panic.
Shutdown ==
  /\ at = "shutdown" /\ guard.state = "not_attempted"
  /\ \E state \in {"succeeded", "failed"} :
       /\ guard' = [state |-> state, calls |-> guard.calls + 1]
       /\ IF failure # "none"
            THEN /\ at' = "done"
                 /\ result' = IF state = "succeeded" THEN failure
                              ELSE IF failure = "io" THEN "io_and_shutdown" ELSE "output_and_shutdown"
            ELSE IF state = "failed" THEN at' = "done" /\ result' = "shutdown"
            ELSE at' = "finalize" /\ UNCHANGED result
  /\ UNCHANGED <<clock, mode, queue, arrived, sent, drained, captured, emitted, stopped, failure, judged>>

Unanswered == {r \in 1..Len(sent) : captured.counts[r] = 0 /\ captured.refused[r] = "none"}
FirstRefused == {r \in 1..Len(sent) : captured.counts[r] = 0 /\ captured.refused[r] # "none"}

\* finalize_exchange: the backend's statistics, the loss policy, the refusal policy, then the
\* unanswered requests.  The overflow policy, fixed all along, is read here only.
Finalize ==
  /\ at = "finalize" /\ at' = "done"
  /\ \E lost, valid, delivered \in BOOLEAN, overflow_policy \in {"fail", "lossy"} :
       LET end == IF ~valid THEN "io"
                  ELSE IF lost /\ overflow_policy = "fail" THEN "loss"
                  ELSE IF overflow_policy = "fail" /\ FirstRefused # {} THEN "refused"
                  ELSE IF ~delivered THEN "output" ELSE "report"
       IN  /\ result' = end
           /\ emitted' = [emitted EXCEPT !.unanswered = IF end = "report" THEN Unanswered ELSE {}]
  /\ UNCHANGED <<clock, mode, queue, arrived, sent, drained, captured, stopped, failure, guard, judged>>

\* The reader queues a frame; a faulty provider may deliver a record again.
Arrive(kind, identity) ==
  /\ at \notin {"shutdown", "finalize", "done"} /\ arrived < Arrivals
  /\ arrived' = arrived + 1
  /\ queue' = Append(queue, [identity |-> identity, received_at |-> IF kind.stamped THEN clock ELSE NoTime,
                             decodes |-> kind.decodes, intact |-> kind.intact, length |-> kind.length,
                             fits |-> kind.fits, claims |-> kind.claims])
  /\ UNCHANGED <<clock, mode, at, sent, drained, captured, emitted, stopped, failure, guard, result, judged>>

Pass ==
  /\ at # "done" /\ clock <= WindowEnd
  /\ clock' = clock + 1
  /\ UNCHANGED <<mode, at, queue, arrived, sent, drained, captured, emitted, stopped, failure, guard, result, judged>>

Execute ==
  \/ AwaitReady \/ ProcessFrame \/ DrainOver \/ DrainTooLate \/ CollectOver \/ SendOne
  \/ Shutdown \/ Finalize

TransactionNext ==
  \/ Execute \/ CaptureFails \/ Pass
  \/ \E kind \in Kinds, identity \in {arrived, arrived + 1} : Arrive(kind, identity)

\* The thread that runs the exchange is scheduled, and time passes.
TransactionFairness == WF_txVars(Execute) /\ WF_txVars(Pass)
TransactionSpec == TransactionInit /\ [][TransactionNext]_txVars /\ TransactionFairness

-----------------------------------------------------------------------------
(* Properties. *)

Fresh(f, r, n) == f.received_at \in sent[r]..WindowEnd /\ r <= n

\* A frame that can only be the answer to r, as the matching in use sees it, when n requests
\* had been sent.
Answers(f, r, n) ==
  /\ f.decodes /\ r <= n /\ Fresh(f, r, n)
  /\ \/ /\ mode # "authoritative" /\ f.intact /\ f.fits[r] > 0
        /\ \A q \in 1..n \ {r} : Fresh(f, q, n) => f.fits[q] < f.fits[r]
     \/ /\ Matcher /\ r \in f.claims
        /\ \A q \in 1..n \ {r} : q \in f.claims => ~Fresh(f, q, n)
        /\ mode = "workflow" => \A q \in 1..n : Fresh(f, q, n) => f.fits[q] = 0

\* A request is reported unanswered only when nothing that was taken from the capture inside
\* the window answered it: a reply refused by a limit makes the exchange fail, or, under a
\* lossy overflow policy, leaves its request out of the list and marks the observation
\* incomplete.  Every response was received after its request was sent and no captured
\* record is the response to two requests.
SilenceIsReal ==
  /\ result = "report" =>
       \A r \in emitted.unanswered, j \in judged : ~Answers(j[1], r, j[2])
  /\ \A i \in DOMAIN emitted.responses :
       LET e == emitted.responses[i] IN
         /\ e.request <= emitted.sent /\ e.frame.received_at \in sent[e.request]..WindowEnd
         /\ \A k \in DOMAIN emitted.responses :
              emitted.responses[k].frame.identity = e.frame.identity => k = i

\* Unrelated frames never take the slot of a request that still waits for its reply: while no
\* request has two responses, a reply that correlation attributes is never refused for want
\* of a frame slot.  The limits on frames, bytes and responses hold.
ReplySlotsHeld ==
  /\ \A r \in Requests :
       captured.refused[r] = "capture_frame_limit" /\ ~Matcher =>
         max_frames < Lesser(RequestCount, max_responses) \/ \E q \in Requests : captured.counts[q] > 1
  /\ captured.frames <= max_frames /\ captured.bytes <= max_bytes
  /\ ResponseCount(captured) <= max_responses
  /\ captured.retained_unmatched \in 0..max_unmatched_frames

\* When execute returns, the capture was stopped exactly once, and the error says what failed:
\* the operation, the shutdown, or both.  A report covers every request: stopping when all are
\* answered never cuts the set short before its last send; only a workflow can.
BothErrorsKept ==
  result # "none" =>
    /\ guard.calls = 1
    /\ (guard.state = "failed") = (result \in {"shutdown", "io_and_shutdown", "output_and_shutdown"})
    /\ failure = "io" => result \in {"io", "io_and_shutdown"}
    /\ failure = "output" => result \in {"output", "output_and_shutdown"}
    /\ result = "report" => /\ failure = "none" /\ emitted.sent = Len(sent)
                            /\ Matcher \/ Len(sent) = RequestCount

\* The exchange ends.
Ended == at = "done"
ExchangeEnds == <>Ended
=============================================================================
