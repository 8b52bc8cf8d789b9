------------------------------- MODULE DnsBatch -------------------------------
(***************************************************************************)
(* DNS questions asked one after another under one deadline                *)
(* (packetcraftr/src/dns/{batch,engine,plan,evidence,report}.rs and        *)
(* engine/{attempts,tcp}.rs): each question's attempts over UDP, the       *)
(* fallback to TCP inside the same attempt's window, the choice of the     *)
(* outcome that is reported, and what one question's failure means for     *)
(* the others.                                                             *)
(***************************************************************************)
EXTENDS Integers, SequencesExt, FiniteSetsExt

CONSTANTS
  Batches,     \* the batches to run: sequences of [transport, attempts, delay]
  timeout,     \* of one attempt, UDP and TCP together
  limit        \* of the whole batch

VARIABLES
  questions,   \* the batch
  clock, canceled,
  pc,
  q,           \* the question at hand
  attempt,
  opened,      \* when the attempt's window opened
  completion,  \* the question's Completion
  seen,        \* the evidence of the question's attempts, as published
  previous,    \* previous_delay, or -1
  stop,        \* no further question is attempted
  reports,     \* the questions reported so far: status and error
  last,        \* what the last of them was reported with
  stats,       \* queries sent, neighbor requests, connections and time, merged
  wire,        \* the queries, requests and connections that really left
  ended,       \* when the last attempt that sent ended, and the pause it owes
  rushed       \* an attempt began before that pause was over

dnsVars == <<questions, clock, canceled, pc, q, attempt, opened, completion, seen, previous, stop,
             reports, last, stats, wire, ended, rushed>>

question == questions[q]

Fresh == [outcome |-> "timeout", fallback |-> FALSE, transport |-> "none", response |-> "none"]

Nothing == [completion |-> Fresh, seen |-> <<>>, attempts |-> 0]

Zero == [packets |-> 0, requests |-> 0, connections |-> 0, elapsed |-> 0]

DnsInit ==
  /\ questions \in Batches
  /\ clock = 0 /\ canceled = FALSE
  /\ pc = "gate" /\ q = 1 /\ attempt = 1 /\ opened = 0
  /\ completion = Fresh /\ seen = <<>>
  /\ previous = -1 /\ stop = FALSE
  /\ reports = <<>> /\ last = Nothing
  /\ stats = Zero /\ wire = Zero
  /\ ended = [at |-> -limit, pause |-> 0]
  /\ rushed = FALSE

Live == ~canceled /\ clock <= limit

-----------------------------------------------------------------------------
(* What was authorized before the first question (plan.rs).                *)

SumOf(units) == FoldLeftDomain(LAMBDA acc, i : acc + units[i], 0, questions)

Packets(x) == IF x.transport = "tcp" THEN 0 ELSE x.attempts

(* The requests the route of one query may send for a link address; an     *)
(* unanswered resolution is not remembered, so every query may ask again.  *)
neighbor_attempts == 1

Requests(x) == Packets(x) * neighbor_attempts

Connections(x) == IF x.transport = "udp" THEN 0 ELSE x.attempts

-----------------------------------------------------------------------------
(* The end of a question.                                                  *)

Ended(status, error) ==
  /\ reports' = Append(reports, [status |-> status, error |-> error])
  /\ last' = [completion |-> completion, seen |-> seen, attempts |-> attempt]

Reset == attempt' = 1 /\ completion' = Fresh /\ seen' = <<>> /\ q' = q + 1 /\ pc' = "gate"

Unattempted ==
  /\ Ended("unattempted", "none")
  /\ Reset

(* A plausible slip: only a cancellation stops the batch.                  *)
StopsOnCancel(error) == error = "cancelled"

Stops(error) == error \in {"cancelled", "duration"}

Failed(error) ==
  /\ Ended("failed", error)
  /\ stop' = Stops(error)
  /\ Reset

Interruption == IF canceled' THEN "cancelled" ELSE "duration"

stepKept == <<questions, q, attempt, completion, seen, previous, stop, reports, last>>

-----------------------------------------------------------------------------
(* batch::run.                                                             *)

Question ==
  /\ pc = "gate" /\ q <= Len(questions)
  /\ IF stop \/ ~Live
     THEN Unattempted /\ UNCHANGED previous
     ELSE /\ IF previous # -1 /\ Max({previous, question.delay}) > 0
             THEN pc' = "pause" /\ UNCHANGED previous
             ELSE pc' = "prepare" /\ previous' = question.delay
          /\ last' = Nothing
          /\ UNCHANGED <<q, attempt, completion, seen, reports>>
  /\ UNCHANGED <<questions, clock, canceled, opened, stop, stats, wire, ended, rushed>>

(* Context::pace: the sleep may be cancelled, and the clock may fail.      *)
Pace(delay, paced, interrupted, broken) ==
  \/ /\ ~Live \/ clock + delay > limit
     /\ UNCHANGED <<clock, canceled, stats>> /\ interrupted
  \/ /\ Live /\ clock + delay <= limit
     /\ \/ /\ clock' = clock + delay
           /\ stats' = [stats EXCEPT !.elapsed = @ + delay]
           /\ paced /\ UNCHANGED canceled
        \/ canceled' = TRUE /\ interrupted /\ UNCHANGED <<clock, stats>>
        \/ broken /\ UNCHANGED <<clock, canceled, stats>>

(* A plausible slip: the pause of the question before is not honoured.     *)
BetweenOwn == question.delay

Between == Max({previous, question.delay})

(* The pause between two questions.                                        *)
Pause ==
  /\ pc = "pause"
  /\ Pace(Between,
          /\ previous' = question.delay /\ pc' = "prepare"
          /\ UNCHANGED <<q, attempt, completion, seen, stop, reports, last>>,
          Unattempted /\ stop' = TRUE /\ UNCHANGED previous,
          /\ Ended("failed", "clock") /\ stop' = TRUE
          /\ Reset /\ UNCHANGED previous)
  /\ UNCHANGED <<questions, opened, wire, ended, rushed>>

-----------------------------------------------------------------------------
(* Retries.                                                                *)

(* wait_before_attempt.                                                    *)
Retry ==
  /\ pc = "retry"
  /\ Pace(question.delay,
          pc' = "prepare" /\ UNCHANGED <<q, attempt, completion, seen, stop, reports, last>>,
          Failed(Interruption), Failed("clock"))
  /\ UNCHANGED <<questions, opened, previous, wire, ended, rushed>>

(* prepare_probe: the server is resolved and authorized again, which may   *)
(* take time and may fail.                                                 *)
Prepare ==
  /\ pc = "prepare"
  /\ \E spent \in 0..1 :
       /\ clock' = clock + spent
       /\ UNCHANGED canceled
       /\ IF ~Live \/ ~Live' THEN Failed(Interruption) /\ UNCHANGED opened
          ELSE \/ Failed("resolution") /\ UNCHANGED opened
               \/ /\ IF question.transport = "tcp" /\ clock' = limit
                     THEN Failed("duration") /\ UNCHANGED opened
                     ELSE /\ opened' = clock'
                          /\ pc' = IF question.transport = "tcp" THEN "tcp" ELSE "udp"
                          /\ UNCHANGED <<q, attempt, completion, seen, stop, reports, last>>
  /\ UNCHANGED <<questions, previous, stats, wire, ended, rushed>>

(* The attempt sends its first octet now.                                  *)
Begins == rushed' = (rushed \/ clock - ended.at < ended.pause)

rank == [response |-> 5, truncated |-> 4, network |-> 3, decode |-> 2, unrelated |-> 1, timeout |-> 0]

(* A plausible slip: the outcome of the last attempt replaces the best.    *)
WorseLast(status) == [completion EXCEPT !.outcome = status]

Worse(status) ==
  IF rank[status] > rank[completion.outcome] THEN [completion EXCEPT !.outcome = status]
  ELSE completion

(* An attempt that accepted nothing; the last one completes the question.  *)
AttemptOver(status) ==
  /\ completion' = Worse(status)
  /\ IF attempt < question.attempts THEN attempt' = attempt + 1 /\ pc' = "retry"
     ELSE pc' = "finish" /\ UNCHANGED attempt
  /\ UNCHANGED <<q, stop, reports, last>>

(* accept_response: the header is recorded after its records are.          *)
Accept(transport, status) ==
  /\ completion' = [completion EXCEPT !.outcome = status, !.transport = transport,
                                      !.response = status]
  /\ pc' = "finish"
  /\ UNCHANGED <<q, attempt, stop, reports, last>>

(* The attempt's evidence is published; a sink that fails ends the batch.  *)
Published(transport, status, after) ==
  \/ /\ pc' = "output"
     /\ UNCHANGED <<q, attempt, completion, seen, stop, reports, last>>
  \/ /\ Live'
     /\ seen' = Append(seen, [transport |-> transport, status |-> status])
     /\ after
  \/ ~Live' /\ Failed(Interruption)

(* What follows the evidence of a UDP attempt.                             *)
AfterUdp(status) ==
  IF status = "truncated" /\ question.transport = "udp_then_tcp"
  THEN /\ completion' = [completion EXCEPT !.fallback = TRUE]
       /\ pc' = "tcp"
       /\ UNCHANGED <<q, attempt, stop, reports, last>>
  ELSE IF status \in {"truncated", "response"} THEN Accept("udp", status)
  ELSE AttemptOver(status)

(* execute_probe and the selection of its response.  The exchange takes at *)
(* most what it was granted and may be cancelled.  One that fails before   *)
(* its query reports the requests its route sent and the time they took;   *)
(* one that fails later, or whose evidence is refused, reports nothing,    *)
(* and one that is interrupted before it returns reports the query alone.  *)
Udp ==
  /\ pc = "udp"
  /\ canceled' \in {canceled, TRUE}
  /\ IF ~Live \/ clock = limit
     THEN /\ IF canceled THEN Failed("cancelled") ELSE Failed("duration")
          /\ UNCHANGED <<clock, stats, wire, ended, rushed>>
     ELSE \E spent \in 0..Min({timeout, limit - clock}), asked \in 0..neighbor_attempts :
          /\ clock' = clock + spent
          /\ ended' = [at |-> clock', pause |-> question.delay]
          /\ Begins
          /\ \/ /\ wire' = [wire EXCEPT !.requests = @ + asked]
                /\ stats' = IF asked = 0 THEN stats
                            ELSE [stats EXCEPT !.requests = @ + asked, !.elapsed = @ + spent]
                /\ Failed(IF Live' THEN "execution" ELSE Interruption)
             \/ /\ wire' = [wire EXCEPT !.requests = @ + asked, !.packets = @ + 1]
                /\ \/ Failed(IF Live' THEN "execution" ELSE Interruption)
                   \/ Failed("evidence")
                /\ UNCHANGED stats
             \/ /\ wire' = [wire EXCEPT !.requests = @ + asked, !.packets = @ + 1]
                /\ stats' = [stats EXCEPT !.packets = @ + 1, !.elapsed = @ + spent]
                /\ ~Live' /\ Failed(Interruption)
             \/ /\ wire' = [wire EXCEPT !.requests = @ + asked, !.packets = @ + 1]
                /\ stats' = [stats EXCEPT !.packets = @ + 1, !.elapsed = @ + spent,
                                          !.requests = @ + asked]
                /\ \E status \in DOMAIN rank :
                     /\ status = "timeout" => spent = Min({timeout, limit - clock})
                     /\ Published("udp", status, AfterUdp(status))
  /\ UNCHANGED <<questions, opened, previous>>

Window == opened + timeout - clock

AfterTcp(status) == IF status = "response" THEN Accept("tcp", status) ELSE AttemptOver(status)

(* execute_tcp_query: the destination is authorized again, the connection  *)
(* gets what the attempt's window has left, and an answer after its end is *)
(* a timeout.                                                              *)
Tcp ==
  /\ pc = "tcp"
  /\ canceled' \in {canceled, TRUE}
  /\ \/ /\ ~Live
        /\ IF canceled THEN Failed("cancelled") ELSE Failed("duration")
        /\ UNCHANGED <<clock, stats, wire, ended, rushed>>
     \/ /\ Live /\ Failed("resolution")
        /\ UNCHANGED <<clock, stats, wire, ended, rushed>>
     \/ /\ Live /\ Window <= 0
        /\ UNCHANGED <<clock, stats, wire, ended, rushed>>
        /\ Published("tcp", "timeout", AfterTcp("timeout"))
     \/ /\ Live /\ Window > 0 /\ clock = limit /\ Failed("duration")
        /\ UNCHANGED <<clock, stats, wire, ended, rushed>>
     \/ /\ Live /\ Window > 0 /\ clock < limit
        /\ LET granted == Min({Window, limit - clock})
           IN \E spent \in 0..granted + 1 :
              /\ clock' = clock + spent
              /\ wire' = [wire EXCEPT !.connections = @ + 1]
              /\ stats' = [stats EXCEPT !.connections = @ + 1, !.elapsed = @ + spent]
              /\ ended' = [at |-> clock', pause |-> question.delay]
              /\ IF question.transport = "tcp" THEN Begins ELSE UNCHANGED rushed
              /\ \/ ~Live' /\ Failed(Interruption)
                 \/ Live' /\ Failed("rejected")
                 \/ /\ Live'
                    /\ \E status \in DOMAIN rank \ {"truncated"} :
                         /\ spent > granted => status = "timeout"
                         /\ Published("tcp", status, AfterTcp(status))
  /\ UNCHANGED <<questions, opened, previous>>

(* execute_attempts' last check, and Completion::validate.                 *)
Coherent(c) ==
  /\ (c.outcome \in {"response", "truncated"}) = (c.transport # "none")
  /\ (c.outcome \in {"response", "truncated"}) = (c.response # "none")
  /\ c.response # "none" => (c.response = "truncated") = (c.outcome = "truncated")
  /\ c.transport = "tcp" => c.outcome = "response"

Finish ==
  /\ pc = "finish"
  /\ UNCHANGED canceled
  /\ IF ~Live THEN Failed(Interruption)
     ELSE IF ~Coherent(completion) THEN Failed("incoherent")
     ELSE /\ Ended("completed", "none")
          /\ Reset /\ UNCHANGED stop
  /\ UNCHANGED <<questions, clock, opened, previous, stats, wire, ended, rushed>>

Tick ==
  /\ clock <= limit /\ pc \in {"gate", "tcp"}
  /\ clock' = clock + 1
  /\ UNCHANGED <<stepKept, canceled, pc, opened, stats, wire, ended, rushed>>

Cancel ==
  /\ ~canceled /\ pc # "output" /\ q <= Len(questions)
  /\ canceled' = TRUE
  /\ UNCHANGED <<stepKept, clock, pc, opened, stats, wire, ended, rushed>>

DnsNext ==
  \/ Question \/ Pause \/ Retry \/ Prepare \/ Udp \/ Tcp \/ Finish \/ Tick \/ Cancel

DnsSpec == DnsInit /\ [][DnsNext]_dnsVars

-----------------------------------------------------------------------------
(* Properties.                                                             *)

(* A batch sends no more packets and opens no more connections than were   *)
(* authorized, whatever fails and falls back, nor asks for a neighbor more *)
(* often than its queries may; what it reports is never more than what     *)
(* left, and all of it while no question failed; and two attempts, of one  *)
(* question or of two, are at least the longer of their pauses apart.      *)
DnsTrafficAuthorized ==
  /\ wire.packets <= SumOf([i \in DOMAIN questions |-> Packets(questions[i])])
  /\ wire.connections <= SumOf([i \in DOMAIN questions |-> Connections(questions[i])])
  /\ wire.requests <= SumOf([i \in DOMAIN questions |-> Requests(questions[i])])
  /\ stats.packets <= wire.packets /\ stats.requests <= wire.requests
  /\ (\A i \in DOMAIN reports : reports[i].status # "failed") =>
       stats.packets = wire.packets /\ stats.requests = wire.requests
  /\ stats.connections = wire.connections
  /\ ~rushed

(* A completed question reports the best outcome its attempts published,   *)
(* where a truncated answer that fell back to TCP counts as what TCP made  *)
(* of it; an answer is accepted from the last attempt only, truncated only *)
(* where no fallback was allowed; and the report's coherence check never   *)
(* refuses what the attempts produced.                                     *)
OutcomeFromEvidence ==
  LET i == Len(reports)
      r == last
      counts(e) == ~(e.status = "truncated" /\ questions[i].transport = "udp_then_tcp")
  IN reports # <<>> /\ reports[i].status = "completed" /\ pc = "gate" =>
         /\ \E k \in DOMAIN r.seen : r.seen[k].status = r.completion.outcome /\ counts(r.seen[k])
         /\ \A k \in DOMAIN r.seen :
              counts(r.seen[k]) => rank[r.seen[k].status] <= rank[r.completion.outcome]
         /\ r.completion.transport # "none" =>
              r.seen[Len(r.seen)] = [transport |-> r.completion.transport,
                                     status |-> r.completion.outcome]
         /\ \A k \in DOMAIN r.seen :
              r.seen[k].status \in {"response", "truncated"} /\ counts(r.seen[k]) =>
                k = Len(r.seen) /\ r.completion.transport # "none"
         /\ r.completion.fallback <=>
              \E k \in DOMAIN r.seen : r.seen[k].status = "truncated" /\ ~counts(r.seen[k])
         /\ r.completion.transport = "none" => r.attempts = questions[i].attempts

(* Once a question failed by the deadline or a cancellation, or was not    *)
(* attempted, no later one is attempted; any other failure, but for that   *)
(* of the clock between two questions, costs only its own question; every  *)
(* question is reported once, in order.                                    *)
BatchIsolated ==
  /\ Len(reports) = q - 1
  /\ \A i \in DOMAIN reports :
       /\ reports[i].status = "unattempted" /\ (\A k \in 1..i : reports[k].error # "clock") =>
            canceled \/ clock + Max({questions[k].delay : k \in DOMAIN questions}) >= limit
       /\ reports[i].status = "unattempted" \/ reports[i].error \in {"cancelled", "duration"} =>
            \A k \in i + 1..Len(reports) : reports[k].status = "unattempted"
=============================================================================
