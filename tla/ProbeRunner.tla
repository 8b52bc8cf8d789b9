---------------------------- MODULE ProbeRunner ----------------------------
(***************************************************************************)
(* The paced runner of probe batches (probe/runner.rs): the loop that      *)
(* single-target traceroute and the one-probe-at-a-time scan run their     *)
(* batches through, the execution context that charges their time          *)
(* (engine/execution/context.rs) to the operation's deadline (budget.rs of *)
(* the core crate), and the evidence each batch leaves                     *)
(* (probe/runner/batch_evidence.rs, evidence/retention.rs).                *)
(*                                                                         *)
(* One run works through Batches batches of BatchSize probes, numbered from *)
(* 0.  Time is counted in ticks and passes between any two of its steps;   *)
(* the operation may be cancelled between any two as well.  An executor    *)
(* answers a batch with, for each probe, the best of its replies and how   *)
(* many others it had, with a number of frames it could not correlate and  *)
(* of frames that did not decode, and with the time it says it took.  The  *)
(* kind of a reply is all that matters of it, every frame counts one, and  *)
(* the byte limit, which works like the frame limit, is left out.          *)
(***************************************************************************)
EXTENDS Integers, Sequences, FiniteSetsExt

CONSTANTS
  Batches,        \* how many batches are planned
  BatchSize,      \* the probes of one batch
  limit,          \* the duration the operation may take, in ticks
  timeout,        \* the wait for the replies to one batch
  delay,          \* the pause the rate asks for after one batch
  max_frames,     \* the frames the operation may retain
  max_undecoded,  \* the undecoded, and the unattributed, frames among them
  LastTick        \* the clock of the model stops here

VARIABLES
  clock,
  canceled,
  workflow,   \* whose batches these are: "traceroute" or "scan"
  deadline,   \* [baseline, accounted]: the time charged, and since when it runs
  pc,         \* where run_planned stands
  batch,      \* the batch it works on
  probe,      \* the next probe of that batch to settle
  execution,  \* what the executor returned for that batch
  wire,       \* the probes that were transmitted (history)
  sent_at,    \* when the latest batch began and ended (history)
  stats,      \* the statistics merged so far: [attempted, elapsed]
  evidence,   \* [frames, unattributed, undecoded, outstanding]
  outcomes,   \* the probe outcomes published, in order
  result      \* how the run ended

runnerVars == <<clock, canceled, workflow, deadline, pc, batch, probe, execution,
                wire, sent_at, stats, evidence, outcomes, result>>

Kinds == {"timeout", "intermediate", "unreachable", "reached"}

(* What an executor may return: evidence the runner finds valid, evidence  *)
(* it finds invalid, or an error; the last two after any number of the     *)
(* batch's probes went out.  An executor keeps within the frame limit,     *)
(* which validation checks again.                                          *)
Frames(reply, others) ==
  others + Quantify(DOMAIN reply, LAMBDA p : reply[p] # "timeout")

(* Of the unsolicited frames only those are counted that exactly one probe *)
(* explains; process passes over the others.  At most MaxOthers frames of  *)
(* a batch are neither an outcome nor undecoded.                           *)
MaxOthers == 1

Executions ==
  {e \in [status : {"valid"}, sent : {BatchSize},
          reply : [0..BatchSize - 1 -> Kinds], passed : 0..1, unsolicited : 0..1,
          undecoded : 0..1, elapsed : {0, timeout}] :
     /\ e.passed + e.unsolicited <= MaxOthers
     /\ Frames(e.reply, e.passed + e.unsolicited + e.undecoded) <= max_frames
     /\ e.passed > 0 => e.reply[BatchSize - 1] # "timeout"}
    \cup [status : {"invalid", "failed"}, sent : 0..BatchSize]

RunnerInit ==
  /\ clock = 0
  /\ canceled = FALSE
  /\ workflow \in {"traceroute", "scan"}
  /\ deadline = [baseline |-> 0, accounted |-> 0]
  /\ pc = "plan"
  /\ batch = 0
  /\ probe = 0
  /\ execution = [status |-> "none"]
  /\ wire = 0
  /\ sent_at = [began |-> 0, ended |-> 0]
  /\ stats = [attempted |-> 0, elapsed |-> 0]
  /\ evidence = [frames |-> 0, unattributed |-> 0, undecoded |-> 0,
                 outstanding |-> IF workflow = "scan" THEN Batches * BatchSize ELSE 0]
  /\ outcomes = <<>>
  /\ result = "none"

-----------------------------------------------------------------------------
(* The deadline.                                                           *)

Elapsed == deadline.accounted + (clock - deadline.baseline)

Live == ~canceled /\ Elapsed <= limit

StartAccounting == [baseline |-> clock, accounted |-> Elapsed]

AccountWallOnly(elapsed) == StartAccounting

Account(elapsed) ==
  [baseline  |-> clock,
   accounted |-> deadline.accounted + Max({clock - deadline.baseline, elapsed})]

Fail(error) ==
  /\ result' = error
  /\ pc' = "failed"

-----------------------------------------------------------------------------
(* run_planned, up to the batch's execution.                               *)

(* The next batch is planned and, unless it is the first, paced: the pause *)
(* is reserved before it is slept, so a pause the deadline cannot hold is  *)
(* refused at once.                                                        *)
Plan ==
  /\ pc = "plan"
  /\ batch < Batches
  /\ IF ~Live THEN Fail("interrupted") /\ UNCHANGED deadline
     ELSE IF batch = 0 THEN pc' = "grant" /\ UNCHANGED <<deadline, result>>
     ELSE IF Elapsed + delay > limit THEN Fail("duration") /\ UNCHANGED deadline
     ELSE /\ deadline' = StartAccounting
          /\ pc' = "sleep"
          /\ UNCHANGED result
  /\ UNCHANGED <<clock, canceled, workflow, batch, probe, execution, wire, sent_at,
                 stats, evidence, outcomes>>

(* The sleep ends after the delay, or early once the deadline is spent or  *)
(* the operation is cancelled.                                             *)
Slept == clock - deadline.baseline >= delay \/ canceled \/ Elapsed >= limit

Wake ==
  /\ pc = "sleep"
  /\ Slept
  /\ IF ~Live THEN Fail("interrupted") /\ UNCHANGED <<deadline, stats>>
     ELSE /\ deadline' = Account(delay)
          /\ IF deadline'.accounted > limit THEN Fail("duration") /\ UNCHANGED stats
             ELSE /\ stats' = [stats EXCEPT !.elapsed = @ + delay]
                  /\ pc' = "grant"
                  /\ UNCHANGED result
  /\ UNCHANGED <<clock, canceled, workflow, batch, probe, execution, wire, sent_at,
                 evidence, outcomes>>

(* Context::step up to the call of the executor.                           *)
Grant ==
  /\ pc = "grant"
  /\ IF ~Live THEN Fail("interrupted") /\ UNCHANGED deadline
     ELSE /\ deadline' = StartAccounting
          /\ IF Elapsed = limit THEN Fail("duration")
             ELSE pc' = "execute" /\ UNCHANGED result
  /\ UNCHANGED <<clock, canceled, workflow, batch, probe, execution, wire, sent_at,
                 stats, evidence, outcomes>>

Execute ==
  /\ pc = "execute"
  /\ \E e \in Executions :
       /\ execution' = e
       /\ wire' = wire + e.sent
  /\ pc' = "returned"
  /\ sent_at' = [began |-> deadline.baseline, ended |-> clock]
  /\ UNCHANGED <<clock, canceled, workflow, deadline, batch, probe, stats, evidence,
                 outcomes, result>>

(* The rest of Context::step.  The interruption is read before the         *)
(* evidence is looked at and reported after it is merged.                  *)
ReturnDropping ==
  /\ pc = "returned"
  /\ IF ~Live THEN Fail("interrupted") /\ UNCHANGED <<deadline, stats>>
     ELSE IF execution.status # "valid"
     THEN Fail(IF execution.status = "failed" THEN "execution" ELSE "evidence")
            /\ UNCHANGED <<deadline, stats>>
     ELSE /\ stats' = [attempted |-> stats.attempted + execution.sent,
                       elapsed |-> stats.elapsed + execution.elapsed]
          /\ deadline' = Account(execution.elapsed)
          /\ IF deadline'.accounted > limit THEN Fail("duration")
             ELSE pc' = "process" /\ UNCHANGED result
  /\ UNCHANGED <<clock, canceled, workflow, batch, probe, execution, wire, sent_at,
                 evidence, outcomes>>

Return ==
  /\ pc = "returned"
  /\ CASE execution.status = "failed" ->
            /\ Fail(IF Live THEN "execution" ELSE "interrupted")
            /\ UNCHANGED <<deadline, stats>>
       [] execution.status = "invalid" ->
            /\ Fail("evidence")
            /\ UNCHANGED <<deadline, stats>>
       [] OTHER ->
            /\ stats' = [attempted |-> stats.attempted + execution.sent,
                         elapsed |-> stats.elapsed + execution.elapsed]
            /\ IF ~Live THEN Fail("interrupted") /\ UNCHANGED deadline
               ELSE /\ deadline' = Account(execution.elapsed)
                    /\ IF deadline'.accounted > limit THEN Fail("duration")
                       ELSE pc' = "process" /\ UNCHANGED result
  /\ UNCHANGED <<clock, canceled, workflow, batch, probe, execution, wire, sent_at,
                 evidence, outcomes>>

-----------------------------------------------------------------------------
(* BatchEvidence::process.                                                 *)

(* Whether one more frame is retained.  An extra frame, one no outcome     *)
(* carries, leaves a frame for every probe that has not settled.           *)
FitsUnreserved(kept, extra) == kept.frames + 1 <= max_frames

Fits(kept, extra) ==
  kept.frames + 1 <= max_frames - (IF extra THEN kept.outstanding ELSE 0)

Settled(kept) ==
  [kept EXCEPT !.outstanding = IF @ > 0 THEN @ - 1 ELSE 0]

WithResponse(kept) ==
  IF Fits(kept, FALSE) THEN [kept EXCEPT !.frames = @ + 1] ELSE kept

WithUnattributed(kept) ==
  IF kept.unattributed < max_undecoded /\ Fits(kept, TRUE)
  THEN [kept EXCEPT !.frames = @ + 1, !.unattributed = @ + 1]
  ELSE kept

(* The replies a probe had besides its outcome are kept by the scan alone. *)
WithPassed(kept) ==
  IF workflow = "scan" /\ execution.passed > 0 /\ probe = BatchSize - 1
  THEN WithUnattributed(kept) ELSE kept

WithUndecoded(kept) ==
  IF execution.undecoded > 0 /\ kept.undecoded < max_undecoded /\ Fits(kept, FALSE)
  THEN [kept EXCEPT !.frames = @ + 1, !.undecoded = @ + 1]
  ELSE kept

Ends(kind) == workflow = "traceroute" /\ kind \in {"reached", "unreachable"}

(* One probe settles: its outcome is published, then the reply it passed   *)
(* over if that is retained, and either publication may fail.              *)
Outcome ==
  LET kind == execution.reply[probe]
      settled == Settled(evidence)
      winner == IF kind = "timeout" THEN settled ELSE WithResponse(settled)
      published == Append(outcomes, [batch |-> batch, probe |-> probe, kind |-> kind,
                                     frame |-> winner # settled])
  IN
  /\ pc = "process"
  /\ probe < BatchSize
  /\ \/ /\ ~Live
        /\ Fail("interrupted")
        /\ UNCHANGED <<evidence, outcomes, probe>>
     \/ /\ Live
        /\ evidence' = winner
        /\ Fail("output")
        /\ UNCHANGED <<outcomes, probe>>
     \/ /\ Live
        /\ WithPassed(winner) # winner
        /\ outcomes' = published
        /\ evidence' = WithPassed(winner)
        /\ Fail("output")
        /\ UNCHANGED probe
     \/ /\ Live
        /\ outcomes' = published
        /\ evidence' = WithPassed(winner)
        /\ probe' = probe + 1
        /\ UNCHANGED <<pc, result>>
  /\ UNCHANGED <<clock, canceled, workflow, deadline, batch, execution, wire, sent_at,
                 stats>>

(* An unsolicited frame that one probe explains is retained, if there is   *)
(* room beyond what the outstanding probes may need, and published.  The   *)
(* scan alone attributes these frames.                                     *)
Unsolicited ==
  LET kept == IF workflow = "scan" THEN WithUnattributed(evidence) ELSE evidence
  IN
  /\ pc = "process"
  /\ probe = BatchSize
  /\ execution.unsolicited > 0
  /\ \/ /\ ~Live
        /\ Fail("interrupted")
        /\ UNCHANGED <<evidence, execution>>
     \/ /\ Live
        /\ kept # evidence
        /\ evidence' = kept
        /\ Fail("output")
        /\ UNCHANGED execution
     \/ /\ Live
        /\ evidence' = kept
        /\ execution' = [execution EXCEPT !.unsolicited = @ - 1]
        /\ UNCHANGED <<pc, result>>
  /\ UNCHANGED <<clock, canceled, workflow, deadline, batch, probe, wire, sent_at, stats,
                 outcomes>>

(* The frames that did not decode are retained last; then the batch ends,  *)
(* and with it the run when one of its outcomes says so.                   *)
BatchOverAtOnce ==
  /\ pc = "process"
  /\ IF ~Live THEN Fail("interrupted") /\ UNCHANGED <<evidence, batch, probe>>
     ELSE IF probe > 0 /\ Ends(execution.reply[probe - 1])
     THEN pc' = "finish" /\ UNCHANGED <<evidence, batch, probe, result>>
     ELSE /\ probe = BatchSize
          /\ execution.unsolicited = 0
          /\ evidence' = WithUndecoded(evidence)
          /\ batch' = batch + 1
          /\ probe' = 0
          /\ pc' = "plan"
          /\ UNCHANGED result
  /\ UNCHANGED <<clock, canceled, workflow, deadline, execution, wire, sent_at, stats,
                 outcomes>>

BatchOver ==
  /\ pc = "process"
  /\ probe = BatchSize
  /\ execution.unsolicited = 0
  /\ \/ /\ ~Live
        /\ Fail("interrupted")
        /\ UNCHANGED <<evidence, batch, probe>>
     \/ /\ Live
        /\ WithUndecoded(evidence) # evidence
        /\ evidence' = WithUndecoded(evidence)
        /\ Fail("output")
        /\ UNCHANGED <<batch, probe>>
     \/ /\ Live
        /\ evidence' = WithUndecoded(evidence)
        /\ IF \E p \in 0..BatchSize - 1 : Ends(execution.reply[p])
           THEN pc' = "finish" /\ UNCHANGED <<batch, probe>>
           ELSE /\ batch' = batch + 1
                /\ probe' = 0
                /\ pc' = "plan"
        /\ UNCHANGED result
  /\ UNCHANGED <<clock, canceled, workflow, deadline, execution, wire, sent_at, stats,
                 outcomes>>

Finish ==
  /\ pc = "finish" \/ (pc = "plan" /\ batch = Batches)
  /\ IF ~Live THEN Fail("interrupted")
     ELSE pc' = "reported" /\ result' = "ok"
  /\ UNCHANGED <<clock, canceled, workflow, deadline, batch, probe, execution, wire,
                 sent_at, stats, evidence, outcomes>>

-----------------------------------------------------------------------------
Tick ==
  /\ pc \notin {"failed", "reported"}
  /\ clock < LastTick
  /\ clock' = clock + 1
  /\ UNCHANGED <<canceled, workflow, deadline, pc, batch, probe, execution, wire,
                 sent_at, stats, evidence, outcomes, result>>

Cancel ==
  /\ pc \notin {"failed", "reported"}
  /\ ~canceled
  /\ canceled' = TRUE
  /\ UNCHANGED <<clock, workflow, deadline, pc, batch, probe, execution, wire,
                 sent_at, stats, evidence, outcomes, result>>

Work ==
  \/ Plan \/ Wake \/ Grant \/ Execute \/ Return
  \/ Outcome \/ Unsolicited \/ BatchOver \/ Finish

RunnerNext == Work \/ Tick \/ Cancel

RunnerSpec == RunnerInit /\ [][RunnerNext]_runnerVars
-----------------------------------------------------------------------------
(* The termination traceroute folds from the outcomes (traceroute's        *)
(* evidence.rs): a destination reply outranks an unreachable, which        *)
(* outranks any other response.                                            *)
Termination ==
  LET seen == {outcomes[i].kind : i \in DOMAIN outcomes} IN
  CASE "reached" \in seen -> "destination_reached"
    [] "reached" \notin seen /\ "unreachable" \in seen -> "unreachable"
    [] seen \cap {"reached", "unreachable"} = {} /\ "intermediate" \in seen -> "maximum_hops"
    [] OTHER -> "timeout"

(* A report is exact: every probe that was transmitted is in the merged    *)
(* statistics and has one published outcome, in the order of the plan; a   *)
(* traceroute stopped early exactly when its last batch, and none before   *)
(* it, drew an ending reply, and with the whole of that batch reported.    *)
(* The collector of a streamed report relies on the first part             *)
(* (probe/runner.rs, traceroute's report.rs).                              *)
ReportExact ==
  pc = "reported" =>
    /\ stats.attempted = wire
    /\ Len(outcomes) = wire
    /\ \A i \in DOMAIN outcomes :
         (i - 1) = outcomes[i].batch * BatchSize + outcomes[i].probe
    /\ LET last == (wire \div BatchSize) - 1 IN
       /\ \A i \in DOMAIN outcomes :
            Ends(outcomes[i].kind) => outcomes[i].batch = last
       /\ wire < Batches * BatchSize =>
            Termination \in {"destination_reached", "unreachable"}

(* "Valid evidence is merged before any interruption surfaces, so wire     *)
(* traffic stays accounted" (Context::step): whenever the runner is not    *)
(* between an execution and its return, the merged statistics count every  *)
(* transmitted probe, unless the executor failed or its evidence was       *)
(* refused, and a failed or refused execution is always the last.          *)
TrafficAccounted ==
  pc # "returned" =>
    \/ stats.attempted = wire
    \/ pc = "failed" /\ execution.status \in {"failed", "invalid"}

(* Retaining frames that no outcome carries never costs a probe its        *)
(* response frame: when a winning response was not retained, either no     *)
(* such frame is or frames that did not decode took the space.             *)
WinnersKept ==
  \A i \in DOMAIN outcomes :
    outcomes[i].kind # "timeout" /\ ~outcomes[i].frame =>
      evidence.unattributed = 0 \/ evidence.undecoded > 0

(* Time is charged once and never given back: a step leaves what was       *)
(* charged no smaller, and a tick of the clock always adds itself to it,   *)
(* whatever the phases and the times an executor reports; the time the     *)
(* merged statistics say the run took is always covered by the charge; and *)
(* no batch after the first begins before the rate's pause since the       *)
(* previous one has passed (Deadline::start_accounting and account, pause).*)
ChargesTime ==
  /\ Elapsed' - Elapsed >= clock' - clock
  /\ pc' # "failed" => stats'.elapsed <= Elapsed'
  /\ wire' # wire /\ batch > 0 => deadline.baseline - sent_at.ended >= delay

\* Every step of a run charges the time it takes.
TimeCharged == [][ChargesTime]_runnerVars
=============================================================================
