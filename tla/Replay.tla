-------------------------------- MODULE Replay --------------------------------
(***************************************************************************)
(* Replaying a capture (packetcraftr/src/replay): every pass reads the     *)
(* capture again, and each selected frame is planned, admitted, routed,    *)
(* authorized for its final route, held until its time on the schedule and *)
(* transmitted; then its evidence is published.                            *)
(*                                                                         *)
(* A frame of the capture is its size, its stamp (or -1), the interface it *)
(* was captured on and whether the filter keeps it; time is in ticks, from *)
(* the start of the replay, and the deadline is the wall clock's, because  *)
(* a pause that is not cut short lasts at least its delay.                 *)
(***************************************************************************)
EXTENDS Integers, Sequences, FiniteSets, FiniteSetsExt, SequencesExt

CONSTANTS
  Captures,     \* the captures that may be replayed
  Schedules,    \* the timing, max_gap, repeat and inter_pass_delay asked for
  Routings,     \* the rules, from capture to output interface, and the fallback
  Interfaces,   \* the output interfaces of the host
  period,       \* the gap of the fixed rate
  rate,         \* octets per tick of the bit rate
  max_source_frames, max_transmitted_bytes, max_frame_bytes, max_duration,
  LastTick      \* the clock of the model stops here

VARIABLES
  capture, options, routing,   \* the request
  clock, canceled,
  present,      \* the interfaces that are up
  validated,    \* validated_interface, or "none"
  pc, pass, index, frame, tally, anchor, plan, output,
  wire,         \* what was transmitted, in order (history)
  emitted,      \* how many frames' evidence was published
  result

replayVars == <<capture, options, routing, clock, canceled, present, validated, pc, pass,
                index, frame, tally, anchor, plan, output, wire, emitted, result>>

request == <<capture, options, routing>>
world == <<clock, canceled, present>>

Unset == -1
NoPlan == [delay |-> 0, next_completed |-> 0, next_bytes |-> 0, next_duration |-> 0]
NoFrame == [size |-> 0, stamp |-> Unset, from |-> 0, keep |-> FALSE]

ReplayInit ==
  /\ capture \in Captures /\ options \in Schedules /\ routing \in Routings
  /\ clock = 0 /\ canceled = FALSE /\ present = Interfaces /\ validated = "none"
  /\ pc = "read" /\ pass = 1 /\ index = 0 /\ frame = NoFrame
  /\ tally = [frames_read |-> 0, frames_transmitted |-> 0, bytes_transmitted |-> 0,
              scheduled |-> 0, pause |-> 0, setup |-> 0, passes |-> 0,
              previous |-> Unset, has_previous |-> FALSE]
  /\ anchor = Unset /\ plan = NoPlan /\ output = "none"
  /\ wire = <<>> /\ emitted = 0 /\ result = "none"

-----------------------------------------------------------------------------
(* The schedule (replay/plan.rs).                                          *)

Live == ~canceled /\ clock <= max_duration

Gap(from, to) == Max({to - from, 0})

(* Half a duration, as Duration rounds it: to the nearest, ties to even.   *)
Half(n) == IF n % 2 = 0 THEN n \div 2 ELSE ((n + 1) \div 4) * 2

(* The ticks that so many octets take at the bit rate, rounded up.         *)
Ticks(octets) == (octets + rate - 1) \div rate

(* Timing::delay_between, or Unset for its error.                          *)
DelayBetween(from, to, octets, scheduled) ==
  CASE options.timing = "immediate" -> 0
    [] options.timing = "fixed" -> period
    [] options.timing = "bits" -> Max({Ticks(octets) - scheduled, 0})
    [] options.timing = "original" /\ from # Unset /\ to # Unset -> Gap(from, to)
    [] /\ options.timing = "scaled" /\ from # Unset /\ to # Unset
       /\ Gap(from, to) = 0 \/ Half(Gap(from, to)) > 0 -> Half(Gap(from, to))
    [] OTHER -> Unset

Captured == options.timing \in {"original", "scaled"}

ScheduledDelay(f) ==
  IF ~tally.has_previous THEN 0
  ELSE LET delay == DelayBetween(tally.previous, f.stamp, tally.bytes_transmitted,
                                 tally.scheduled - tally.pause)
       IN IF Captured /\ options.max_gap # Unset THEN Min({delay, options.max_gap}) ELSE delay

FramePlan(f, delay) ==
  [delay          |-> delay,
   next_completed |-> tally.frames_transmitted + 1,
   next_bytes     |-> tally.bytes_transmitted + f.size,
   next_duration  |-> tally.scheduled + delay]

(* plan_frame's refusals.                                                  *)
Plannable(f, delay) ==
  /\ tally.bytes_transmitted + f.size <= max_transmitted_bytes
  /\ delay # Unset
  /\ tally.scheduled + delay + tally.setup <= max_duration

(* Tally::complete: stamps may step back, and the newest one is kept.      *)
Complete(p, f) ==
  [tally EXCEPT !.frames_transmitted = p.next_completed, !.bytes_transmitted = p.next_bytes,
                !.scheduled = p.next_duration, !.has_previous = TRUE,
                !.previous = IF @ # Unset /\ f.stamp # Unset THEN Max({@, f.stamp}) ELSE f.stamp]

(* Session::anchor_at.                                                     *)
AnchorAt(t, at) == [t EXCEPT !.setup = Max({at, 0})]

-----------------------------------------------------------------------------
(* Routing::interface: every rule is looked at, so a conflict is found.    *)
Chosen(f) == {r.to : r \in {r \in routing.rules : f.from = r.from}}

Interface(f) ==
  CASE Cardinality(Chosen(f)) = 1 -> CHOOSE i \in Chosen(f) : TRUE
    [] Chosen(f) = {} /\ routing.fallback # "none" -> routing.fallback
    [] OTHER -> "none"

-----------------------------------------------------------------------------
(* Run::pass, a step for each call that may take time.                     *)

Fail(error) == pc' = "failed" /\ result' = error

Proceed(to) == pc' = to /\ UNCHANGED result

(* A step is refused when the deadline is spent or the replay cancelled,   *)
(* before or after its call, and may fail by itself.                       *)
Checked(from, step) ==
  /\ pc = from
  /\ \/ /\ Fail(IF Live THEN "error" ELSE "interrupted")
        /\ UNCHANGED <<index, frame, tally, anchor, plan, output, validated, wire, emitted>>
     \/ Live /\ step
  /\ UNCHANGED <<request, world, pass>>

(* read_frame, and the end of the pass when there is no further frame.     *)
ReadStep ==
  IF index = Len(capture)
  THEN /\ tally' = [tally EXCEPT !.passes = @ + 1]
       /\ Proceed(IF pass < options.repeat THEN "pause" ELSE "report")
       /\ UNCHANGED <<index, frame, anchor, plan, output, validated, wire, emitted>>
  ELSE LET f == capture[index + 1] IN
       /\ UNCHANGED <<index, anchor, plan, output, validated, wire, emitted>>
       /\ IF tally.frames_read + 1 > max_source_frames \/ f.size > max_frame_bytes
          THEN Fail("limit") /\ UNCHANGED <<frame, tally>>
          ELSE /\ tally' = [tally EXCEPT !.frames_read = @ + 1]
               /\ frame' = f
               /\ Proceed("select")

Read == Checked("read", ReadStep)

SelectStep ==
  /\ IF frame.keep
     THEN IF Plannable(frame, ScheduledDelay(frame))
          THEN /\ plan' = FramePlan(frame, ScheduledDelay(frame))
               /\ Proceed("admit")
               /\ UNCHANGED index
          ELSE Fail("limit") /\ UNCHANGED <<index, plan>>
     ELSE index' = index + 1 /\ Proceed("read") /\ UNCHANGED plan
  /\ UNCHANGED <<frame, tally, anchor, output, validated, wire, emitted>>

Select == Checked("select", SelectStep)

(* admit_frame, and the interface the rules give the frame.                *)
AdmitStep ==
  /\ output' = Interface(frame)
  /\ IF output' = "none" THEN Fail("routing") ELSE Proceed("route")
  /\ UNCHANGED <<index, frame, tally, anchor, plan, validated, wire, emitted>>

Admit == Checked("admit", AdmitStep)

(* ProviderExecutor::plan_frame: an interface just used stays validated.   *)
RouteStep ==
  /\ \/ validated = output /\ Proceed("final") /\ UNCHANGED validated
     \/ validated # output /\ output \in present /\ validated' = output /\ Proceed("final")
     \/ validated # output /\ output \notin present /\ validated' = "none" /\ Fail("device")
  /\ UNCHANGED <<index, frame, tally, anchor, plan, output, wire, emitted>>

Route == Checked("route", RouteStep)

(* authorize_final_wire, the anchor of the schedule, and the pause until   *)
(* the frame's time, reserved before it is slept.                          *)
FinalStep ==
  LET first == anchor = Unset \/ ~tally.has_previous
      at == IF first THEN clock - plan.next_duration ELSE anchor IN
  /\ anchor' = at
  /\ tally' = IF first THEN AnchorAt(tally, at) ELSE tally
  /\ IF clock + Gap(clock, at + plan.next_duration) > max_duration
     THEN Fail("duration") ELSE Proceed("pace")
  /\ UNCHANGED <<index, frame, plan, output, validated, wire, emitted>>

Final == Checked("final", FinalStep)

(* The sleep ends at the frame's time, or early once the replay must end;  *)
(* then the frame is transmitted.                                          *)
Transmit ==
  /\ pc = "pace"
  /\ clock >= anchor + plan.next_duration \/ ~Live
  /\ \/ ~Live /\ Fail("interrupted") /\ UNCHANGED <<tally, wire>>
     \/ Live /\ Fail("error") /\ UNCHANGED <<tally, wire>>
     \/ /\ Live /\ validated = output /\ output \in present
        /\ wire' = Append(wire, [pass |-> pass, index |-> index, to |-> output,
                                 at |-> clock, anchor |-> anchor,
                                 size |-> frame.size])
        /\ tally' = Complete(plan, frame)
        /\ Proceed("emit")
  /\ UNCHANGED <<request, world, pass, index, frame, anchor, plan, output, validated, emitted>>

(* The evidence is published, whatever the time; then the deadline counts. *)
EmitBestEffort ==
  /\ pc = "emit"
  /\ frame' = NoFrame /\ plan' = NoPlan /\ output' = "none"
  /\ \/ emitted' = emitted + 1 /\ index' = index + 1 /\ Proceed("read")
     \/ Live /\ index' = index + 1 /\ Proceed("read") /\ UNCHANGED emitted
  /\ UNCHANGED <<request, world, pass, tally, anchor, validated, wire>>

Emit ==
  /\ pc = "emit"
  /\ frame' = NoFrame /\ plan' = NoPlan /\ output' = "none"
  /\ \/ emitted' = emitted + 1 /\ index' = index + 1 /\ Proceed("read")
     \/ Fail("output") /\ UNCHANGED <<emitted, index>>
  /\ UNCHANGED <<request, world, pass, tally, anchor, validated, wire>>

(* Between passes: the capture is rewound, and the pause begins.           *)
PauseStep ==
  /\ IF clock + options.inter_pass_delay > max_duration
     THEN Fail("duration") /\ UNCHANGED plan
     ELSE plan' = [plan EXCEPT !.delay = clock] /\ Proceed("sleep")
  /\ UNCHANGED <<index, frame, tally, anchor, output, validated, wire, emitted>>

Pause == Checked("pause", PauseStep)

PausedUncounted(t) ==
  [t EXCEPT !.scheduled = @ + options.inter_pass_delay,
            !.has_previous = @ /\ ~Captured,
            !.previous = IF Captured THEN Unset ELSE @]

Paused(t) ==
  [t EXCEPT !.scheduled = @ + options.inter_pass_delay,
            !.pause = @ + options.inter_pass_delay,
            !.has_previous = @ /\ ~Captured,
            !.previous = IF Captured THEN Unset ELSE @]

(* pause_between_passes, after its sleep.                                  *)
NextPass ==
  /\ pc = "sleep"
  /\ clock >= plan.delay + options.inter_pass_delay \/ ~Live
  /\ IF ~Live THEN Fail("interrupted") /\ UNCHANGED <<pass, index, tally, anchor>>
     ELSE /\ anchor' = clock - Paused(tally).scheduled
          /\ tally' = AnchorAt(Paused(tally), anchor')
          /\ pass' = pass + 1 /\ index' = 0
          /\ Proceed("read")
  /\ UNCHANGED <<request, world, frame, plan, output, validated, wire, emitted>>

Report ==
  /\ pc = "report"
  /\ IF Live THEN pc' = "done" /\ result' = "complete" ELSE Fail("interrupted")
  /\ UNCHANGED <<request, world, pass, index, frame, tally, anchor, plan, output, validated,
                 wire, emitted>>

(* Time passes as a frame is made ready, and in the pauses; the replay may *)
(* be cancelled meanwhile.                                                 *)
Tick ==
  /\ pc \in {"route", "pace", "sleep"} /\ clock < LastTick
  /\ clock' = clock + 1
  /\ UNCHANGED <<request, canceled, present, validated, pc, pass, index, frame, tally, anchor,
                 plan, output, wire, emitted, result>>

Cancel ==
  /\ pc \in {"admit", "pace", "sleep", "emit"} /\ ~canceled /\ canceled' = TRUE
  /\ UNCHANGED <<request, clock, present, validated, pc, pass, index, frame, tally, anchor,
                 plan, output, wire, emitted, result>>

GoDown ==
  /\ pc \in {"route", "pace"}
  /\ \E i \in present : present' = present \ {i}
  /\ UNCHANGED <<request, clock, canceled, validated, pc, pass, index, frame, tally, anchor,
                 plan, output, wire, emitted, result>>

ReplayNext ==
  \/ Read \/ Select \/ Admit \/ Route \/ Final \/ Transmit \/ Emit
  \/ Pause \/ NextPass \/ Report
  \/ Tick \/ Cancel \/ GoDown

ReplaySpec == ReplayInit /\ [][ReplayNext]_replayVars

-----------------------------------------------------------------------------
(* The kept frames of one pass, and of all of them, in order.              *)
Kept == SelectSeq([i \in 1..Len(capture) |-> i], LAMBDA i : capture[i].keep)
Expected == [k \in 1..options.repeat * Len(Kept) |->
               <<((k - 1) \div Len(Kept)) + 1, Kept[((k - 1) % Len(Kept)) + 1] - 1>>]

Sent(k) == wire[k]
Source(k) == capture[Sent(k).index + 1]
OctetsBefore(k) == FoldSeq(LAMBDA w, n : n + w.size, 0, SubSeq(wire, 1, k - 1))

(* What reaches the wire is, in order and each once, the kept frames of    *)
(* each pass, every one on the interface all its rules agree on and within *)
(* the byte limit; a frame's evidence is published for each of them, but   *)
(* for one whose publication failed; and a finished replay sent all of     *)
(* them and reports exactly that.                                          *)
ReplayFaithful ==
  /\ Len(wire) <= Len(Expected)
  /\ \A k \in DOMAIN wire :
       /\ <<Sent(k).pass, Sent(k).index>> = Expected[k]
       /\ \A r \in routing.rules : r.from = Source(k).from => r.to = Sent(k).to
       /\ Chosen(Source(k)) = {} => Sent(k).to = routing.fallback
  /\ OctetsBefore(Len(wire) + 1) <= max_transmitted_bytes
  /\ emitted = Len(wire) - (IF pc = "emit" \/ result = "output" THEN 1 ELSE 0)
  /\ result = "complete" =>
       /\ Len(wire) = Len(Expected) /\ emitted = tally.frames_transmitted
       /\ tally.bytes_transmitted = OctetsBefore(Len(wire) + 1)
       /\ tally.frames_read = options.repeat * Len(capture) /\ tally.passes = options.repeat

(* The time the k-th frame is due after the first one of the replay, from  *)
(* the request alone: the pauses between the passes before it and, for     *)
(* timing by rate, what was sent before it; for captured timing, how far   *)
(* each frame's stamp advanced past all before it in its pass.             *)
NewestBefore(k) == Max({Source(j).stamp : j \in {j \in 1..k - 1 : Sent(j).pass = Sent(k).pass}})
Opens(k) == ~\E j \in 1..k - 1 : Sent(j).pass = Sent(k).pass
Advance(k) == IF Opens(k) THEN 0 ELSE Gap(NewestBefore(k), Source(k).stamp)
Step(k) ==
  LET gap == IF options.timing = "scaled" THEN Half(Advance(k)) ELSE Advance(k)
  IN IF options.max_gap # Unset THEN Min({gap, options.max_gap}) ELSE gap

Due(k) ==
  (Sent(k).pass - 1) * options.inter_pass_delay +
  CASE options.timing = "immediate" -> 0
    [] options.timing = "fixed" -> (k - 1) * period
    [] options.timing = "bits" -> Ticks(OctetsBefore(k))
    [] OTHER -> FoldSet(LAMBDA j, n : n + Step(j), 0, 1..k)

(* No frame leaves before its time, however much earlier ones were         *)
(* delayed: pauses between passes are never counted as time the rate has   *)
(* paid, a stamp that steps back is not paid for twice, and the schedule   *)
(* of all frames sent is the one the request asks for.                     *)
ScheduleKept ==
  \A k \in DOMAIN wire :
    /\ Sent(k).at >= Sent(1).anchor + Due(k)
    /\ Sent(k).at <= max_duration
    /\ k = Len(wire) /\ pc = "emit" => tally.scheduled = Due(k)
=============================================================================
