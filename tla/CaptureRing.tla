----------------------------- MODULE CaptureRing -----------------------------
(***************************************************************************)
(* The files of a live capture (cli commands/network/capture/files.rs and  *)
(* frames.rs): one file, or several of bounded size or age, of which the   *)
(* last ones are kept (ring) or the first ones (stop).  The capture calls  *)
(* the sink with one frame at a time, and finishes the files when it ends, *)
(* whether it ended well or not.                                           *)
(***************************************************************************)
EXTENDS Integers, Sequences, FiniteSets

LOCAL INSTANCE FiniteSetsExt
LOCAL INSTANCE SequencesExt

CONSTANTS RingOptions, FrameSizes, HEADER, RingFrames, RingElapsed, RingMaxFrames, RingMaxBytes

\* slots: the reports, each with its file (the frames in it, and whether it ends in a torn
\* block).  active: the open file, or <<>>.  phase: what the capture does next.
VARIABLES options, phase, slots, active, generation, budget, discarded, last_elapsed, stopped,
          delivered

vars == <<options, phase, slots, active, generation, budget, discarded, last_elapsed, stopped,
          delivered>>

RingAssumption ==
  /\ HEADER \in Nat \ {0}
  /\ FrameSizes \subseteq Nat \ {0}

FreshReport(g) ==
  [generation |-> g, frames |-> 0, capture_bytes |-> 0, first |-> <<>>, last |-> <<>>,
   finalized |-> FALSE, file |-> <<>>, torn |-> FALSE]

rotating(o) == o.rotate_bytes # <<>> \/ o.rotate_after # <<>>

\* Options::validate.
validate(o) ==
  /\ o.max_files > 0
  /\ ~rotating(o) => o.max_files = 1 /\ o.retention # "Ring"

Init ==
  /\ options \in {o \in RingOptions : validate(o)}
  /\ phase = "start"
  /\ slots = <<>> /\ active = <<>> /\ generation = 0
  /\ budget = [frames |-> 0, bytes |-> 0]
  /\ discarded = [files |-> 0, frames |-> 0, bytes |-> 0]
  /\ last_elapsed = 0 /\ stopped = FALSE /\ delivered = 0

\* The files while a handler runs: each of its steps may fail and leave them as they then are.
Files == [slots |-> slots, active |-> active, generation |-> generation,
          discarded |-> discarded, error |-> "none"]

Opened(f, slot, elapsed) ==
  [f EXCEPT !.generation = @ + 1,
            !.active = <<[slot |-> slot, bytes |-> HEADER, frames |-> 0, failed |-> FALSE,
                          opened_at |-> elapsed]>>,
            !.slots[slot].capture_bytes = HEADER]

\* Files::open: a new slot, or the reuse of the one whose turn it is.  What the reused file held
\* is counted as discarded before it is emptied.
open(f, slot, elapsed) ==
  IF slot = Len(f.slots) + 1
  THEN LET new == [f EXCEPT !.slots = Append(@, FreshReport(f.generation + 1))]
       IN  {[f EXCEPT !.error = "Io"], [new EXCEPT !.error = "Io", !.generation = @ + 1],
            Opened(new, slot, elapsed)}
  ELSE LET old == f.slots[slot]
           counted == [f EXCEPT !.discarded = [files |-> @.files + 1,
                                               frames |-> @.frames + old.frames,
                                               bytes |-> @.bytes + old.capture_bytes]]
           emptied == [counted EXCEPT !.slots[slot] = FreshReport(f.generation + 1)]
       IN  {[counted EXCEPT !.error = "Truncate"],
            [emptied EXCEPT !.error = "Io", !.generation = @ + 1],
            Opened(emptied, slot, elapsed)}

\* Files::finish: the file is closed in any case, and finalized if nothing failed in it.
finish(f) ==
  IF f.active = <<>> THEN {f}
  ELSE LET a == f.active[1]
           closed == [f EXCEPT !.active = <<>>, !.slots[a.slot].capture_bytes = a.bytes]
       IN  {[closed EXCEPT !.slots[a.slot].finalized = ~a.failed],
            [closed EXCEPT !.error = "Io"]}

Commit(f) ==
  /\ slots' = f.slots /\ active' = f.active /\ generation' = f.generation
  /\ discarded' = f.discarded

\* Event::Started.
Start ==
  /\ phase = "start"
  /\ IF options.rotate_bytes # <<>> /\ HEADER > options.rotate_bytes[1]
     THEN phase' = "finish" /\ UNCHANGED <<slots, active, generation, discarded>>
     ELSE \E f \in open(Files, 1, 0) :
            /\ Commit(f)
            /\ phase' = IF f.error = "none" THEN "capture" ELSE "finish"
  /\ UNCHANGED <<options, budget, last_elapsed, stopped, delivered>>

NeedsRotation(size, elapsed) ==
  /\ active[1].frames > 0
  /\ \/ options.rotate_bytes # <<>> /\ active[1].bytes + size > options.rotate_bytes[1]
     \/ options.rotate_after # <<>>
          /\ elapsed - active[1].opened_at >= options.rotate_after[1]

\* The slot after the active file is finished; zero when the capture stops instead.
NextSlot(f) ==
  IF Len(f.slots) < options.max_files THEN Len(f.slots) + 1
  ELSE IF options.retention = "Ring" THEN (f.generation % options.max_files) + 1
  ELSE 0

rotate(size, elapsed) ==
  IF ~NeedsRotation(size, elapsed) THEN {Files}
  ELSE UNION {IF f.error # "none" THEN {f}
              ELSE IF NextSlot(f) = 0 THEN {[f EXCEPT !.error = "StopBefore"]}
              ELSE open(f, NextSlot(f), elapsed)
              : f \in finish(Files)}

\* The frame is written and reported, or the writer fails with a part of it in the file.
write_frame(f, size, number) ==
  LET a == f.active[1]
  IN  {[f EXCEPT !.active = <<[a EXCEPT !.bytes = @ + size, !.frames = @ + 1]>>,
                 !.slots[a.slot] =
                   [@ EXCEPT !.frames = a.frames + 1, !.capture_bytes = a.bytes + size,
                             !.first = IF @ = <<>> THEN <<number>> ELSE @,
                             !.last = <<number>>, !.file = Append(@, number)]]}
        \cup {[f EXCEPT !.error = "Io", !.active = <<[a EXCEPT !.failed = TRUE,
                                                              !.bytes = @ + part]>>,
                        !.slots[a.slot].torn = part > 0] : part \in {0, size - 1}}

\* Files::write, and then the other destinations (Destinations::frame), which may fail too.
Frame ==
  /\ phase = "capture" /\ delivered < RingFrames
  /\ \E size \in FrameSizes, elapsed \in last_elapsed..RingElapsed :
       /\ last_elapsed' = elapsed
       /\ delivered' = delivered + 1
       /\ IF \/ budget.frames + 1 > RingMaxFrames
             \/ budget.bytes + size > RingMaxBytes
             \/ options.rotate_bytes # <<>> /\ HEADER + size > options.rotate_bytes[1]
          THEN /\ phase' = "finish"
               /\ UNCHANGED <<slots, active, generation, discarded, budget, stopped>>
          ELSE \E r \in rotate(size, elapsed) :
               \E f \in IF r.error = "none" THEN write_frame(r, size, delivered + 1) ELSE {r} :
               \E emitted \in BOOLEAN :
                 /\ Commit(f)
                 /\ budget' = IF f.error # "none" THEN budget
                              ELSE [frames |-> budget.frames + 1, bytes |-> budget.bytes + size]
                 /\ stopped' = \/ f.error = "StopBefore"
                               \/ /\ f.error = "none" /\ options.retention = "Stop"
                                  /\ Len(f.slots) = options.max_files
                                  /\ options.rotate_bytes # <<>>
                                  /\ f.active[1].bytes = options.rotate_bytes[1]
                 /\ phase' = IF f.error = "none" /\ emitted /\ ~stopped' THEN "capture"
                             ELSE "finish"
  /\ UNCHANGED options

\* The capture ends by itself: a limit, a signal, or an error elsewhere.
EndCapture ==
  /\ phase = "capture"
  /\ phase' = "finish"
  /\ UNCHANGED <<options, slots, active, generation, budget, discarded, last_elapsed, stopped,
                 delivered>>

\* Destinations::finish, which reports even after a failure.
Finish ==
  /\ phase = "finish"
  /\ \E f \in finish(Files) : Commit(f)
  /\ phase' = "reported"
  /\ UNCHANGED <<options, budget, last_elapsed, stopped, delivered>>

\* The files are reported.
Reported == phase = "reported" /\ UNCHANGED vars

Next == Start \/ Frame \/ EndCapture \/ Finish \/ Reported

Spec == Init /\ [][Next]_vars

-----------------------------------------------------------------------------

SumOf(f(_)) == MapThenSumSet(f, DOMAIN slots)

\* Whether a failed truncation has counted a file as discarded that is still reported.
CountedTwice ==
  discarded.files > 0 /\ active = <<>>
    /\ Len(slots) + discarded.files > generation

\* Retention loses nothing it does not count (Files::write, open): every frame accepted is in a
\* file that is still there or counted as discarded, the kept files hold consecutive runs of the
\* frames delivered, and the oldest generation is always the one that is reused.
RetentionExact ==
  /\ \A i \in DOMAIN slots :
       /\ slots[i].frames = Len(slots[i].file)
       /\ \A k \in DOMAIN slots[i].file : slots[i].file[k] = slots[i].first[1] + k - 1
       /\ slots[i].file # <<>> => slots[i].last = <<Last(slots[i].file)>>
  /\ ~CountedTwice =>
       budget.frames = SumOf(LAMBDA i : slots[i].frames) + discarded.frames
  /\ options.retention = "Stop" => discarded.files = 0
  /\ Cardinality({slots[i].generation : i \in DOMAIN slots}) = Len(slots)
  /\ \A i \in DOMAIN slots : slots[i].generation > generation - Len(slots) - 1
  /\ \A i, j \in DOMAIN slots :
       slots[i].generation < slots[j].generation /\ slots[i].file # <<>> /\ slots[j].file # <<>>
         => slots[i].last[1] < slots[j].first[1]

\* A rotated file never grows past --rotate-bytes and has at least one frame before it is left
\* (Files::write); a file is reported as finalized only if it was closed complete (finish).
FilesBounded ==
  \A i \in DOMAIN slots :
    /\ options.rotate_bytes # <<>> => slots[i].capture_bytes <= options.rotate_bytes[1]
    /\ slots[i].finalized => ~slots[i].torn /\ (active # <<>> => active[1].slot # i)
    /\ (active = <<>> \/ active[1].slot # i) /\ slots[i].generation < generation =>
         slots[i].frames > 0

RingExact == RetentionExact /\ FilesBounded

=============================================================================
