-------------------------- MODULE MessageCollector --------------------------
(***************************************************************************)
(* Which frames the bytes of a reassembled stream came from                *)
(* (core analysis/application.rs, TcpSources).                             *)
(*                                                                         *)
(* The reassembler delivers bytes, not frames.  TcpSources keeps, beside   *)
(* it, the span of every payload byte not yet delivered, follows the       *)
(* events of each frame to know which spans are gone, and attaches to each *)
(* delivery the frame its bytes were first seen in.  It numbers the        *)
(* connections that reuse one pair of ports as generations of the stream.  *)
(* Its functions take and return its state, as TcpReassembly's do.         *)
(***************************************************************************)
EXTENDS TcpReassembly

CONSTANTS
  Stream,             \* the stream of a flow: the same in both directions
  max_source_spans

VARIABLE sources

NoSpans == [f \in {} |-> {}]

SourcesInit ==
  sources = [spans |-> NoSpans, span_count |-> 0, streams |-> {},
             generations |-> [st \in {} |-> 0],
             syns |-> [f \in {} |-> 0], closed |-> {}, error |-> "none", output |-> <<>>]

(* FlowSpans::offset and overlapping.                                      *)
Offset(fs, sequence) == fs.anchor_offset + SerialOffset(sequence, fs.anchor_sequence)

Overlapping(fs, start, end) ==
  {x \in fs.ranges : x.start < end /\ x.start + x.length > start}

ForgetSpans(src, fs) ==
  LET gone == fs \cap DOMAIN src.spans
  IN [src EXCEPT
        !.spans = [f \in DOMAIN @ \ gone |-> @[f]],
        !.span_count = @ - MapThenSumSet(LAMBDA f : Cardinality(src.spans[f].ranges), gone)]

Of(src, stream) == {f \in src.streams : Stream[f] = stream}

ResetStream(src, stream) ==
  LET next == ForgetSpans(src, Of(src, stream))
  IN [next EXCEPT !.generations[stream] = @ + 1, !.closed = @ \ Of(src, stream)]

Emit(src, e) == [src EXCEPT !.output = Append(@, e)]

Refuse(src, error) == [src EXCEPT !.error = error]

-----------------------------------------------------------------------------
(* The parts of a payload no span covers yet become spans of its frame.    *)

Pieces(fs, start, end) ==
  LET new == {p \in start..(end - 1) : \A x \in fs.ranges : p \notin x.start..(x.start + x.length - 1)}
  IN Intervals(new)

FlowSpans(src, f, sequence) ==
  IF f \in DOMAIN src.spans THEN src.spans[f]
  ELSE [anchor_sequence |-> sequence, anchor_offset |-> 0, ranges |-> {}]

InsertPieces(src, f, fs, pieces, number) ==
  IF src.span_count + Cardinality(pieces) > max_source_spans THEN Refuse(src, "max_source_spans")
  ELSE IF pieces = {} THEN src
  ELSE [src EXCEPT
          !.span_count = @ + Cardinality(pieces),
          !.spans = [g \in DOMAIN @ \cup {f} |->
            IF g # f THEN @[g]
            ELSE [fs EXCEPT !.ranges =
                    @ \cup {[start |-> p[1], length |-> p[2] - p[1], number |-> number] : p \in pieces}]]]

Insert(src, s, number) ==
  LET fs == FlowSpans(src, s.flow, First(s))
      start == Offset(fs, First(s))
  IN InsertPieces(src, s.flow, fs, Pieces(fs, start, start + s.len), number)

(* A plausible slip: a repeated range gives up the span of whoever sent it *)
(* first.                                                                  *)
AffectedAny(fs, start, end, number) == Overlapping(fs, start, end)

(* number is 0 for a delivery, which takes every span.                     *)
Affected(fs, start, end, number) ==
  {x \in Overlapping(fs, start, end) : number \in {0, x.number}}

SubtractFrom(src, f, affected, remaining) ==
  LET count == src.span_count - Cardinality(affected) + Cardinality(remaining)
      ranges == (src.spans[f].ranges \ affected) \cup remaining
  IN IF count > max_source_spans THEN Refuse(src, "max_source_spans")
     ELSE [src EXCEPT
             !.span_count = count,
             !.spans = IF ranges = {} THEN [g \in DOMAIN @ \ {f} |-> @[g]]
                       ELSE [@ EXCEPT ![f].ranges = ranges]]

Subtract(src, f, sequence, length, number) ==
  IF f \notin DOMAIN src.spans \/ length = 0 THEN src
  ELSE LET start == Offset(src.spans[f], sequence)
           end == start + length
           affected == Affected(src.spans[f], start, end, number)
           left == {[x EXCEPT !.length = start - x.start] : x \in {y \in affected : y.start < start}}
           right == {[x EXCEPT !.start = end, !.length = x.start + x.length - end] :
                       x \in {y \in affected : y.start + y.length > end}}
       IN SubtractFrom(src, f, affected, left \cup right)

-----------------------------------------------------------------------------
(* TcpSources::event.                                                      *)

ByStart(parts) == SetToSortSeq(parts, LAMBDA x, y : x.start < y.start)

(* The delivered bytes, split by the spans that cover them.                *)
Deliveries(e, fs, start, generation) ==
  LET end == start + Len(e.bytes)
      parts == ByStart(Overlapping(fs, start, end))
      lo(x) == Max({x.start, start}) - start
      hi(x) == Min({x.start + x.length, end}) - start
  IN [i \in 1..Len(parts) |->
        [kind |-> "data", flow |-> e.flow, generation |-> generation,
         bytes |-> SubSeq(e.bytes, lo(parts[i]) + 1, hi(parts[i])),
         origin |-> SubSeq(e.origin, lo(parts[i]) + 1, hi(parts[i])),
         number |-> parts[i].number]]

Anchored(src, e) ==
  IF e.flow \notin DOMAIN src.spans THEN src
  ELSE [src EXCEPT
          !.spans[e.flow].anchor_offset = Offset(src.spans[e.flow], e.sequence) + Len(e.bytes),
          !.spans[e.flow].anchor_sequence = (e.sequence + Len(e.bytes)) % Modulus]

Delivered(src, e, deliveries) ==
  IF FoldLeft(LAMBDA n, d : n + Len(d.bytes), 0, deliveries) # Len(e.bytes)
  THEN Refuse(src, "sources")
  ELSE Anchored(Subtract([src EXCEPT !.output = @ \o deliveries], e.flow, e.sequence, Len(e.bytes), 0), e)

DataEvent(src, e) ==
  Delivered(src, e,
    IF e.flow \notin DOMAIN src.spans THEN <<>>
    ELSE Deliveries(e, src.spans[e.flow], Offset(src.spans[e.flow], e.sequence),
                    src.generations[Stream[e.flow]]))

Closing(e) == {e.flow} \cup (IF e.reset THEN {Opposite[e.flow]} ELSE {})

(* generation is the one before the frame, for a frame that began another. *)
EventOf(src, e, number, generation) ==
  LET note(kind) == [kind |-> kind, flow |-> e.flow, generation |-> generation]
  IN CASE src.error # "none" \/ e.flow \notin src.streams -> src
       [] e.kind = "data" -> DataEvent(src, e)
       [] e.kind = "retransmission" ->
            LET rest == FoldSet(LAMBDA r, x : Subtract(x, e.flow, r[1], r[2], number), src, e.ranges)
            IN IF e.conflicting /\ rest.error = "none" THEN Emit(rest, note("conflict")) ELSE rest
       [] e.kind = "gap" -> Emit(src, note("gap"))
       [] e.kind = "closed" ->
            Emit([src EXCEPT !.closed = @ \cup Closing(e)],
                 [kind |-> "closed", flow |-> e.flow, generation |-> generation, reset |-> e.reset])
       [] e.kind = "evicted" -> Emit(ForgetSpans(src, {e.flow}), note("evicted"))

-----------------------------------------------------------------------------
(* TcpSources::admit: a SYN the reassembler or the collector knows to      *)
(* reuse its ports begins another generation.                              *)

LastEviction(src, s, evs) ==
  Max({0} \cup {i \in 1..Len(evs) :
                  evs[i].kind = "evicted" /\ evs[i].flow \in Of(src, Stream[s.flow])})

Associated(src, s) ==
  [src EXCEPT
     !.streams = @ \cup {s.flow},
     !.generations = [st \in DOMAIN @ \cup {Stream[s.flow]} |-> IF st \in DOMAIN @ THEN @[st] ELSE 0]]

Begin(src, s, reassembly_reused) ==
  LET initial == s.syn /\ s.ack = -1
      observed == /\ initial
                  /\ \/ s.flow \in DOMAIN src.syns /\ src.syns[s.flow] # s.sequence
                     \/ {s.flow, Opposite[s.flow]} \subseteq src.closed
      stream == Stream[s.flow]
      reset == IF reassembly_reused \/ observed THEN ResetStream(src, stream) ELSE src
      told == IF observed /\ ~reassembly_reused
              THEN Emit(reset, [kind |-> "evicted", flow |-> s.flow,
                                generation |-> reset.generations[stream] - 1])
              ELSE reset
  IN IF ~initial THEN told
     ELSE [told EXCEPT !.syns = [f \in DOMAIN @ \cup {s.flow} |-> IF f = s.flow THEN s.sequence ELSE @[f]],
                       !.closed = @ \ {s.flow}]

(* The events, with the frame's own span put in after the last eviction of *)
(* its stream.                                                             *)
Follow(src, s, number, generation, evs, after, resets) ==
  LET carries == s.len > 0 /\ ~s.rst
      put(x, i) == IF carries /\ i = after /\ x.error = "none" THEN Insert(x, s, number) ELSE x
      gone(e) == e.kind = "evicted" /\ \E f \in resets : e.flow \in {f, Opposite[f]}
      one(x, i) == IF gone(evs[i]) /\ x.error = "none" THEN ForgetSpans(x, {evs[i].flow})
                   ELSE EventOf(x, evs[i], number,
                                IF Stream[evs[i].flow] = Stream[s.flow] THEN generation
                                ELSE x.generations[Stream[evs[i].flow]])
  IN FoldLeft(LAMBDA x, i : put(one(x, i), i), put(src, 0), [i \in 1..Len(evs) |-> i])

Observe(src, s, number, evs) ==
  LET known == Associated(src, s)
      after == LastEviction(known, s, evs)
      begun == Begin(known, s, s.syn /\ after # 0)
  IN Follow(begun, s, number, known.generations[Stream[s.flow]], evs, after,
            {evs[i].flow : i \in {j \in 1..Len(evs) :
               evs[j].kind = "closed" /\ evs[j].reset /\ evs[j].flow \in begun.streams}})

(* A frame without a TCP segment, and the end of the capture.              *)
Trailing(src, number, evs) ==
  FoldLeft(LAMBDA x, e : EventOf(x, e, number, x.generations[Stream[e.flow]]), src, evs)

Fresh(src) == [src EXCEPT !.output = <<>>]

-----------------------------------------------------------------------------
(***************************************************************************)
(* Messages framed out of reassembled TCP streams (core                    *)
(* analysis/messages.rs): the composition of the reassembler, of the frame *)
(* sources of TcpSources, and of the collector that buffers each direction *)
(* until a message is whole, emits it with the frames it came from, and    *)
(* flushes what is left when a stream gaps, conflicts, closes or is        *)
(* evicted.                                                                *)
(*                                                                         *)
(* A byte is 0 or 1, and two framings stand for those of the protocols.    *)
(* In both, 0 is a whole message.  In "text", 1 0 is a keep-alive between  *)
(* messages and 1 1 is no message at all.  In "binary", 1 0 is a preface   *)
(* of a version that is not supported, after which the connection is       *)
(* opaque, 1 1 0 begins a message longer than the buffer may be, and 1 1 1 *)
(* one of a format that is not supported.                                  *)
(***************************************************************************)
CONSTANTS max_buffer_bytes, max_messages, max_retained_bytes,
  Protocols,       \* framings the ports of the streams may select
  LeftOut          \* the captures left out: "split", or nothing

VARIABLES
  collector,
  log          \* every delivery, with the frames its bytes really came from

messageVars == <<tcpVars, sources, collector, log>>

NoDirections == [f \in {} |-> {}]

MessageInit ==
  /\ TcpInit
  /\ SourcesInit
  /\ log = <<>>
  /\ \E p \in Protocols :
       collector = [protocol |-> p, directions |-> NoDirections, stopped |-> [f \in {} |-> 0],
                    connections |-> [st \in {} |-> {}], buffered |-> 0, buffer_capacity |-> 0,
                    retained |-> 0, cuts |-> <<>>, error |-> "none"]

NewDirection(generation) ==
  [generation |-> generation, buffer |-> <<>>, offset |-> 0, capacity |-> 0,
   sources |-> {}, disabled |-> FALSE]

Rest(d) == SubSeq(d.buffer, d.offset + 1, Len(d.buffer))

Opaque(c, f, d) ==
  LET st == Stream[f] IN
  st \in DOMAIN c.connections
    /\ c.connections[st].generation = d.generation /\ c.connections[st].unsupported

With(c, f, d) ==
  [c EXCEPT !.directions = [g \in DOMAIN @ \cup {f} |-> IF g = f THEN d ELSE @[g]]]

(* What is cut from a stream, in order: the messages and, as history, the  *)
(* keep-alives between them.                                               *)
Cut(c, f, d, status, wire) ==
  [c EXCEPT !.cuts = Append(@, [flow |-> f, generation |-> d.generation, status |-> status,
                                wire |-> wire, sources |-> d.sources])]

Messages(c) == SelectSeq(c.cuts, LAMBDA m : m.status # "skipped")

(* Limits::decoded_charge.                                                 *)
decoded_charge(bytes) == bytes * 32 + 4096

(* Collector::emit.                                                        *)
EmitMessage(c, f, d, status, wire) ==
  LET retained == c.retained + decoded_charge(Len(wire)) IN
  IF Len(Messages(c)) >= max_messages THEN [c EXCEPT !.error = "max_messages"]
  ELSE IF retained > max_retained_bytes THEN [c EXCEPT !.error = "max_retained_bytes"]
  ELSE Cut([c EXCEPT !.retained = retained], f, d, status, wire)

(* Collector::flush on the direction of f.                                 *)
Flushed(c, f, d, status) ==
  LET freed == [c EXCEPT !.buffer_capacity = @ - d.capacity]
      empty == [d EXCEPT !.buffer = <<>>, !.offset = 0, !.capacity = 0]
      emitted == EmitMessage(freed, f, d,
                   IF status = "incomplete" /\ Opaque(c, f, d) THEN "unsupported" ELSE status, Rest(d))
  IN IF d.offset = Len(d.buffer) THEN With(freed, f, empty)
     ELSE IF emitted.error # "none" THEN emitted
     ELSE With([emitted EXCEPT !.buffered = @ - Len(Rest(d))], f, [empty EXCEPT !.sources = {}])

Disabled(c, f) ==
  IF c.error = "none" THEN [c EXCEPT !.directions[f].disabled = TRUE] ELSE c

(* Collector::stop.                                                        *)
StopFlow(c, f, generation, status) ==
  LET marked == [c EXCEPT !.stopped = [g \in DOMAIN @ \cup {f} |-> IF g = f THEN generation ELSE @[g]]]
  IN IF f \in DOMAIN c.directions /\ c.directions[f].generation = generation
     THEN Disabled(Flushed(marked, f, c.directions[f], status), f)
     ELSE marked

-----------------------------------------------------------------------------
(* Collector::reserve_buffer: the direction is compacted, then the others, *)
(* before the limit refuses a larger buffer.                               *)

Compacted(d) == [d EXCEPT !.buffer = Rest(d), !.offset = 0]

Shrunk(c, f) ==
  LET small(d) == [Compacted(d) EXCEPT !.capacity = Len(Rest(d))]
      others == DOMAIN c.directions \ {f}
  IN [c EXCEPT
        !.directions = [g \in DOMAIN @ |-> IF g = f THEN @[g] ELSE small(@[g])],
        !.buffer_capacity = @ - MapThenSumSet(LAMBDA g : c.directions[g].capacity
                                                         - Len(Rest(c.directions[g])), others)]

Grown(c, f, d, needed) ==
  LET others == c.buffer_capacity - d.capacity
      target == Max({needed, Min({2 * d.capacity, max_buffer_bytes - others})})
  IN IF needed + others > max_buffer_bytes THEN [c EXCEPT !.error = "max_buffer_bytes"]
     ELSE With([c EXCEPT !.buffer_capacity = others + target], f, [d EXCEPT !.capacity = target])

ReserveBuffer(c, f, additional) ==
  LET d == c.directions[f]
      needed == Len(Rest(d)) + additional
  IN IF d.capacity - Len(d.buffer) >= additional THEN c
     ELSE IF needed <= d.capacity THEN With(c, f, Compacted(d))
     ELSE Grown(IF c.buffer_capacity - d.capacity + needed > max_buffer_bytes THEN Shrunk(c, f) ELSE c,
                f, Compacted(d), needed)

-----------------------------------------------------------------------------
(* The framing and Collector::data.                                        *)

(* Framer::ready.                                                          *)
Ready(bytes, length) ==
  IF length > max_buffer_bytes THEN [is |-> "limit", length |-> 0]
  ELSE IF Len(bytes) >= length THEN [is |-> "message", length |-> length]
  ELSE [is |-> "incomplete", length |-> 0]

(* Framer::progress on the bytes since the last message.  What it keeps    *)
(* between calls only saves it looking at a byte twice.                    *)
Progress(protocol, bytes) ==
  CASE bytes[1] = 0 -> Ready(bytes, 1)
    [] Len(bytes) = 1 -> [is |-> "incomplete", length |-> 0]
    [] protocol = "text" /\ bytes[2] = 0 -> [is |-> "skip", length |-> 2]
    [] protocol = "text" -> [is |-> "malformed", length |-> 0]
    [] bytes[2] = 0 -> Ready(bytes, 2)
    [] Len(bytes) = 2 -> [is |-> "incomplete", length |-> 0]
    [] bytes[3] = 0 -> Ready(bytes, max_buffer_bytes + 1)
    [] OTHER -> [is |-> "unsupported", length |-> 0]

(* A plausible slip: the bytes after a message keep the frames before it.  *)
RemainingSourcesKept(d, from) == d.sources

(* The bytes after a message came with the last delivery.                  *)
RemainingSources(d, from) == IF d.offset < Len(d.buffer) THEN {from} ELSE {}

Consumed(c, f, d, length, from) ==
  LET past == [d EXCEPT !.offset = @ + length]
  IN [With(c, f, [past EXCEPT !.sources = RemainingSources(past, from)]) EXCEPT !.buffered = @ - length]

Skipped(c, f, d, length, from) ==
  Consumed(Cut(c, f, d, "skipped", SubSeq(Rest(d), 1, length)), f, d, length, from)

Framed(c, f, d, length, from) ==
  LET wire == SubSeq(Rest(d), 1, length)
      preface == length = 2
      seen == IF preface THEN [c EXCEPT !.connections[Stream[f]].unsupported = TRUE] ELSE c
      emitted == EmitMessage(seen, f, d, IF preface THEN "unsupported" ELSE "complete", wire)
  IN IF length = 0 THEN [c EXCEPT !.error = "zero_length_message"]
     ELSE IF emitted.error # "none" THEN emitted ELSE Consumed(emitted, f, d, length, from)

Frame(c, f, from) ==
  LET d == c.directions[f]
      stuck == c.error # "none" \/ d.disabled \/ d.offset = Len(d.buffer) \/ Opaque(c, f, d)
      step == Progress(c.protocol, Rest(d))
  IN CASE stuck \/ step.is = "incomplete" -> c
       [] step.is = "skip" -> Skipped(c, f, d, step.length, from)
       [] step.is = "message" -> Framed(c, f, d, step.length, from)
       [] step.is = "limit" -> [c EXCEPT !.error = "max_buffer_bytes"]
       [] OTHER -> Disabled(Flushed(c, f, d, step.is), f)

(* A delivery holds at most Modulus bytes, and every turn takes one.       *)
FrameAll(c, f, from) == FoldLeft(LAMBDA x, i : Frame(x, f, from), c, [i \in 1..Modulus |-> i])

Emptied(c, f) ==
  LET d == c.directions[f] IN
  IF c.error = "none" /\ d.offset = Len(d.buffer)
  THEN With(c, f, [d EXCEPT !.buffer = <<>>, !.offset = 0]) ELSE c

Filled(c, f, e) ==
  IF c.error # "none" THEN c
  ELSE IF Cardinality(c.directions[f].sources \cup {e.number}) > max_source_spans
  THEN [c EXCEPT !.error = "max_source_spans"]
  ELSE Emptied(FrameAll([c EXCEPT !.directions[f].buffer = @ \o e.bytes,
                                  !.directions[f].sources = @ \cup {e.number},
                                  !.buffered = @ + Len(e.bytes)], f, e.number), f)

Buffer(c, f, e) ==
  IF c.error # "none" \/ c.directions[f].disabled THEN c
  ELSE IF c.buffered + Len(e.bytes) > max_buffer_bytes THEN [c EXCEPT !.error = "max_buffer_bytes"]
  ELSE Filled(ReserveBuffer(c, f, Len(e.bytes)), f, e)

(* Collector::select and the SYN of observe: the connection's protocol is  *)
(* fixed for its generation.                                               *)
Connect(c, stream, generation) ==
  IF stream \in DOMAIN c.connections /\ c.connections[stream].generation = generation THEN c
  ELSE [c EXCEPT !.connections = [st \in DOMAIN @ \cup {stream} |->
          IF st = stream THEN [generation |-> generation, unsupported |-> FALSE] ELSE @[st]]]

Redirected(c, f, generation) ==
  IF c.error # "none" THEN c ELSE With(c, f, NewDirection(generation))

Direct(c, f, generation) ==
  IF f \notin DOMAIN c.directions THEN Redirected(c, f, generation)
  ELSE IF c.directions[f].generation = generation THEN c
  ELSE Redirected(Flushed(c, f, c.directions[f], "evicted"), f, generation)

Data(c, e) ==
  LET f == e.flow
      stopped == f \in DOMAIN c.stopped /\ c.stopped[f] = e.generation
      resumed == [c EXCEPT !.stopped = [g \in DOMAIN @ \ {f} |-> @[g]]]
  IN IF stopped THEN c
     ELSE Buffer(Direct(Connect(resumed, Stream[f], e.generation), f, e.generation), f, e)

(* Collector::event, and finalize for which an eviction is an end.         *)
Take(c, e, final) ==
  LET status == CASE e.kind = "closed" -> (IF e.reset THEN "reset" ELSE "incomplete")
                  [] e.kind = "evicted" /\ final -> "incomplete"
                  [] OTHER -> e.kind
      first == StopFlow(c, e.flow, e.generation, status)
  IN IF c.error # "none" THEN c
     ELSE IF e.kind = "data" THEN Data(c, e)
     ELSE IF status = "reset" /\ first.error = "none"
          THEN StopFlow(first, Opposite[e.flow], e.generation, status)
     ELSE first

TakeAll(c, output, final) == FoldLeft(LAMBDA x, e : Take(x, e, final), c, output)

(* At the end every direction is flushed, in the order of the flows.       *)
FlushAll(c) ==
  FoldLeft(LAMBDA x, f : IF x.error = "none" /\ f \in DOMAIN x.directions
                         THEN Flushed(x, f, x.directions[f], "incomplete") ELSE x, c, FlowOrder)

-----------------------------------------------------------------------------
Running == sources.error = "none" /\ collector.error = "none"

(* observe takes a frame's events only when the sources found them all.    *)
Collect(src, c, final) ==
  /\ sources' = src
  /\ log' = log \o SelectSeq(src.output, LAMBDA e : e.kind = "data")
  /\ collector' = IF src.error # "none" THEN c ELSE TakeAll(c, src.output, final)

CollectSegment(s, src) ==
  Collect(src, IF s.syn /\ src.error = "none"
               THEN Connect(collector, Stream[s.flow], src.generations[Stream[s.flow]])
               ELSE collector, FALSE)

(* The frame makes TcpSources begin a generation, although the reassembler *)
(* keeps a flow of the stream, and data that waits in it: its SYN came     *)
(* when only the other flow was evicted.                                   *)
Split(s, src) ==
  /\ Stream[s.flow] \in DOMAIN sources.generations
  /\ src.generations[Stream[s.flow]] > sources.generations[Stream[s.flow]]
  /\ \E f \in DOMAIN table.flows :
       /\ Stream[f] = Stream[s.flow]
       /\ DOMAIN table.flows[f].pending # {}
       /\ \A i \in 1..Len(events') : ~(events'[i].kind = "evicted" /\ events'[i].flow = f)

ObserveSegment(s, t) ==
  /\ Running
  /\ Dispatch(s, t)
  /\ "split" \in LeftOut => ~Split(s, Observe(Fresh(sources), s, frames', events'))
  /\ IF state' = "failed" THEN UNCHANGED <<sources, collector, log>>
     ELSE CollectSegment(s, Observe(Fresh(sources), s, frames', events'))

ObserveOther(t) ==
  /\ Running
  /\ Pass(t)
  /\ Collect(Trailing(Fresh(sources), frames', events'), collector, FALSE)

Finalize ==
  /\ Running
  /\ FlushFlows
  /\ LET src == Trailing(Fresh(sources), frames, events')
     IN /\ sources' = src
        /\ log' = log
        /\ collector' = IF src.error # "none" THEN collector
                        ELSE FlushAll(TakeAll(collector, src.output, TRUE))

MessageNext ==
  \/ \E t \in 0..LastTick : ObserveOther(t)
  \/ \E t \in 0..LastTick, s \in Segments : ObserveSegment(s, t)
  \/ Finalize

MessageSpec == MessageInit /\ [][MessageNext]_messageVars

-----------------------------------------------------------------------------
(* Properties.                                                             *)

(* The reassembler's own decision to begin a connection anew is never at   *)
(* odds with the generations of TcpSources: no delivery finds that the     *)
(* spans of its bytes were forgotten.                                      *)
SourcesFound == sources.error # "sources"

(* The sequence numbers a flow has spans for, and those it has data for.   *)
Spanned(f) ==
  IF f \notin DOMAIN sources.spans THEN {}
  ELSE LET fs == sources.spans[f] IN
       UNION {{(fs.anchor_sequence + p - fs.anchor_offset) % Modulus : p \in x.start..(x.start + x.length - 1)} :
                x \in fs.ranges}

Waiting(f) ==
  IF f \notin DOMAIN table.flows THEN {}
  ELSE {(table.flows[f].base + p) % Modulus : p \in DOMAIN table.flows[f].pending}

(* The reassembler and TcpSources agree, event by event: no delivery lacks *)
(* a source, the frame named for each delivered byte is the one it was     *)
(* first seen in, and the spans kept are exactly the bytes the reassembler *)
(* still waits to deliver, counted once.                                   *)
BytesSourced ==
  /\ sources.error # "sources"
  /\ \A i \in 1..Len(log) : \A n \in ToSet(log[i].origin) : n = log[i].number
  /\ Running /\ state # "failed" =>
       /\ sources.span_count = MapThenSumSet(LAMBDA f : Cardinality(sources.spans[f].ranges),
                                             DOMAIN sources.spans)
       /\ \A f \in DOMAIN Opposite : Spanned(f) = Waiting(f)

(* The bytes delivered for one generation of a flow, with their frames.    *)
BytesOf(f, g) ==
  FoldLeft(LAMBDA acc, e : IF e.flow = f /\ e.generation = g
                           THEN acc \o [i \in 1..Len(e.bytes) |-> <<e.bytes[i], e.origin[i]>>] ELSE acc,
           <<>>, log)

CutsOf(f, g) == SelectSeq(collector.cuts, LAMBDA m : m.flow = f /\ m.generation = g)

Held(f, g) ==
  IF f \in DOMAIN collector.directions /\ collector.directions[f].generation = g
  THEN Rest(collector.directions[f]) ELSE <<>>

Ended(f, g) ==
  \/ f \in DOMAIN collector.stopped /\ collector.stopped[f] = g
  \/ f \in DOMAIN collector.directions
       /\ (collector.directions[f].generation # g \/ collector.directions[f].disabled)

(* The messages of a direction, and the keep-alives skipped between them,  *)
(* are its bytes, once and in order, each with the frames its bytes came   *)
(* from; what is buffered follows them; only a keep-alive is ever skipped; *)
(* and the totals are what the directions hold and the messages cost.      *)
MessagesFaithful ==
  Running =>
    /\ collector.buffered = MapThenSumSet(LAMBDA f : Len(Rest(collector.directions[f])),
                                          DOMAIN collector.directions)
    /\ collector.buffer_capacity = MapThenSumSet(LAMBDA f : collector.directions[f].capacity,
                                                 DOMAIN collector.directions)
    /\ collector.buffer_capacity <= max_buffer_bytes
    /\ collector.retained = FoldLeft(LAMBDA n, m : n + decoded_charge(Len(m.wire)), 0,
                                     Messages(collector))
    /\ \A f \in DOMAIN collector.directions : \A g \in 0..sources.generations[Stream[f]] :
         LET bytes == BytesOf(f, g)
             cuts == CutsOf(f, g)
             start(i) == FoldLeft(LAMBDA n, m : n + Len(m.wire), 0, SubSeq(cuts, 1, i - 1))
             total == start(Len(cuts) + 1)
         IN /\ total + Len(Held(f, g)) <= Len(bytes)
            /\ ~Ended(f, g) => total + Len(Held(f, g)) = Len(bytes)
            /\ \A i \in 1..Len(cuts) :
                 /\ cuts[i].status = "skipped" => cuts[i].wire = <<1, 0>>
                 /\ \A j \in 1..Len(cuts[i].wire) : cuts[i].wire[j] = bytes[start(i) + j][1]
                 /\ cuts[i].sources = {bytes[start(i) + j][2] : j \in 1..Len(cuts[i].wire)}
=============================================================================
