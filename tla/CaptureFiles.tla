---------------------------- MODULE CaptureFiles ----------------------------
(***************************************************************************)
(* Capture files (core capture_file/): the streaming reader and writer of  *)
(* PCAP and PCAPNG, and the operations that copy a capture: selecting      *)
(* frames, mapping them, and merging several captures into one.            *)
(*                                                                         *)
(* A file is the sequence of its blocks; the last one is torn when the     *)
(* output failed inside it.  A damaged block is one whose own fields do    *)
(* not parse (a wrong trailing length, malformed options, an unknown       *)
(* version).  Times are nanoseconds, of which a second has Nanos.  An      *)
(* absent value is <<>>, a present one <<v>>.                              *)
(***************************************************************************)
EXTENDS Integers, Sequences, FiniteSets

LOCAL INSTANCE FiniteSetsExt
LOCAL INSTANCE SequencesExt

CONSTANTS Plans, Descriptions, WriterFrames, Nanos, MaxTicks, MaxWrites,
          max_size, max_frames, max_bytes, max_interfaces, max_interfaces_per_section,
          max_total_interfaces, max_metadata_blocks_per_frame,
          max_metadata_bytes_per_frame, max_options_per_block

\* plan: what is asked for.  readers and sources: one per input; a source is a merge's State
\* with its pending frame.  output: the writer.  kept: the frames written, as they were read.
VARIABLES plan, readers, sources, advancing, output, budget, kept, result

vars == <<plan, readers, sources, advancing, output, budget, kept, result>>

align(n) == ((n + 3) \div 4) * 4

\* The value of four bytes written in one order and read in another.
decode_u32(order, raw) == IF raw.order = order THEN raw.value ELSE 4 * raw.value

(* Ticks and times.  Zero ticks per second is a power beyond u128.         *)

timestamp_from_ticks(ticks, tps, offset) ==
  IF tps = 0
  THEN [ok |-> ticks = 0, time |-> offset * Nanos]
  ELSE LET scaled == (ticks % tps) * Nanos
       IN  [ok |-> scaled % tps = 0,
            time |-> ((ticks \div tps) + offset) * Nanos + (scaled \div tps)]

timestamp_to_ticks(time, tps, offset) ==
  LET whole == (time \div Nanos) - offset
      fraction == time % Nanos
      ticks == whole * tps + ((fraction * tps) \div Nanos)
  IN  IF whole = 0 /\ fraction = 0 THEN [ok |-> TRUE, ticks |-> 0]
      ELSE [ok |-> /\ whole >= 0 /\ tps # 0
                   /\ (fraction * tps) % Nanos = 0
                   /\ ticks <= MaxTicks,
            ticks |-> ticks]

Frame(link, captured, original, time, interface, direction, data) ==
  [link |-> link, captured |-> captured, original |-> original, time |-> time,
   interface |-> interface, direction |-> direction, data |-> data]

-----------------------------------------------------------------------------
(* The reader.                                                             *)

Interface(link, snap, tps, offset) ==
  [link |-> link, snap_len |-> snap, tps |-> tps, offset |-> offset]

Torn == [type |-> "torn", size |-> 12, damaged |-> TRUE]

parse_interface_description(block) ==
  Interface(block.link, block.snap, block.tps, block.offset)

validate_pcapng_block_length(block) == block.size >= 12 /\ block.size % 4 = 0

\* The options of a block parse and are not too many.
parse_options(block) == ~block.damaged /\ Len(block.options) <= max_options_per_block

\* read_section_header_with_length: the error, or none.
read_section_header(block) ==
  CASE ~validate_pcapng_block_length(block) \/ block.size < 28 -> "InvalidBlockLength"
    [] block.size > max_size -> "SizeLimitExceeded"
    [] block.damaged -> "InvalidData"
    [] OTHER -> "none"

read_pcap_header(header) == ~header.damaged /\ header.snap > 0 /\ max_total_interfaces >= 1

\* Reader::read_header; a capture that does not start with a header is refused.
read_header(file) ==
  LET header == file[1]
      ok == /\ file # <<>>
            /\ CASE header.type = "section" -> read_section_header(header) = "none"
                 [] header.type = "pcap" -> read_pcap_header(header)
                 [] OTHER -> FALSE
  IN  [ok |-> ok,
       reader |-> IF ~ok THEN <<>>
         ELSE [at |-> 1, format |-> IF header.type = "pcap" THEN "Pcap" ELSE "PcapNg",
               order |-> header.order, interface_base |-> 0, section_index |-> 0,
               remaining |-> IF header.type = "pcap" THEN <<>> ELSE header.length,
               metadata_blocks |-> 0, metadata_bytes |-> 0,
               interfaces |-> IF header.type = "pcap" THEN <<parse_interface_description(header)>> ELSE <<>>,
               declares_fcs |-> header.type = "pcap" /\ header.fcs,
               finished |-> FALSE]]

Failed(r, error) ==
  [reader |-> [r EXCEPT !.finished = TRUE], error |-> error, record |-> <<>>]

Record(r, kind, frame, block) ==
  [reader |-> r, error |-> "none",
   record |-> <<[kind |-> kind, frame |-> frame, section |-> r.section_index,
                 block |-> block]>>]

Ended(r) == [reader |-> [r EXCEPT !.finished = TRUE], error |-> "none", record |-> <<>>]

section_interfaces(r) == SubSeq(r.interfaces, r.interface_base + 1, Len(r.interfaces))

\* PcapNgState::account_metadata.
accounted(r, size) ==
  [r EXCEPT !.metadata_blocks = @ + 1, !.metadata_bytes = @ + size]

over_metadata(r) ==
  \/ r.metadata_blocks > max_metadata_blocks_per_frame
  \/ r.metadata_bytes > max_metadata_bytes_per_frame

packet_direction(flags, order) ==
  IF flags = <<>> THEN "none"
  ELSE CASE decode_u32(order, flags[1]) % 4 = 1 -> "inbound"
         [] decode_u32(order, flags[1]) % 4 = 2 -> "outbound"
         [] OTHER -> "unknown"

start_section(r, block) ==
  [r EXCEPT !.interface_base = Len(r.interfaces), !.section_index = @ + 1,
            !.order = block.order, !.remaining = block.length]

read_section_record(r, block) ==
  LET counted == accounted(r, block.size)
  IN  CASE r.remaining \notin {<<>>, <<0>>} -> Failed(r, "SectionHeaderBeforeBoundary")
        [] read_section_header(block) # "none" -> Failed(r, read_section_header(block))
        [] over_metadata(counted) -> Failed(r, "MetadataLimit")
        [] OTHER -> Record(start_section(counted, block), "section", <<>>, block)

decode_interface(r, block) ==
  CASE ~parse_options(block) -> Failed(r, "InvalidOptions")
    [] Len(section_interfaces(r)) >= max_interfaces_per_section -> Failed(r, "InterfaceLimit")
    [] Len(r.interfaces) >= max_total_interfaces -> Failed(r, "TotalInterfaceLimit")
    [] OTHER ->
         Record([r EXCEPT !.interfaces = Append(@, parse_interface_description(block)),
                          !.declares_fcs = @ \/ \E i \in DOMAIN block.options :
                                                   block.options[i].code = "if_fcslen"],
                "interface", <<>>, block)

\* parse_enhanced_packet, parse_obsolete_packet: they name an interface of their section.
parse_packet(r, block) ==
  LET mine == section_interfaces(r)
      interface == mine[block.id + 1]
      at == timestamp_from_ticks(block.ticks, interface.tps, interface.offset)
  IN  CASE block.original < block.captured -> Failed(r, "OriginalLengthTooSmall")
        [] block.id >= Len(mine) -> Failed(r, "UndefinedInterface")
        [] interface.snap_len # 0 /\ block.captured > interface.snap_len ->
             Failed(r, "InvalidData")
        [] ~at.ok -> Failed(r, "MetadataNotRepresentable")
        [] OTHER ->
             Record([r EXCEPT !.metadata_blocks = 0, !.metadata_bytes = 0], "packet",
                    <<Frame(interface.link, block.captured, block.original, <<at.time>>,
                            <<r.interface_base + block.id>>,
                            packet_direction(block.flags, r.order), block.data)>>, block)

\* A simple packet belongs to the first interface of its section and has no time.
parse_simple_packet(r, block) ==
  LET mine == section_interfaces(r)
      snap == mine[1].snap_len
      captured == IF snap = 0 THEN block.original ELSE Min({block.original, snap})
  IN  CASE mine = <<>> -> Failed(r, "UndefinedInterface")
        [] block.size # 16 + align(captured) -> Failed(r, "InvalidData")
        [] OTHER ->
             Record([r EXCEPT !.metadata_blocks = 0, !.metadata_bytes = 0], "packet",
                    <<Frame(mine[1].link, captured, block.original, <<>>,
                            <<r.interface_base>>, "none", block.data)>>, block)

decode_metadata(r, block) ==
  IF block.type = "statistics" /\ block.id >= Len(section_interfaces(r))
  THEN Failed(r, "UndefinedInterface")
  ELSE Record(r, block.type, <<>>, block)

is_packet(block) == block.type \in {"enhanced", "obsolete", "simple"}

commit_block(r, block) ==
  IF r.remaining = <<>> THEN r ELSE [r EXCEPT !.remaining = <<@[1] - block.size>>]

decode(r, block) ==
  CASE block.type = "interface" -> decode_interface(r, block)
    [] block.type \in {"enhanced", "obsolete"} -> parse_packet(r, block)
    [] block.type = "simple" -> parse_simple_packet(r, block)
    [] OTHER -> decode_metadata(r, block)

\* framing::read.
read_block(r, block) ==
  LET counted == IF is_packet(block) THEN r ELSE accounted(r, block.size)
      framed == commit_block(counted, block)
  IN  CASE ~validate_pcapng_block_length(block) -> Failed(r, "InvalidBlockLength")
        [] block.size > max_size -> Failed(r, "SizeLimitExceeded")
        [] r.remaining # <<>> /\ block.size > r.remaining[1] ->
             Failed(r, "BlockCrossesSectionBoundary")
        [] over_metadata(counted) -> Failed(r, "MetadataLimit")
        [] block.damaged -> Failed(r, "InvalidData")
        [] OTHER -> decode(framed, block)

read_next_pcapng_record(r, file) ==
  LET next == [r EXCEPT !.at = @ + 1]
  IN  CASE r.remaining # <<>> /\ r.remaining[1] \in 1..11 ->
             Failed(r, "SectionRemainderTooSmall")
        [] r.at = Len(file) /\ r.remaining \notin {<<>>, <<0>>} ->
             Failed(r, "SectionEndedEarly")
        [] r.at = Len(file) /\ r.remaining \in {<<>>, <<0>>} -> Ended(r)
        [] OTHER -> IF file[next.at].type = "section"
                    THEN read_section_record(next, file[next.at])
                    ELSE read_block(next, file[next.at])

read_next_pcap_record(r, file) ==
  LET block == file[r.at + 1]
      interface == r.interfaces[1]
  IN  CASE r.at = Len(file) -> Ended(r)
        [] block.damaged -> Failed(r, "Truncated")
        [] block.fraction >= interface.tps -> Failed(r, "InvalidTimestampFraction")
        [] block.original < block.captured -> Failed(r, "OriginalLengthTooSmall")
        [] block.captured > Min({max_size, interface.snap_len}) ->
             Failed(r, "SizeLimitExceeded")
        [] OTHER ->
             Record([r EXCEPT !.at = @ + 1], "packet",
                    <<Frame(interface.link, block.captured, block.original,
                            <<block.seconds * Nanos
                              + block.fraction * (Nanos \div interface.tps)>>,
                            <<>>, "none", block.data)>>, block)

next_record(r, file) ==
  IF r.finished THEN Ended(r)
  ELSE IF r.format = "Pcap" THEN read_next_pcap_record(r, file)
  ELSE read_next_pcapng_record(r, file)

-----------------------------------------------------------------------------
(* The writer.  An operation has a set of outcomes: any output may fail,   *)
(* with or without a part of its block written, and after that every       *)
(* later operation fails.                                                  *)

Outcome(out, error) == {[out |-> out, error |-> error]}

write_output(out, block) ==
  IF out.failed THEN Outcome(out, "Io")
  ELSE Outcome([out EXCEPT !.file = Append(@, block)], "none")
         \cup (IF ~out.faulty THEN {}
               ELSE UNION {Outcome([out EXCEPT !.failed = TRUE, !.file = @ \o part], "Io")
                           : part \in {<<>>, <<Torn>>}})

interface_description_base_length(offset) == IF offset = 0 THEN 32 ELSE 44

write_interface_description(d, options, size) ==
  [type |-> "interface", link |-> d.link, snap |-> d.snap_len, tps |-> d.tps,
   offset |-> d.offset, options |-> options, size |-> size, damaged |-> FALSE]

\* validate_new_interface: the error, or none.
new_interface_error(out, d) ==
  CASE max_size < interface_description_base_length(d.offset) -> "SizeLimitExceeded"
    [] Len(out.interfaces) + 1 > max_interfaces -> "InterfaceLimit"
    [] OTHER -> "none"

write_interface(out, d, options, size) ==
  {IF o.error # "none" THEN o
   ELSE [o EXCEPT !.out.interfaces = Append(@, d)] :
   o \in write_output(out, write_interface_description(d, options, size))}

Generated == {"end", "if_tsresol", "if_tsoffset"}

OptionSize(option) == 4 + align(option.size)

add_interface_description_with_options(out, d, options) ==
  LET length == FoldLeft(LAMBDA n, o : n + OptionSize(o),
                         interface_description_base_length(d.offset), options)
  IN  CASE out.failed -> Outcome(out, "Io")
        [] \E i \in DOMAIN options : options[i].code \in Generated ->
             Outcome(out, "InvalidData")
        [] options # <<>> /\ length > max_size -> Outcome(out, "SizeLimitExceeded")
        [] out.format = "Pcap" -> Outcome(out, "WrongWriterFormat")
        [] OTHER ->
             IF new_interface_error(out, d) # "none"
             THEN Outcome(out, new_interface_error(out, d))
             ELSE write_interface(out, d, options, length)

\* select_interface: the index and description the frame is written under.
select_interface(out, frame) ==
  LET matches == {i \in DOMAIN out.interfaces : out.interfaces[i].link = frame.link}
      fresh == Interface(frame.link, max_size, Nanos, 0)
      Plan(error, id, d, new) == [error |-> error, id |-> id, description |-> d, new |-> new]
  IN  CASE frame.interface # <<>> ->
             IF frame.interface[1] >= Len(out.interfaces)
             THEN Plan("UndefinedInterface", 0, fresh, FALSE)
             ELSE IF out.interfaces[frame.interface[1] + 1].link # frame.link
             THEN Plan("InterfaceLinkTypeMismatch", 0, fresh, FALSE)
             ELSE Plan("none", frame.interface[1],
                       out.interfaces[frame.interface[1] + 1], FALSE)
        [] frame.interface = <<>> /\ matches = {} ->
             Plan(new_interface_error(out, fresh), Len(out.interfaces), fresh, TRUE)
        [] frame.interface = <<>> /\ Cardinality(matches) > 1 ->
             Plan("AmbiguousInterface", 0, fresh, FALSE)
        [] OTHER -> Plan("none", Min(matches) - 1, out.interfaces[Min(matches)], FALSE)

\* Budget::after.
budget_after(b, n) ==
  [ok |-> b.frames + 1 <= max_frames /\ b.bytes + n <= max_bytes,
   budget |-> [frames |-> b.frames + 1, bytes |-> b.bytes + n]]

FlagsOf(direction, order) ==
  IF direction = "none" THEN <<>>
  ELSE <<[value |-> CASE direction = "inbound" -> 1
                      [] direction = "outbound" -> 2
                      [] OTHER -> 0,
          order |-> order]>>

write_enhanced_packet(id, ticks, length, frame, order) ==
  [type |-> "enhanced", id |-> id, ticks |-> ticks, captured |-> frame.captured,
   original |-> frame.original, data |-> frame.data,
   flags |-> FlagsOf(frame.direction, order), size |-> length, damaged |-> FALSE]

write_pcap_frame(seconds, fraction, frame) ==
  [type |-> "record", seconds |-> seconds, fraction |-> fraction, captured |-> frame.captured,
   original |-> frame.original, data |-> frame.data, size |-> 16 + frame.captured,
   damaged |-> FALSE]

Prepared(error, id, d, new, block) ==
  [error |-> error, id |-> id, description |-> d, new |-> new, block |-> block]

validate_pcap_frame(out, frame) ==
  LET seconds == frame.time[1] \div Nanos
      nanos == frame.time[1] % Nanos
      unit == Nanos \div out.tps
      bad(error) == Prepared(error, 0, <<>>, FALSE, <<>>)
  IN  CASE frame.interface # <<>> \/ frame.direction # "none" ->
             bad("MetadataNotRepresentable")
        [] frame.link # out.link -> bad("InterfaceLinkTypeMismatch")
        [] frame.captured > out.snap -> bad("SizeLimitExceeded")
        [] frame.time = <<>> -> bad("TimestampUnavailable")
        [] frame.time[1] < 0 \/ seconds > MaxTicks -> bad("TimestampOutOfRange")
        [] nanos % unit # 0 -> bad("MetadataNotRepresentable")
        [] OTHER ->
             Prepared("none", 0, <<>>, FALSE,
                      write_pcap_frame(seconds, nanos \div unit, frame))

prepare_pcapng_frame(out, frame) ==
  LET p == select_interface(out, frame)
      d == p.description
      ticks == timestamp_to_ticks(frame.time[1], d.tps, d.offset)
      length == 32 + align(frame.captured) + (IF frame.direction = "none" THEN 0 ELSE 12)
      bad(error) == Prepared(error, 0, <<>>, FALSE, <<>>)
  IN  CASE p.error # "none" -> bad(p.error)
        [] d.snap_len # 0 /\ frame.captured > d.snap_len -> bad("SizeLimitExceeded")
        [] frame.time = <<>> -> bad("TimestampUnavailable")
        [] ~ticks.ok -> bad("TimestampOutOfRange")
        [] length > max_size -> bad("SizeLimitExceeded")
        [] OTHER ->
             Prepared("none", p.id, d, p.new,
                      write_enhanced_packet(p.id, ticks.ticks, length, frame, out.order))

prepare_frame(out, frame) ==
  LET bad(error) == Prepared(error, 0, <<>>, FALSE, <<>>)
  IN  CASE out.failed -> bad("Io")
        [] frame.captured > max_size -> bad("SizeLimitExceeded")
        [] ~budget_after(out.budget, frame.captured).ok -> bad("StreamLimitExceeded")
        [] OTHER -> IF out.format = "Pcap" THEN validate_pcap_frame(out, frame)
                    ELSE prepare_pcapng_frame(out, frame)

\* Writer::encoded_frame_size.
encoded_frame_size(p) ==
  p.block.size + (IF p.new THEN interface_description_base_length(p.description.offset) ELSE 0)

\* A new interface stays committed even if its packet then fails; the budget is charged last.
write_frame(out, frame) ==
  LET p == prepare_frame(out, frame)
      described == IF p.new
                   THEN write_interface(out, p.description, <<>>,
                          interface_description_base_length(p.description.offset))
                   ELSE Outcome(out, "none")
      packet(o) == {IF w.error # "none" THEN w
                    ELSE [w EXCEPT !.out.budget = budget_after(@, frame.captured).budget] :
                    w \in write_output(o.out, p.block)}
  IN  IF p.error # "none" THEN Outcome(out, p.error)
      ELSE UNION {IF o.error = "none" THEN packet(o) ELSE {o} : o \in described}

write_section_header(order) ==
  [type |-> "section", order |-> order, length |-> <<>>, size |-> 28, damaged |-> FALSE]

write_pcap_header(order, link, snap, tps) ==
  [type |-> "pcap", order |-> order, link |-> link, snap |-> snap, tps |-> tps, offset |-> 0,
   fcs |-> FALSE, size |-> 24, damaged |-> FALSE]

Writer(order, faulty) ==
  [format |-> "PcapNg", order |-> order, interfaces |-> <<>>, link |-> 0, snap |-> 0, tps |-> 1,
   budget |-> [frames |-> 0, bytes |-> 0], failed |-> FALSE, faulty |-> faulty,
   file |-> <<write_section_header(order)>>]

PcapWriter(order, faulty, link, snap, tps) ==
  [Writer(order, faulty) EXCEPT
     !.format = "Pcap", !.link = link, !.snap = snap, !.tps = tps,
     !.file = <<write_pcap_header(order, link, snap, tps)>>]

-----------------------------------------------------------------------------
(* The operations.                                                         *)

Kept(source, number, global, size, frame, description) ==
  [source |-> source, number |-> number, global |-> global, size |-> size, frame |-> frame,
   description |-> description]

OutputOf(p) ==
  CASE p.op = "write" /\ p.pcap -> PcapWriter(p.order, p.faulty, 1, 8, Nanos \div 10)
    [] p.op \in {"select", "rewrite"} -> [Writer(p.order, p.faulty) EXCEPT !.file = <<>>]
    [] OTHER -> Writer(p.order, p.faulty)

Headers(p) == [i \in DOMAIN p.files |-> read_header(p.files[i])]

MergeInterfaces(ss) == MapThenSumSet(LAMBDA i : ss[i].interfaces, DOMAIN ss)

\* What an operation refuses before it reads a record.
Refused(p, rs) ==
  CASE \E i \in DOMAIN rs : ~rs[i].ok -> "InvalidHeader"
    [] p.op = "merge" /\ p.sequence = "Append" /\ p.reorder > 0 -> "MergeOption"
    [] p.op \in {"merge", "map"} /\ \E i \in DOMAIN rs : rs[i].reader.declares_fcs ->
         "DeclaredFcs"
    [] p.op = "merge" /\ FoldLeft(LAMBDA n, r : n + Len(r.reader.interfaces), 0, rs)
                           > p.max_interfaces -> "TotalInterfaceLimit"
    [] OTHER -> "running"

Init ==
  /\ plan \in Plans
  /\ \E rs \in {Headers(plan)} :
       /\ readers = [i \in DOMAIN rs |-> rs[i].reader]
       /\ result = Refused(plan, rs)
       /\ sources = [i \in DOMAIN rs |->
            [previous |-> <<>>, window |-> {}, exhausted |-> FALSE, begun |-> FALSE,
             interfaces |-> IF rs[i].ok THEN Len(rs[i].reader.interfaces) ELSE 0,
             order |-> IF rs[i].ok THEN rs[i].reader.order ELSE plan.order,
             frames |-> 0, head |-> <<>>]]
  /\ advancing = IF plan.op = "merge" THEN 1 ELSE 0
  /\ output = OutputOf(plan)
  /\ budget = [frames |-> 0, bytes |-> 0]
  /\ kept = <<>>

Running(op) == result = "running" /\ plan.op = op

(* Writing; a kept frame has the bytes it took (Counted) and its preview.  *)

TotalSize(blocks) == FoldLeft(LAMBDA n, b : n + b.size, 0, blocks)

AddInterface ==
  /\ Running("write")
  /\ Len(kept) + Len(output.interfaces) < MaxWrites
  /\ \E d \in Descriptions :
       \E o \in add_interface_description_with_options(output, d.interface, d.options) :
         output' = o.out
  /\ UNCHANGED <<plan, readers, sources, advancing, budget, kept, result>>

WriteFrame ==
  /\ Running("write")
  /\ Len(kept) + Len(output.interfaces) < MaxWrites
  /\ \E f \in WriterFrames : \E p \in {prepare_frame(output, f)} :
       \E o \in write_frame(output, f) :
         /\ output' = o.out
         /\ kept' = IF o.error # "none" THEN kept
                    ELSE Append(kept, Kept(0, TotalSize(o.out.file) - TotalSize(output.file),
                           0, encoded_frame_size(p), [f EXCEPT !.interface = IF output.format = "Pcap" THEN <<>>
                                                   ELSE <<p.id>>],
                           <<>>))
  /\ UNCHANGED <<plan, readers, sources, advancing, budget, result>>

\* The writer is dropped, or flushed and turned into its output.
Close ==
  /\ Running("write")
  /\ result' = "ok"
  /\ UNCHANGED <<plan, readers, sources, advancing, output, budget, kept>>

(* Selecting and rewriting (copy_records).                                 *)

CopiedWhole(block) == block

\* write_selected_section: a selected section has no declared length.
Copied(block) ==
  IF plan.op = "select" /\ block.type = "section" THEN [block EXCEPT !.length = <<>>] ELSE block

CopyHeader ==
  /\ result = "running" /\ plan.op \in {"select", "rewrite"} /\ output.file = <<>>
  /\ \E o \in write_output(output, Copied(plan.files[1][1])) :
       /\ output' = o.out
       /\ result' = IF o.error = "none" THEN "running" ELSE o.error
  /\ UNCHANGED <<plan, readers, sources, advancing, budget, kept>>

CopyRecord ==
  /\ result = "running" /\ plan.op \in {"select", "rewrite"} /\ output.file # <<>>
  /\ \E n \in {next_record(readers[1], plan.files[1])} :
     \E charged \in {IF n.record # <<>> /\ n.record[1].frame # <<>>
                     THEN budget_after(budget, n.record[1].frame[1].captured)
                     ELSE [ok |-> TRUE, budget |-> budget]} :
       /\ readers' = <<n.reader>>
       /\ budget' = IF charged.ok THEN charged.budget ELSE budget
       /\ IF n.error # "none" \/ n.record = <<>> \/ ~charged.ok
          THEN /\ result' = IF n.error # "none" THEN n.error
                            ELSE IF n.record = <<>> THEN "ok" ELSE "StreamLimitExceeded"
               /\ UNCHANGED <<output, kept>>
          ELSE \E chosen \in IF n.record[1].frame # <<>> /\ plan.op = "select"
                             THEN {"yes", "no", "error"} ELSE {"yes"} :
                 CASE chosen = "no" -> UNCHANGED <<output, kept, result>>
                   [] chosen = "error" -> result' = "Predicate" /\ UNCHANGED <<output, kept>>
                   [] chosen = "yes" ->
                        \E o \in write_output(output, Copied(n.record[1].block)) :
                          /\ output' = o.out
                          /\ result' = IF o.error = "none" THEN "running" ELSE o.error
                          /\ kept' = IF o.error # "none" \/ n.record[1].frame = <<>> THEN kept
                                     ELSE Append(kept, Kept(1, budget'.frames, 0, 0,
                                                            n.record[1].frame[1], <<>>))
  /\ UNCHANGED <<plan, sources, advancing>>

(* Mapping (map_frames).                                                   *)

\* validate_rewritable_packet_flags.
rewritable(block, order) ==
  block.type \in {"enhanced", "obsolete"} /\ block.flags # <<>>
    => decode_u32(order, block.flags[1]) \in 0..2

SpeedOptions == {"if_speed", "if_txspeed", "if_rxspeed"}

\* rewrite_interface_option: a speed is written in the order of the output.
rewrite_interface_option(option, source, target) ==
  IF source = target \/ option.code \notin SpeedOptions THEN option
  ELSE [option EXCEPT !.order = IF @ = source THEN target ELSE source]

add_interface(out, d, options, growth, source) ==
  LET grown == IF d.snap_len = 0 THEN d ELSE [d EXCEPT !.snap_len = @ + growth]
      retained == SelectSeq(options, LAMBDA o : o.code \notin Generated)
  IN  add_interface_description_with_options(out, grown,
        [i \in DOMAIN retained |-> rewrite_interface_option(retained[i], source, out.order)])

\* Only a classic header brings an interface before the first record.
MapHeader ==
  /\ Running("map") /\ ~sources[1].begun
  /\ sources' = [sources EXCEPT ![1].begun = TRUE]
  /\ IF readers[1].format = "Pcap"
     THEN \E o \in add_interface(output, readers[1].interfaces[1], <<>>, plan.growth,
                                 sources[1].order) :
            /\ output' = o.out
            /\ result' = IF o.error = "none" THEN "running" ELSE o.error
     ELSE UNCHANGED <<output, result>>
  /\ UNCHANGED <<plan, readers, advancing, budget, kept>>

\* What the mapper may return: the frame with as many or more bytes, another frame, an error.
Mappings(frame) ==
  {[frame EXCEPT !.captured = @ + g, !.original = @ + g] : g \in 0..(plan.growth + 1)}
    \cup {[frame EXCEPT !.link = @ + 1]}

MapPacket(record, charged) ==
  LET frame == record.frame[1]
  IN  CASE ~rewritable(record.block, sources[1].order) ->
             result' = "TransformMetadata" /\ UNCHANGED <<output, kept>>
        [] rewritable(record.block, sources[1].order) /\ ~charged.ok ->
             result' = "StreamLimitExceeded" /\ UNCHANGED <<output, kept>>
        [] OTHER ->
             \/ result' = "Transform" /\ UNCHANGED <<output, kept>>
             \/ \E changed \in Mappings(frame) :
                  IF changed.link # frame.link \/ changed.captured > frame.captured + plan.growth
                  THEN result' = "TransformIdentity" /\ UNCHANGED <<output, kept>>
                  ELSE \E placed \in {[changed EXCEPT !.interface =
                                         IF @ = <<>> THEN <<0>> ELSE @]} :
                       \E o \in write_frame(output, placed) :
                         /\ output' = o.out
                         /\ result' = IF o.error = "none" THEN "running" ELSE o.error
                         /\ kept' = IF o.error # "none" THEN kept
                                    ELSE Append(kept, Kept(1, budget'.frames, 0, 0, placed, <<>>))

MapMetadata(record) ==
  IF record.kind = "interface"
  THEN IF readers'[1].declares_fcs
       THEN result' = "DeclaredFcs" /\ UNCHANGED output
       ELSE \E o \in add_interface(output, parse_interface_description(record.block), record.block.options,
                                   plan.growth, sources[1].order) :
              /\ output' = o.out
              /\ result' = IF o.error = "none" THEN "running" ELSE o.error
  ELSE UNCHANGED <<output, result>>

MapRecord ==
  /\ Running("map") /\ sources[1].begun
  /\ \E n \in {next_record(readers[1], plan.files[1])} :
       /\ readers' = <<n.reader>>
       /\ IF n.error # "none" \/ n.record = <<>>
          THEN /\ result' = IF n.error # "none" THEN n.error ELSE "ok"
               /\ UNCHANGED <<sources, output, budget, kept>>
          ELSE IF n.record[1].kind = "packet"
          THEN \E charged \in {budget_after(budget, n.record[1].frame[1].captured)} :
                 /\ budget' = IF charged.ok THEN charged.budget ELSE budget
                 /\ MapPacket(n.record[1], charged)
                 /\ UNCHANGED sources
          ELSE /\ MapMetadata(n.record[1])
               /\ sources' = [sources EXCEPT ![1].order =
                    IF n.record[1].kind = "section" THEN n.record[1].block.order ELSE @]
               /\ UNCHANGED <<budget, kept>>
  /\ UNCHANGED <<plan, advancing>>

(* Merging.                                                                *)

Source == sources[advancing]
Window == IF plan.reorder = 0 THEN 1 ELSE plan.reorder
Filling == ~Source.exhausted /\ Cardinality(Source.window) < Window

Earlier(a, b) ==
  a.frame.time[1] < b.frame.time[1]
    \/ (a.frame.time[1] = b.frame.time[1] /\ a.number < b.number)

MergeFrame(record, s) ==
  LET frame == record.frame[1]
      charged == budget_after(budget, frame.captured)
      global == IF frame.interface = <<>> THEN 0 ELSE frame.interface[1]
      refused == CASE ~rewritable(record.block, s.order) -> "MergeMetadata"
                   [] rewritable(record.block, s.order) /\ frame.time = <<>> ->
                        "TimestampUnavailable"
                   [] rewritable(record.block, s.order) /\ frame.time # <<>> /\ ~charged.ok ->
                        "StreamLimitExceeded"
                   [] OTHER -> "running"
  IN  /\ result' = refused
      /\ IF refused # "running" THEN UNCHANGED <<sources, budget>>
         ELSE /\ budget' = charged.budget
              /\ sources' = [sources EXCEPT ![advancing] =
                   [s EXCEPT !.frames = @ + 1,
                             !.window = @ \cup {Kept(advancing, s.frames + 1, global, 0,
                                [frame EXCEPT !.interface = <<global>>],
                                <<readers'[advancing].interfaces[global + 1]>>)}]]

\* One record of read_frame, for the source that advances.
ReadRecord ==
  /\ Running("merge") /\ advancing > 0 /\ Filling
  /\ \E n \in {next_record(readers[advancing], plan.files[advancing])} :
     \E s \in {[Source EXCEPT !.interfaces = Len(n.reader.interfaces)]} :
       /\ readers' = [readers EXCEPT ![advancing] = n.reader]
       /\ CASE n.error # "none" -> result' = n.error /\ UNCHANGED <<sources, budget>>
            [] n.error = "none" /\ n.record = <<>> ->
                 /\ sources' = [sources EXCEPT ![advancing].exhausted = TRUE]
                 /\ UNCHANGED <<budget, result>>
            [] OTHER ->
                 IF MergeInterfaces([sources EXCEPT ![advancing] = s]) > plan.max_interfaces
                 THEN result' = "TotalInterfaceLimit" /\ UNCHANGED <<sources, budget>>
                 ELSE IF n.record[1].kind = "packet" THEN MergeFrame(n.record[1], s)
                 ELSE IF n.record[1].kind = "interface" /\ n.reader.declares_fcs
                 THEN result' = "DeclaredFcs" /\ UNCHANGED <<sources, budget>>
                 ELSE /\ sources' = [sources EXCEPT ![advancing] =
                           [s EXCEPT !.order = IF n.record[1].kind = "section"
                                               THEN n.record[1].block.order ELSE @]]
                      /\ UNCHANGED <<budget, result>>
  /\ UNCHANGED <<plan, advancing, output, kept>>

\* The end of advance: the earliest frame of the window becomes the source's head.
PopWindow ==
  /\ Running("merge") /\ advancing > 0 /\ ~Filling
  /\ \E heads \in {{p \in Source.window : \A q \in Source.window : ~Earlier(q, p)}} :
       IF heads = {}
       THEN /\ sources' = [sources EXCEPT ![advancing].begun = TRUE]
            /\ UNCHANGED result
       ELSE \E p \in heads :
              IF /\ plan.sequence = "Chronological"
                 /\ Source.previous # <<>> /\ p.frame.time[1] < Source.previous[1]
              THEN result' = "MergeClockRegression" /\ UNCHANGED sources
              ELSE /\ sources' = [sources EXCEPT ![advancing] =
                        [@ EXCEPT !.previous = p.frame.time, !.head = <<p>>,
                                  !.window = @ \ {p}, !.begun = TRUE]]
                   /\ UNCHANGED result
  /\ advancing' = LET waiting == {i \in DOMAIN sources : ~sources[i].begun} \ {advancing}
                  IN  IF waiting = {} THEN 0 ELSE Min(waiting)
  /\ UNCHANGED <<plan, readers, output, budget, kept>>

take_next ==
  LET ready == {i \in DOMAIN sources : sources[i].head # <<>>}
      At(i) == sources[i].head[1].frame.time[1]
      first == IF plan.sequence = "Append" THEN ready
               ELSE {i \in ready : \A j \in ready : At(i) <= At(j)}
  IN  IF ready = {} THEN 0 ELSE Min(first)

\* mappings: the interface of each source that has already been described in the output.
Described(source, global) ==
  {i \in DOMAIN kept : kept[i].source = source /\ kept[i].global = global}

MergeNext ==
  /\ Running("merge") /\ advancing = 0
  /\ \E i \in {take_next} :
       IF i = 0
       THEN result' = "ok" /\ UNCHANGED <<sources, advancing, output, kept>>
       ELSE \E p \in {sources[i].head[1]} :
            \E known \in {Described(i, p.global)} :
            \E added \in IF known # {} THEN Outcome(output, "none")
                         ELSE add_interface_description_with_options(output, p.description[1],
                                <<[code |-> "comment", size |-> 8, order |-> plan.order]>>) :
              IF added.error # "none"
              THEN /\ output' = added.out /\ result' = added.error
                   /\ UNCHANGED <<sources, advancing, kept>>
              ELSE \E id \in {IF known = {} THEN Len(output.interfaces)
                              ELSE kept[Min(known)].frame.interface[1]} :
                   \E w \in write_frame(added.out, [p.frame EXCEPT !.interface = <<id>>]) :
                     /\ output' = w.out
                     /\ result' = IF w.error = "none" THEN "running" ELSE w.error
                     /\ kept' = IF w.error # "none" THEN kept
                                ELSE Append(kept, [p EXCEPT
                                       !.frame.interface = <<id>>])
                     /\ sources' = [sources EXCEPT ![i].head = <<>>]
                     /\ advancing' = i
  /\ UNCHANGED <<plan, readers, budget>>

\* The operation has returned.
Returned == result # "running" /\ UNCHANGED vars

Next ==
  \/ AddInterface \/ WriteFrame \/ Close
  \/ CopyHeader \/ CopyRecord
  \/ MapHeader \/ MapRecord
  \/ ReadRecord \/ PopWindow \/ MergeNext
  \/ Returned

Spec == Init /\ [][Next]_vars

-----------------------------------------------------------------------------
(* What a reader finds in a file.                                          *)

ReadAll(file) ==
  LET header == read_header(file)
      Step[i \in 0..Len(file)] ==
        IF i = 0 THEN [reader |-> header.reader, error |-> "none", frames |-> <<>>]
        ELSE LET p == Step[i - 1]
                 n == next_record(p.reader, file)
             IN  IF p.reader.finished THEN p
                 ELSE [reader |-> n.reader, error |-> n.error,
                       frames |-> IF n.record = <<>> THEN p.frames
                                  ELSE p.frames \o n.record[1].frame]
  IN  Step[Len(file)]

\* What the writer accepted is what a reader with the same limits finds (Writer, Reader): the
\* frames of the calls that succeeded, in order, each under its interface and with its time,
\* and an error after them exactly when the output stopped inside a block.  The budget counts
\* those frames and no others, whatever failed in between, and each took the bytes that
\* encoded_frame_size previewed.
WrittenReads ==
  plan.op \in {"write", "map", "merge"} =>
    \E read \in {ReadAll(output.file)} :
      /\ read.frames = [i \in DOMAIN kept |-> kept[i].frame]
      /\ output.format = "PcapNg" => read.reader.interfaces = output.interfaces
      /\ read.error = "none" <=> Last(output.file) # Torn
      /\ output.budget.frames = Len(kept)
      /\ plan.op = "write" => \A i \in DOMAIN kept : kept[i].size = kept[i].number

\* A selection reads back as the chosen frames under the interfaces of the input, although the
\* sections lost some of their blocks (copy_records, write_selected_section); metadata blocks
\* that the input spread between frames may then exceed the reader's metadata limit.
SelectionReads ==
  plan.op \in {"select", "rewrite"} /\ result = "ok" =>
    \E read \in {ReadAll(output.file)} : \E frames \in {[i \in DOMAIN kept |-> kept[i].frame]} :
      \/ read.error = "none" /\ read.frames = frames
           /\ read.reader.interfaces = readers[1].interfaces
      \/ read.error = "MetadataLimit" /\ IsPrefix(read.frames, frames) /\ plan.op = "select"

\* A merge writes each source's frames once, by time and at one time by source and position, or
\* source by source; every frame keeps the description of the interface it came from, and two
\* interfaces of the inputs never share one of the output (merge, advance, take_next).
MergedInOrder ==
  plan.op = "merge" =>
    /\ \A i, j \in DOMAIN kept : i < j =>
         LET a == kept[i]
             b == kept[j]
         IN  /\ a.source = b.source => Earlier(a, b) \/ plan.sequence = "Append"
             /\ plan.sequence = "Append" =>
                  a.source < b.source \/ (a.source = b.source /\ a.number < b.number)
             /\ plan.sequence = "Chronological" =>
                  \/ a.frame.time[1] < b.frame.time[1]
                  \/ a.frame.time[1] = b.frame.time[1] /\ a.source <= b.source
             /\ a.frame.interface = b.frame.interface
                  <=> a.source = b.source /\ a.global = b.global
    /\ \A i \in DOMAIN kept :
         output.interfaces[kept[i].frame.interface[1] + 1] = kept[i].description[1]
    /\ result = "ok" => \A s \in DOMAIN sources :
         \E frames \in {ReadAll(plan.files[s]).frames} :
           /\ Cardinality({i \in DOMAIN kept : kept[i].source = s}) = Len(frames)
           /\ \A i \in DOMAIN kept : kept[i].source = s =>
                [kept[i].frame EXCEPT !.interface = <<>>]
                  = [frames[kept[i].number] EXCEPT !.interface = <<>>]

CapturesFaithful == WrittenReads /\ SelectionReads /\ MergedInOrder

=============================================================================
