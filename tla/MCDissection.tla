---------------------------- MODULE MCDissection ----------------------------
(***************************************************************************)
(* Small instances of what puts packets together again.  Each behaviour    *)
(* runs one of them, the subject: the TCP streams with their messages and  *)
(* sources, which have variables of their own, or the IP datagrams, with   *)
(* their variables in the slots x1, x2, ... in the order of declaration.   *)
(***************************************************************************)
EXTENDS MessageCollector

(* A connection whose client sends a few bytes, in and out of order, and reuses its ports. *)

Directions == [a |-> "b", b |-> "a"]

Order == <<"a", "b">>

OneStream == [a |-> 0, b |-> 0]

Segment(flow, sequence, len, version, flags, ack) ==
  [flow |-> flow, sequence |-> sequence, len |-> len, version |-> version,
   syn |-> "syn" \in flags, fin |-> "fin" \in flags, rst |-> "rst" \in flags, ack |-> ack]

Captured ==
  {Segment("a", q, 1, v, {}, -1) : q \in {6, 7, 0}, v \in {0, 1}}
  \cup {Segment("a", 6, 2, 1, {}, -1), Segment("a", 7, 2, 0, {}, -1),
        Segment("a", 7, 1, 1, {"fin"}, -1), Segment("a", 0, 1, 0, {"rst"}, -1),
        Segment("a", 5, 0, 0, {"syn"}, -1), Segment("a", 2, 1, 0, {"syn"}, -1),
        Segment("b", 3, 0, 0, {"syn"}, 6), Segment("b", 5, 1, 0, {}, 7)}

VARIABLES subject, x1, x2, x3, x4, x5, x6, x7, x8, x9, x10, x11, x12, x13, x14, x15

MCVars == <<messageVars, subject, x1, x2, x3, x4, x5, x6, x7, x8, x9, x10, x11, x12,
          x13, x14, x15>>

Slots == <<x1, x2, x3, x4, x5, x6, x7, x8, x9, x10, x11, x12, x13, x14, x15>>

-----------------------------------------------------------------------------
(* Two keys of physical fragments and one of fragments found inside a completed datagram. *)
KeyFamily == <<"ipv4", "ipv6", "ipv4">>

InnerKeys == <<{3}, {3}, {}>>

Piece(key, offset, len, more, version) ==
  [key |-> key, offset |-> offset, len |-> len, more |-> more, version |-> version,
   header |-> IF offset = 0 /\ key = 2 THEN 2 ELSE 1,
   ecn |-> IF version = 0 THEN "Ect0" ELSE "Ce", valid |-> TRUE]

(* Fragments of five units: conflicting, overlapping, touching, and of     *)
(* final lengths that disagree.                                            *)
GoodFragments ==
  {Piece(1, 0, 2, TRUE, 0), Piece(1, 0, 4, TRUE, 1), Piece(1, 2, 2, TRUE, 0),
   Piece(1, 2, 3, FALSE, 1), Piece(1, 4, 1, FALSE, 0), Piece(1, 2, 2, FALSE, 0),
   Piece(2, 0, 2, TRUE, 0), Piece(2, 2, 2, TRUE, 1), Piece(2, 4, 1, FALSE, 0),
   Piece(3, 0, 2, TRUE, 0), Piece(3, 2, 1, FALSE, 1)}

BadFragments ==
  {[Piece(1, 0, 2, TRUE, 0) EXCEPT !.header = 3],
   [Piece(1, 2, 2, TRUE, 0) EXCEPT !.ecn = "NotEct"],
   [Piece(1, 0, 2, TRUE, 1) EXCEPT !.valid = FALSE]}

AllFragments == GoodFragments \cup BadFragments

Ip == INSTANCE IpReassembly WITH
  Keys <- {1, 2, 3}, Family <- KeyFamily, Inner <- InnerKeys,
  Fragments <- AllFragments, Policies <- {"Reject", "First", "Last"},
  Outcomes <- {0, 1}, Block <- 2, MinHeader <- 1, Ipv6Header <- 1, MaxWire <- 7, Slot <- 2,
  RangeCost <- 1, DerivedBase <- 1, LayerCost <- 1, MaxLayers <- 2,
  max_datagrams <- 2, max_fragments <- 4, max_bytes <- 5, max_aggregate <- 20,
  idle_expiry <- 1, FrameCount <- 3, LastTick <- 2, policy <- x1, max_outcomes <- x2,
  pc <- x3, clock <- x4, number <- x5, input <- x6, completed <- x7, derived <- x8,
  datagrams <- x9, expiry <- x10, retained <- x11, tracker <- x12, counters <- x13,
  report <- x14, fact <- x15

-----------------------------------------------------------------------------
(* MessageCollector: its variables are its own. *)
AllUnused == x1 = 0 /\ x2 = 0 /\ x3 = 0 /\ x4 = 0 /\ x5 = 0 /\ x6 = 0 /\ x7 = 0 /\ x8 = 0 /\ x9 = 0 /\
  x10 = 0 /\ x11 = 0 /\ x12 = 0 /\ x13 = 0 /\ x14 = 0 /\ x15 = 0

MCInit ==
  /\ MessageInit
  /\ \/ subject = "messages" /\ AllUnused
     \/ subject = "datagrams" /\ Ip!IpInit

IpStep == subject = "datagrams" /\ Ip!IpNext /\ UNCHANGED subject /\ UNCHANGED messageVars

MessageStep == subject = "messages" /\ MessageNext /\ UNCHANGED subject /\ UNCHANGED Slots

MCNext == MessageStep \/ IpStep

MCSpec == MCInit /\ [][MCNext]_MCVars

-----------------------------------------------------------------------------
\* Only the TCP streams.
SplitSpec == MCInit /\ subject = "messages" /\ [][MCNext]_MCVars

\* TcpReassembly: every flow is charged for what it holds, and the bytes of a stream are those
\* of its segments in order of their sequence, the earliest copy of each.
StreamsFaithful == subject = "messages" => StreamFaithful /\ FlowsCharged

\* TcpSources and MessageCollector: every byte of a message is traced to the frames that
\* carried it, and the messages of a stream are cut from its bytes without loss or repetition;
\* only a keep-alive between two messages is left out of them.
MessagesSourced == subject = "messages" => MessagesFaithful /\ BytesSourced

\* IpReassembly: the memory charged is the memory held, the bytes of a datagram are those the
\* overlap policy selects, and every fragment belongs to exactly one outcome.
DatagramsExact ==
  subject = "datagrams" => Ip!MemoryExact /\ Ip!BytesByPolicy /\ Ip!DatagramsAccounted
=============================================================================
