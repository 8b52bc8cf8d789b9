----------------------------- MODULE PacketCodec -----------------------------
(***************************************************************************)
(* A packet built, put on the wire, dissected and built again: the Builder *)
(* (build.rs, build/validation.rs), the DecodeSession (decode/) and the    *)
(* round-trip oracle that joins them (fuzz/roundtrip.rs).                  *)
(*                                                                         *)
(* A case is a packet with its build mode, the address it is sent to and   *)
(* the protocol its frame is read as.  The builder encodes one layer a     *)
(* step, innermost first; the wire may then lose its end, gain padding or  *)
(* be damaged; the session reads one layer a step; the decoded packet is   *)
(* built again.                                                            *)
(***************************************************************************)
EXTENDS LayerCodecs

LOCAL INSTANCE SequencesExt
LOCAL INSTANCE FiniteSetsExt

CONSTANTS Cases, max_layers, max_packet_size, Extras

VARIABLES phase,    \* what the case is going through
          packet,   \* the layers being built
          strict,   \* the build mode
          target,   \* the destination the build inherits, 0 for none
          root,     \* the protocol the frame is read as
          wire,     \* the encoded layers, outermost first, and their lengths
          suspect,  \* whether a check has objected
          frame,    \* the received segments with their offsets
          cursor,   \* the session: the bytes to read next and as what
          decoded,  \* its layers and the bytes each covers
          trailing, \* bytes outside a declared length
          scope,    \* the network envelope in scope
          history   \* whether the wire was damaged, or a codec read foreign bytes

vars == <<registry, phase, packet, strict, target, root, wire, suspect, frame, cursor, decoded,
          trailing, scope, history>>

Total(segments) == FoldLeft(LAMBDA n, s : n + s.n, 0, segments)

(* Facts about a layer that its codec cannot see (build.rs, envelope.rs).   *)

IsIp(l) == l.p \in {"ipv4", "ipv6"}

binding_protocol(l) == IF l.p = "malformed" /\ l.intended # NoProtocol THEN l.intended ELSE l.p

\* The longest run of layers from index i on that satisfy an extension-header test.
ExtensionRun(P, i) ==
  {j \in i..Len(P) : \A k \in i..j : is_ipv6_extension(P[k].p)}

following_srh(P, i) == {j \in ExtensionRun(P, i + 1) : P[j].p = "ipv6_srh"}

srh_reduced(P, i) ==
  LET found == following_srh(P, i)
  IN  found # {} /\ P[Min(found)].segments_left = Exact(Len(P[Min(found)].segments))

srh_active_segment(P, i) ==
  LET found == following_srh(P, i)
      srh == P[Min(found)]
      last == Len(srh.segments)
      left == IF srh.segments_left.kind = "auto" THEN last - 1 ELSE srh.segments_left.value
  IN  IF found = {} \/ last = 0 \/ srh.segments_left.kind = "raw" \/ left >= last THEN 0
      ELSE srh.segments[last - left]

is_outer_network_layer(P, i) == \A j \in 1..(i - 1) : ~IsIp(P[j])

resolve_envelope(P, i) ==
  LET above == {j \in 1..(i - 1) : IsIp(P[j])}
      j == Max(above)
      ctx == [outer |-> is_outer_network_layer(P, j), target |-> target]
      srhs == {k \in ExtensionRun(P, j + 1) : k < i /\ P[k].p = "ipv6_srh"}
  IN  CASE above = {} -> IF target = 0 THEN NoNet ELSE Net(target \div 10, target)
        [] P[j].p = "ipv4" /\ P[j].options.route = -1 /\ strict -> NoNet
        [] P[j].p = "ipv4" -> Net(4, ipv4_source_route_destination(
                                       endpoint(P[j].destination, 4, ctx), P[j].options))
        [] OTHER -> Net(6, IF srhs # {} THEN Last(P[Max(srhs)].segments)
                           ELSE endpoint(P[j].destination, 6, ctx))

under_ipv6(P, i) ==
  LET above == {j \in 1..(i - 1) : P[j].p # "ah" /\ (IsIp(P[j]) \/ is_ipv6_extension(P[j].p))}
  IN  IF above = {} THEN 0 ELSE IF P[Max(above)].p = "ipv4" THEN 4 ELSE 6

NoValue == [kind |-> "none", value |-> 0]

parent_discriminator_value(l) ==
  CASE "ether_type" \in DOMAIN l -> l.ether_type
    [] "protocol" \in DOMAIN l -> l.protocol
    [] "protocol_type" \in DOMAIN l /\ l.p # "gtpu" -> l.protocol_type
    [] l.p = "snap" /\ l.oui = 0 -> l.protocol_id
    [] OTHER -> NoValue

\* Mutant of excluded_from: the layer the padding follows counts it as payload.
excluded_from_inside(padding, i) == padding.outside = NoLayer \/ i > padding.outside

excluded_from(padding, i) == padding.outside = NoLayer \/ i >= padding.outside

\* The length of the closing run of padding that lies outside layer i.
trailing_padding(P, i) ==
  LET run == {j \in (i + 1)..Len(P) : \A k \in j..Len(P) : P[k].p = "padding"}
  IN  MapThenSumSet(LAMBDA j : P[j].hi - P[j].lo, {j \in run : excluded_from(P[j], i)})

\* What the bytes of a raw child are to a codec that looks into them.
ChunksOf(l) ==
  IF "chunks" \in DOMAIN l THEN l.chunks
  ELSE LET at == {k \in DOMAIN frame : frame[k].off = l.lo /\ "chunks" \in DOMAIN frame[k].h}
       IN  IF at = {} THEN "broken" ELSE frame[Min(at)].h.chunks

layer_facts(P, i, payload) ==
  LET has == i < Len(P)
      up == IF i = 1 THEN [p |-> NoProtocol] ELSE P[i - 1]
  IN  [child |-> IF has THEN P[i + 1].p ELSE NoProtocol,
       binds |-> IF has THEN binding_protocol(P[i + 1]) ELSE NoProtocol,
       len |-> payload, covered |-> payload - trailing_padding(P, i),
       room |-> max_packet_size - payload,
       parent |-> up.p, parentType |-> parent_discriminator_value(up),
       parentProtocolType |-> IF up.p \in {"gre", "geneve"} THEN up.protocol_type ELSE NoValue,
       parentSequence |-> up.p = "gre" /\ up.sequence,
       net |-> resolve_envelope(P, i), outer |-> is_outer_network_layer(P, i),
       target |-> target, active |-> srh_active_segment(P, i),
       reduced |-> srh_reduced(P, i), under6 |-> under_ipv6(P, i), response |-> FALSE,
       chunks |-> IF has /\ P[i + 1].p = "raw" THEN ChunksOf(P[i + 1]) ELSE "broken"]

(* Building (build/validation.rs, Builder).                                 *)

is_network_boundary(p) == p \in {"ipv4", "ipv6", "udp", "pppoe", "gtpu"}

link_declares_length(P, o) ==
  IF P[o].ether_type.kind \in {"exact", "raw"} THEN P[o].ether_type.value <= MaxFrameLength
  ELSE o < Len(P) /\ binding_protocol(P[o + 1]) \in {"padding", "llc"}

HasDeclaredBoundary(P, o) ==
  CASE P[o].p \in {"arp", "eapol", "stp"} -> TRUE
    [] P[o].p \in LinkParents -> link_declares_length(P, o)
    [] OTHER -> is_network_boundary(P[o].p)

Paddings(P) == {k \in DOMAIN P : P[k].p = "padding"}

\* Boundaries no mode accepts: not an enclosing layer, or not innermost first.
InvalidPaddingBoundary(P) ==
  \E k \in Paddings(P) :
    LET o == P[k].outside
    IN  /\ o # NoLayer
        /\ \/ o >= k \/ P[o].p \in {"padding", "malformed"}
           \/ /\ k - 1 \in Paddings(P)
              /\ o > (IF P[k - 1].outside = NoLayer THEN 1 ELSE P[k - 1].outside)

validate_padding(P) ==
  \E k \in Paddings(P) :
    IF P[k].outside = NoLayer
    THEN \A j \in 1..(k - 1) : ~allows_trailing_padding(P[j].p)
    ELSE ~HasDeclaredBoundary(P, P[k].outside)

validate_adjacent_bindings(P) ==
  \E i \in 1..(Len(P) - 1) :
    /\ ~discriminator_for(P[i].p, P[i + 1].p).found
    /\ P[i].p # "raw"
    /\ P[i + 1].p \notin {"padding", "malformed"}

pass_through_byte_length(P) ==
  MapThenSumSet(LAMBDA k : P[k].hi - P[k].lo, {k \in DOMAIN P : preserves_opaque_bytes(P[k].p)})

Encode(l, c) ==
  CASE l.p = "ethernet" -> EthernetEncode(l, c)
    [] l.p \in {"vlan", "vlan8021ad"} -> encode_vlan(l, c)
    [] l.p = "llc" -> LlcEncode(l, c)
    [] l.p = "snap" -> SnapEncode(l, c)
    [] l.p = "arp" -> ArpEncode(l, c)
    [] l.p = "stp" -> StpEncode(l, c)
    [] l.p = "eapol" -> EapolEncode(l, c)
    [] l.p \in {"bsd_null", "bsd_loop"} -> BsdEncode(l, c)
    [] l.p \in {"linux_sll", "linux_sll2"} -> SllEncode(l, c)
    [] l.p = "ipv4" -> Ipv4Encode(l, c)
    [] l.p = "ipv6" -> Ipv6Encode(l, c)
    [] l.p \in {"ipv6_hop_by_hop", "ipv6_destination_options"} -> encode_options(l, c)
    [] l.p = "ipv6_fragment" -> FragmentEncode(l, c)
    [] l.p = "ipv6_srh" -> SrhEncode(l, c)
    [] l.p \in {"icmpv4", "icmpv6", "igmp"} -> IcmpEncode(l, c)
    [] l.p = "vrrp" -> VrrpEncode(l, c)
    [] l.p = "udp" -> UdpEncode(l, c)
    [] l.p = "tcp" -> TcpEncode(l, c)
    [] l.p = "sctp" -> SctpEncode(l, c)
    [] l.p = "gre" -> GreEncode(l, c)
    [] l.p = "erspan" -> ErspanEncode(l, c)
    [] l.p = "vxlan" -> VxlanEncode(l, c)
    [] l.p = "etherip" -> EtheripEncode(l, c)
    [] l.p = "l2tpv3" -> L2tpv3Encode(l, c)
    [] l.p = "esp" -> EspEncode(l, c)
    [] l.p = "geneve" -> GeneveEncode(l, c)
    [] l.p = "mpls" -> MplsEncode(l, c)
    [] l.p = "gtpu" -> GtpuEncode(l, c)
    [] l.p = "pppoe" -> PppoeEncode(l, c)
    [] l.p = "ppp" -> PppEncode(l, c)
    [] l.p = "ah" -> AhEncode(l, c)
    [] l.p \in StreamMessages \cup DatagramMessages -> MessageEncode(l, c)
    [] preserves_opaque_bytes(l.p) -> OpaqueEncode(l, c)
    [] OTHER -> Refused

Init ==
  \E case \in Cases :
    /\ registry = BuiltinRegistry
    /\ phase = "compose"
    /\ packet = case.packet /\ strict = case.strict /\ target = case.target
    /\ root = case.root
    /\ wire = <<>> /\ suspect = FALSE /\ frame = <<>>
    /\ cursor = [p |-> root, selector |-> 0, lo |-> 0, hi |-> 0]
    /\ decoded = <<>> /\ trailing = <<>>
    /\ scope = [network |-> NoNet, padding |-> allows_trailing_padding(root)]
    /\ history = [damaged |-> FALSE, foreign |-> FALSE, again |-> FALSE, length |-> 0]

\* validate_packet: what every mode refuses, and what only strict mode does.
ValidatePacket ==
  LET objects == validate_padding(packet) \/ validate_adjacent_bindings(packet)
      refused == \/ Len(packet) \notin 1..max_layers
                 \/ pass_through_byte_length(packet) > max_packet_size
                 \/ InvalidPaddingBoundary(packet)
  IN  /\ phase = "compose"
      /\ phase' = IF refused \/ (strict /\ objects) THEN "refused" ELSE "encode"
      /\ suspect' = objects
      /\ wire' = <<>>
      /\ UNCHANGED <<registry, packet, strict, target, root, frame, cursor, decoded, trailing, scope,
                     history>>

\* encode_layers, one layer: its codec sees the bytes of the layers inside it.
EncodeLayer ==
  LET i == Len(packet) - Len(wire)
      l == packet[i]
      payload == Total(wire)
      body == IF "body" \in DOMAIN l THEN l.body ELSE Body(-1, 0)
  IN  /\ phase = "encode" /\ i > 0
      /\ \E e \in {Encode(l, layer_facts(packet, i, payload))} :
           IF e.refused \/ (strict /\ e.suspect) \/ payload + e.length > max_packet_size
           THEN phase' = "refused" /\ UNCHANGED <<wire, suspect>>
           ELSE /\ wire' = <<[h |-> e.header, n |-> e.length, body |-> body]>> \o wire
                /\ suspect' = (suspect \/ e.suspect)
                /\ UNCHANGED phase
      /\ UNCHANGED <<registry, packet, strict, target, root, frame, cursor, decoded, trailing, scope,
                     history>>

\* finalize: the layouts are shifted to their offsets.
Placed(segments) ==
  [k \in DOMAIN segments |->
     [off |-> Total(SubSeq(segments, 1, k - 1)), n |-> segments[k].n, h |-> segments[k].h,
      body |-> segments[k].body]]

Finalize ==
  /\ phase = "encode" /\ Len(wire) = Len(packet)
  /\ phase' = IF history.again THEN "rebuilt" ELSE "built"
  /\ UNCHANGED <<registry, packet, strict, target, root, wire, suspect, frame, cursor, decoded, trailing,
                 scope, history>>

(* The wire (external): whole, cut short, padded, or with one segment's     *)
(* bytes damaged, which no checksum outside it then fits.                   *)

Segments == Placed(wire)

Damaged(segments, k) ==
  [i \in DOMAIN segments |->
     LET h == segments[i].h
     IN  CASE i <= k /\ "checksum" \in DOMAIN h /\ h.p # "ipv4" /\ h.checksum \notin {NoField, Zero}
                -> [segments[i] EXCEPT !.h.checksum = IF h.p = "gre" THEN Exact(Bad) ELSE Bad]
           [] i = k /\ "parse" \in DOMAIN h -> [segments[i] EXCEPT !.h.parse = "bad"]
           [] OTHER -> segments[i]]

Deliver(segments, length, damaged) ==
  /\ phase = "built"
  /\ phase' = "decode"
  /\ frame' = segments
  /\ cursor' = [cursor EXCEPT !.hi = length]
  /\ history' = [history EXCEPT !.damaged = damaged, !.length = length]
  /\ UNCHANGED <<registry, packet, strict, target, root, wire, suspect, decoded, trailing, scope>>

DeliverWhole == Deliver(Segments, Total(wire), FALSE)

DeliverCut ==
  \E k \in DOMAIN wire, n \in {0, 1} :
    LET length == Total(SubSeq(wire, 1, k)) - n
    IN  length \in 1..(Total(wire) - 1) /\ Deliver(Segments, length, TRUE)

DeliverPadded == \E n \in Extras : Deliver(Segments, Total(wire) + n, TRUE)

DeliverDamaged == \E k \in DOMAIN wire : Deliver(Damaged(Segments, k), Total(wire), TRUE)

(* The decode session.                                                      *)

At(offset) == {k \in DOMAIN frame : frame[k].off = offset}
HeaderAt(offset) == frame[Max(At(offset))].h

\* What a codec can find in the first nibble behind it.
NibblesAt(offset) ==
  IF At(offset) = {} \/ preserves_opaque_bytes(HeaderAt(offset).p) THEN {0, 4, 6}
  ELSE CASE HeaderAt(offset).p = "ipv4" -> {4} [] HeaderAt(offset).p = "ipv6" -> {6} [] OTHER -> {0}

JumboAt(offset) ==
  At(offset) # {} /\ HeaderAt(offset).p = "ipv6_hop_by_hop" /\ HeaderAt(offset).jumbo

ChunksAt(offset, hi) ==
  CASE At(offset) = {} \/ "chunks" \notin DOMAIN HeaderAt(offset) -> {"broken"}
    [] frame[Max(At(offset))].n > hi - offset -> {"whole", "padded", "broken"}
    [] OTHER -> {HeaderAt(offset).chunks}

\* A codec reads a header of its own format.
Decode(h, nibble, chunks) ==
  LET avail == cursor.hi - cursor.lo
  IN  CASE h.p = "ethernet" -> EthernetDecode(h, avail)
        [] h.p \in {"vlan", "vlan8021ad"} -> decode_vlan(h, avail)
        [] h.p = "llc" -> LlcDecode(h, avail)
        [] h.p = "snap" -> SnapDecode(h, avail)
        [] h.p = "arp" -> ArpDecode(h, avail)
        [] h.p = "stp" -> StpDecode(h, avail)
        [] h.p = "eapol" -> EapolDecode(h, avail)
        [] h.p \in {"bsd_null", "bsd_loop"} -> decode_family(h, avail)
        [] h.p \in {"linux_sll", "linux_sll2"} -> SllDecode(h, avail)
        [] h.p = "ipv4" -> Ipv4Decode(h, avail)
        [] h.p = "ipv6" -> Ipv6Decode(h, avail, JumboAt(cursor.lo + 40))
        [] h.p \in {"ipv6_hop_by_hop", "ipv6_destination_options"} -> decode_options(h, avail)
        [] h.p = "ipv6_fragment" -> FragmentDecode(h, avail)
        [] h.p = "ipv6_srh" -> SrhDecode(h, avail, scope.network)
        [] h.p \in {"icmpv4", "icmpv6", "igmp"} -> IcmpDecode(h, cursor.lo, avail)
        [] h.p = "vrrp" -> VrrpDecode(h, cursor.lo, avail, scope.network)
        [] h.p = "udp" -> UdpDecode(h, avail, FALSE)
        [] h.p = "tcp" -> TcpDecode(h, avail)
        [] h.p = "sctp" -> SctpDecode(h, avail, chunks)
        [] h.p = "gre" -> GreDecode(h, avail)
        [] h.p = "erspan" -> ErspanDecode(h, avail)
        [] h.p \in {"vxlan", "etherip", "l2tpv3", "esp"} -> FixedDecode(h, avail)
        [] h.p = "geneve" -> GeneveDecode(h, avail)
        [] h.p = "mpls" -> MplsDecode(h, avail, nibble)
        [] h.p = "gtpu" -> GtpuDecode(h, avail, nibble)
        [] h.p = "pppoe" -> PppoeDecode(h, avail, cursor.selector)
        [] h.p = "ppp" -> PppDecode(h, avail)
        [] h.p = "ah" -> AhDecode(h, avail, scope.network.version)
        [] OTHER -> MessageDecode(h, cursor.lo, avail,
                                  IF decoded = <<>> THEN NoProtocol ELSE Last(decoded).layer.p,
                                  scope.network)

\* The codec of the cursor's protocol on the bytes there: a header written by that codec, or
\* foreign bytes, of which it makes something or nothing.
Foreign(p) == [p |-> p, foreign |-> TRUE]

Misread(p, avail) ==
  {Fails} \cup {Reads(Foreign(p), k, avail - k, <<>>, avail = k) : k \in {1, avail} \ {0}}

SameFormat(p, h) == h.p = p \/ (p = "raw_ip" /\ h.p \in {"ipv4", "ipv6"})

Answers ==
  LET p == cursor.p
      avail == cursor.hi - cursor.lo
      own == At(cursor.lo) # {} /\ SameFormat(p, HeaderAt(cursor.lo))
      seg == frame[Max(At(cursor.lo))]
      read == {Decode(seg.h, nibble, chunks) : nibble \in NibblesAt(cursor.lo + seg.n),
                                               chunks \in ChunksAt(cursor.lo + seg.n, cursor.hi)}
  IN  IF preserves_opaque_bytes(p) THEN {OpaqueDecode(p, cursor.lo, avail)}
      ELSE IF own /\ Unclear \notin read THEN read
      ELSE Misread(p, avail)

Covering(layer, lo, hi) == [layer |-> layer, lo |-> lo, hi |-> hi]
RawLayer(lo, hi) == Covering([p |-> "raw", lo |-> lo, hi |-> hi], lo, hi)
MalformedLayer(intended, lo, hi) ==
  Covering([p |-> "malformed", lo |-> lo, hi |-> hi, intended |-> intended], lo, hi)

Full(layers) == Len(layers) >= max_layers

\* The session ends with one more layer, if the limit leaves room for it.
EndWith(layers, last) ==
  /\ IF Full(layers) THEN phase' = "limit" /\ decoded' = layers
     ELSE phase' = "finish" /\ decoded' = Append(layers, last)
  /\ UNCHANGED cursor

\* commit_layer, and what becomes of the payload.
CommitLayer(a, child) ==
  LET layer_end == cursor.lo + a.consumed
      payload_end == layer_end + a.payload
      layers == Append(decoded, Covering(a.layer, cursor.lo, layer_end))
      boundary == is_encapsulation_boundary(a.layer.p)
  IN  /\ trailing' = IF payload_end = cursor.hi THEN trailing
                     ELSE Append(trailing, [lo |-> payload_end, hi |-> cursor.hi,
                                            outside |-> Len(layers)])
      /\ scope' = [network |-> IF boundary THEN NoNet
                               ELSE IF a.net = NoNet THEN scope.network ELSE a.net,
                   padding |-> IF boundary THEN allows_trailing_padding(child.child)
                               ELSE scope.padding]
      /\ CASE a.payload = 0 /\ child.found /\ ~preserves_opaque_bytes(child.child)
                -> EndWith(layers, MalformedLayer(child.child, layer_end, layer_end))
           [] a.payload = 0 /\ ~(child.found /\ ~preserves_opaque_bytes(child.child))
                -> phase' = "finish" /\ decoded' = layers /\ UNCHANGED cursor
           [] a.payload > 0 /\ (a.stop \/ ~child.found)
                -> EndWith(layers, RawLayer(layer_end, payload_end))
           [] OTHER -> /\ decoded' = layers
                       /\ cursor' = [p |-> child.child, selector |-> child.discriminator,
                                     lo |-> layer_end, hi |-> payload_end]
                       /\ UNCHANGED phase

CursorInvalid(a) ==
  \/ a.consumed > cursor.hi - cursor.lo
  \/ ~a.stop /\ a.consumed = 0
  \/ a.consumed + a.payload > cursor.hi - cursor.lo

\* One turn of the loop in DecodeSession::run.
DecodeLayer ==
  /\ phase = "decode"
  /\ IF Full(decoded) THEN phase' = "limit" /\ UNCHANGED <<cursor, decoded, trailing, scope, history>>
     ELSE \E a \in Answers :
       LET child == first_child_for(a.layer.p, a.next)
           coalesced == /\ child.child = a.layer.p /\ stream_decode(a.layer.p)
                        /\ Len(decoded) + Len(trailing) + 2 > max_layers
       IN  /\ history' = [history EXCEPT !.foreign = @ \/ (a.ok /\ "foreign" \in DOMAIN a.layer)]
           /\ IF ~a.ok
              THEN EndWith(decoded, MalformedLayer(cursor.p, cursor.lo, cursor.hi))
                     /\ UNCHANGED <<trailing, scope>>
              ELSE IF CursorInvalid(a)
              THEN phase' = "invalid" /\ UNCHANGED <<cursor, decoded, trailing, scope>>
              ELSE IF coalesced
              THEN EndWith(decoded, RawLayer(cursor.lo, cursor.hi)) /\ UNCHANGED <<trailing, scope>>
              ELSE CommitLayer(a, child)
  /\ UNCHANGED <<registry, packet, strict, target, root, wire, suspect, frame>>

\* Mutant of Finish: the padding is appended as it was found, the outermost first.
FinishUnsorted ==
  LET layers == decoded \o [k \in DOMAIN trailing |->
                  Covering([p |-> "padding", lo |-> trailing[k].lo, hi |-> trailing[k].hi,
                            outside |-> trailing[k].outside], trailing[k].lo, trailing[k].hi)]
  IN  /\ phase = "finish"
      /\ IF Len(layers) > max_layers THEN phase' = "limit" /\ UNCHANGED decoded
         ELSE phase' = "decoded" /\ decoded' = layers
      /\ UNCHANGED <<registry, packet, strict, target, root, wire, suspect, frame, cursor, trailing, scope,
                     history>>

\* finish: the trailing bytes become padding, the innermost (which starts first) first.
Finish ==
  LET sorted == SetToSortSeq(Range(trailing), LAMBDA s, t : s.lo < t.lo)
      layers == decoded \o [k \in DOMAIN sorted |->
                  Covering([p |-> "padding", lo |-> sorted[k].lo, hi |-> sorted[k].hi,
                            outside |-> sorted[k].outside], sorted[k].lo, sorted[k].hi)]
  IN  /\ phase = "finish"
      /\ IF Len(layers) > max_layers THEN phase' = "limit" /\ UNCHANGED decoded
         ELSE phase' = "decoded" /\ decoded' = layers
      /\ UNCHANGED <<registry, packet, strict, target, root, wire, suspect, frame, cursor, trailing, scope,
                     history>>

\* The oracle builds the decoded packet again, with Addresses::default() as the campaign built
\* the first (fuzz/prepare.rs); a damaged frame is rebuilt permissively.
Rebuild ==
  /\ phase = "decoded" /\ ~history.foreign /\ target = 0
  /\ phase' = "compose"
  /\ packet' = [k \in DOMAIN decoded |-> decoded[k].layer]
  /\ strict' = (strict /\ ~history.damaged)
  /\ wire' = <<>>
  /\ suspect' = FALSE
  /\ history' = [history EXCEPT !.again = TRUE]
  /\ UNCHANGED <<registry, target, root, frame, cursor, decoded, trailing, scope>>

Ended ==
  /\ \/ phase \in {"refused", "rebuilt", "limit", "invalid"}
     \/ phase = "decoded" /\ (history.foreign \/ target # 0)
  /\ UNCHANGED vars

Next ==
  \/ ValidatePacket \/ EncodeLayer \/ Finalize
  \/ DeliverWhole \/ DeliverCut \/ DeliverPadded \/ DeliverDamaged
  \/ DecodeLayer \/ Finish \/ Rebuild \/ Ended

Spec == Init /\ [][Next]_vars

(* Properties.                                                              *)

\* Every byte of a received frame lands in exactly one layer of the decoded packet, in
\* order, whatever the frame holds (decode/session.rs), and no codec hands the session a
\* cursor outside its input.
CoverageExact ==
  /\ phase # "invalid"
  /\ Len(decoded) <= max_layers
  /\ phase = "decoded" =>
       /\ decoded[1].lo = 0 /\ Last(decoded).hi = history.length
       /\ \A k \in 1..(Len(decoded) - 1) : decoded[k].hi = decoded[k + 1].lo

Protocols(layers) == [k \in DOMAIN layers |-> layers[k].p]

\* Bytes equal: each rebuilt piece is the header at its offset, or the bytes it was cut from.
SameHeader(a, b) ==
  /\ DOMAIN a = DOMAIN b
  /\ \A f \in DOMAIN a \ {"extensions", "chain"} : a[f] = b[f]

RebuiltEqual ==
  LET pieces == Placed(wire)
  IN  /\ Total(wire) = history.length
      /\ \A k \in DOMAIN pieces :
           LET s == pieces[k]
           IN  IF preserves_opaque_bytes(s.h.p) THEN s.n = 0 \/ s.h.lo = s.off
               ELSE /\ At(s.off) # {} /\ SameHeader(s.h, HeaderAt(s.off))
                    /\ s.body.lo = -1 \/ s.body.lo + s.body.n = s.off + s.n

\* The round-trip oracle finds nothing (fuzz/roundtrip.rs): a decoded packet can be built
\* again, and to the bytes it was decoded from.
RebuildExact ==
  history.again =>
    /\ phase # "refused"
    /\ phase = "rebuilt" => RebuiltEqual

\* Under these parents opaque bytes may be read as a protocol: their headers do not say which
\* (mpls, gtpu), or their codecs do not compare what they say with the child that was built
\* (tcp, eapol, and a bsd_null family in the other byte order).
Undecided == {"mpls", "gtpu", "tcp", "eapol", "bsd_null"}

\* Strict mode builds only what reads back: an undamaged frame that a strict build made decodes
\* to the layers it was built from, except for opaque bytes where the parent cannot tell
\* ("A discriminator that selects a registered typed codec must have that child",
\* protocol/common/validation.rs).
StrictBuildReads ==
  (phase = "decoded" /\ strict /\ ~history.damaged) =>
    \A k \in DOMAIN packet :
      \/ k \in DOMAIN decoded /\ decoded[k].layer.p = packet[k].p
      \/ packet[k].p = "malformed"
      \/ packet[k].p = "raw" /\ k > 1 /\ packet[k - 1].p \in Undecided

=============================================================================
