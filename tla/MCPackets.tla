----------------------------- MODULE MCPackets ------------------------------
(***************************************************************************)
(* Small instances of what builds, reads and stores packets: the builder   *)
(* and the dissector on stacks of every built-in protocol, the buffer      *)
(* packets are built in, capture files, and the files of a live capture.   *)
(* Each behaviour runs one of them, the subject.  The codecs have their    *)
(* own variables; the variables of the others are in the slots x1, x2, ... *)
(* in the order of their declaration.                                      *)
(***************************************************************************)
EXTENDS PacketCodec, Sequences, TLC

(* The packets: stacks of every built-in protocol, plain and with exact, inconsistent or raw fields. *)

Raw(n) == [p |-> "raw", lo |-> 0, hi |-> n]
Chunks(n, kind) == [p |-> "raw", lo |-> 0, hi |-> n, chunks |-> kind]
Pad(n, o) == [p |-> "padding", lo |-> 0, hi |-> n, outside |-> o]
Eth(t) == [p |-> "ethernet", ether_type |-> t]
Tag(p, t) == [p |-> p, ether_type |-> t, vlan_id |-> 7]
Llc(saps, control) == [p |-> "llc", saps |-> saps, control |-> control]
Snap(oui, id) == [p |-> "snap", oui |-> oui, protocol_id |-> id]
Arp == [p |-> "arp", types |-> TRUE, hardware_len |-> Auto, protocol_len |-> Auto]
Stp(bpdu, v) == [p |-> "stp", protocol_id |-> 0, bpdu |-> bpdu, version |-> v,
                 rapidFlags |-> FALSE, v1 |-> TRUE]
Eapol(t, n) == [p |-> "eapol", packet_type |-> t, length |-> n]
Bsd(p, f, order) == [p |-> p, family |-> f, byte_order |-> order]
Sll(p, t) == [p |-> p, protocol |-> t]
NoOptions == [length |-> 0, route |-> 0]
Ip4(proto, len, dst, opts) ==
  [p |-> "ipv4", protocol |-> proto, total_length |-> len, checksum |-> Auto,
     destination |-> dst,
   options |-> opts, fragment_offset |-> 0, more_fragments |-> FALSE, dont_fragment |-> FALSE,
   reserved_flag |-> FALSE]
Ip6(next, len, dst) ==
  [p |-> "ipv6", next_header |-> next, payload_length |-> len, destination |-> dst,
     flow_label |-> 0]
Hbh(p, next, n, jumbo) == [p |-> p, next_header |-> next, length |-> n, jumbo |-> jumbo]
Frag6(next, off, more) ==
  [p |-> "ipv6_fragment", next_header |-> next, fragment_offset |-> off,
     more_fragments |-> more,
   reserved |-> FALSE]
Srh(next, segs, left, last, words, extra) ==
  [p |-> "ipv6_srh", next_header |-> next, segments |-> segs, segments_left |-> left,
   last_entry |-> last, flags |-> FALSE, words |-> words, extra |-> extra]
Icmp(p, sum, n) == [p |-> p, checksum |-> sum, body |-> Body(-1, n)]
Vrrp(v, n, v6, auth, count) ==
  [p |-> "vrrp", version |-> v, addresses |-> n, v6 |-> v6, auth |-> auth, count_ip |-> count,
   checksum |-> Auto, body |-> Body(-1, 0)]
Udp(s, d, len, sum) ==
  [p |-> "udp", source_port |-> s, destination_port |-> d, length |-> len, checksum |-> sum]
Tcp(s, d, opts, sum) ==
  [p |-> "tcp", source_port |-> s, destination_port |-> d, options |-> opts, checksum |-> sum,
   flags |-> 2, reserved_bits |-> 0]
Sctp(sum) == [p |-> "sctp", source_port |-> 9, destination_port |-> 9, checksum |-> sum]
Gre(t, sum, seq) ==
  [p |-> "gre", protocol_type |-> t, checksum |-> sum, key |-> FALSE, sequence |-> seq,
   reserved_bits |-> 0]
Erspan(v, o) ==
  [p |-> "erspan", version |-> v, vlan |-> 1, index_word |-> 0,
   type3 |-> IF v = 1 THEN NoProtocol ELSE IF o THEN "set" ELSE "clear",
   subheader |-> IF v = 2 /\ o THEN 8 ELSE 0]
Vxlan == [p |-> "vxlan", vni |-> 1, usual |-> TRUE]
Etherip == [p |-> "etherip", usual |-> TRUE]
L2tp == [p |-> "l2tpv3"]
Esp == [p |-> "esp", usual |-> TRUE]
Geneve(t, o, chain) ==
  [p |-> "geneve", version |-> 0, protocol_type |-> t, options |-> o, chain |-> chain]
Mpls(s) == [p |-> "mpls", label |-> 1, bottom_of_stack |-> s]
Gtpu(flags, next, ext, chain, len, gpdu) ==
  [p |-> "gtpu", version |-> 1, protocol_type |-> TRUE, reserved |-> FALSE, flags |-> flags,
   sequence |-> FALSE, next |-> next, extensions |-> ext, chain |-> chain, length |-> len,
   gpdu |-> gpdu]
Pppoe(code, len) == [p |-> "pppoe", code |-> code, length |-> len, usual |-> TRUE]
Ppp(t) == [p |-> "ppp", protocol |-> t]
Ah(next, icv, len) ==
  [p |-> "ah", next_header |-> next, icv |-> icv, payload_length |-> len, usual |-> TRUE]
Msg(p, n, framed, parse) ==
  [p |-> p, n |-> n, framed |-> framed, parse |-> parse, pseudo |-> p \in {"ospfv3", "pim"}]

E4 == Eth(Auto)
V4 == Ip4(Auto, Auto, 41, NoOptions)
V6 == Ip6(Auto, Auto, 61)
U(d) == Udp(7, d, Auto, Auto)
T(d) == Tcp(7, d, 0, Auto)

\* Packets whose every derived field is automatic.
Plain ==
  {<<V4, Tcp(7, 9, 7, Auto), Raw(4)>>, <<E4, V4, U(9), Raw(4)>>,
   <<E4, Tag("vlan", Auto), V4, U(9), Raw(4)>>,
   <<E4, Tag("vlan8021ad", Auto), Tag("vlan", Auto), V6, T(9), Raw(4)>>,
   <<E4, Llc(StpSaps, "ui"), Stp("config", 0)>>,
   <<E4, Llc(StpSaps, "ui"), Stp("rst", 2), Pad(6, 1)>>,
   <<E4, Llc(SnapSaps, "ui"), Snap(0, Auto), V4, Icmp("icmpv4", Auto, 4)>>,
   <<E4, Llc(SnapSaps, "ui"), Snap(12, Exact(8192)), Msg("cdp", 8, 8, "ok")>>,
   <<E4, Llc(240, "i"), Raw(3)>>, <<E4, Arp>>, <<E4, Arp, Pad(18, 2)>>,
   <<E4, Eapol(0, Auto), Msg("eap", 8, 8, "ok")>>, <<E4, Eapol(1, Auto)>>,
   <<E4, Eapol(3, Auto), Raw(5), Pad(4, 2)>>,
   <<Bsd("bsd_null", 2, "little"), V4, U(9), Raw(2)>>, <<Bsd("bsd_loop", 24, "big"), V6, T(9)>>,
   <<Sll("linux_sll", Auto), V4, T(9), Raw(3)>>, <<Sll("linux_sll2", Auto), Arp>>,
   <<V4, Sctp(Auto), Chunks(8, "whole")>>, <<V4, Icmp("igmp", Auto, 4)>>,
   <<V4, Vrrp(2, 2, FALSE, -1, Auto)>>, <<V6, Vrrp(3, 1, TRUE, -1, Auto)>>,
   <<V6, Icmp("icmpv6", Auto, 20)>>,
   <<V6, Hbh("ipv6_hop_by_hop", Auto, 6, FALSE), Hbh("ipv6_destination_options", Auto, 6,
     FALSE), U(9), Raw(4)>>,
   <<V6, Frag6(Auto, 0, FALSE), U(9), Raw(4)>>,
   <<Ip6(Auto, Auto, 0), Srh(Auto, <<62, 63>>, Auto, Auto, <<>>, 0), U(9), Raw(4)>>,
   <<V6, Msg("ospfv3", 16, 16, "ok")>>, <<V6, Ah(Auto, 12, Auto), Msg("ospfv3", 16, 16, "ok")>>,
   <<V4, Ah(Auto, 12, Auto), U(9), Raw(4)>>, <<V4, Msg("ospfv2", 24, 24, "ok")>>,
   <<V6, Msg("pim", 8, 8, "ok")>>, <<V4, Esp, Raw(4)>>, <<V4, L2tp, Raw(6)>>,
   <<V4, Gre(Auto, NoField, FALSE), V6, T(9), Raw(4)>>,
   <<V4, Gre(Auto, Auto, TRUE), Erspan(1, FALSE), E4, V4, U(9), Raw(2)>>,
   <<V4, Gre(Exact(8939), NoField, TRUE), Erspan(2, TRUE), E4, Arp>>,
   <<V4, Etherip, E4, V4, U(9), Raw(2)>>,
   <<V4, U(4789), Vxlan, E4, V6, Icmp("icmpv6", Auto, 4)>>,
   <<V4, U(6081), Geneve(Auto, 8, TRUE), E4, Arp>>,
   <<V4, U(6635), Mpls(TRUE), V4, U(9), Raw(2)>>,
   <<E4, Mpls(FALSE), Mpls(TRUE), V6, T(9)>>,
   <<V4, U(2152), Gtpu({"S"}, FALSE, 0, TRUE, Auto, TRUE), V4, U(9), Raw(2)>>,
   <<V4, U(2152), Gtpu({"E"}, TRUE, 8, TRUE, Auto, TRUE), V6, T(9)>>,
   <<E4, Pppoe(0, Auto), Ppp(Auto), V4, U(9), Raw(2)>>,
   <<E4, Pppoe(0, Auto), Ppp(Auto), Msg("ppp_lcp", 8, 8, "ok")>>,
   <<Eth(Exact(34915)), Pppoe(9, Auto), Raw(8)>>,
   <<V4, U(5060), Msg("sip", 40, 40, "ok")>>, <<V4, U(5060), Msg("sip", 40, 40, "ok"), Raw(3)>>,
   <<V4, T(1883), Msg("mqtt", 4, 4, "ok"), Msg("mqtt", 2, 2, "ok"), Msg("mqtt", 2, 2, "ok")>>,
   <<V4, U(1812), Msg("radius", 20, 20, "ok"), Raw(2)>>}

\* Packets with exact, inconsistent or raw fields, or layers that do not belong together.
Odd ==
  {<<Eth(Exact(2048)), V6, U(9), Raw(4)>>, <<Eth(Exact(100)), Raw(4)>>,
   <<Eth(Exact(4)), Raw(4)>>,
   <<Eth(RawBytes(2048)), V4, U(9), Raw(4)>>, <<E4, Raw(4)>>, <<Eth(Exact(1600)), Raw(4)>>,
   <<E4, Ip4(Auto, Exact(60), 41, NoOptions), U(9), Raw(4)>>,
   <<E4, Ip4(Auto, Exact(30), 41, NoOptions), U(9), Raw(4)>>,
   <<E4, Ip4(Exact(6), Auto, 41, NoOptions), U(9), Raw(4)>>,
   <<Ip4(Exact(200), Auto, 41, NoOptions), Raw(4)>>, <<Ip4(Exact(17), Auto, 41, NoOptions)>>,
   <<Ip4(Auto, Auto, 41, [length |-> 7, route |-> 42]), U(9), Raw(4)>>,
   <<Ip4(Auto, Auto, 41, [length |-> 5, route |-> -1]), U(9), Raw(4)>>,
   <<[V4 EXCEPT !.more_fragments = TRUE], Raw(8)>>,
   <<[V4 EXCEPT !.fragment_offset = 4], U(9), Raw(4)>>,
   <<[V4 EXCEPT !.checksum = Exact(Bad)], U(9), Raw(4)>>,
   <<V4, Udp(7, 9, Exact(10), Auto), Raw(4)>>, <<V4, Udp(7, 9, Exact(30), Auto), Raw(4)>>,
   <<V4, Udp(7, 9, Auto, Exact(Zero)), Raw(4)>>, <<V6, Udp(7, 9, Auto, Exact(Zero)), Raw(4)>>,
   <<V4, Udp(7, 9, Auto, Exact(Bad)), Raw(4)>>, <<V4, U(4789), Raw(4)>>, <<V4, U(69), Raw(4)>>,
   <<V4, T(1883), Raw(4)>>, <<V4, T(80), Raw(4)>>, <<V4, U(9)>>, <<U(9), Raw(4)>>,
   <<V4, Sctp(Exact(Bad)), Chunks(8, "padded")>>, <<V4, Sctp(Auto), Chunks(8, "broken")>>,
   <<V4, Sctp(Auto)>>,
   <<V6, Hbh("ipv6_hop_by_hop", Auto, 6, TRUE), U(9), Raw(4)>>,
   <<Ip6(Auto, Exact(0), 61), Hbh("ipv6_hop_by_hop", Auto, 6, TRUE), U(9), Raw(4)>>,
   <<Ip6(Auto, Exact(8), 61), U(9), Raw(4)>>, <<Ip6(Exact(59), Auto, 61), Raw(4)>>,
   <<V6, Hbh("ipv6_destination_options", Auto, 3, FALSE), Raw(4)>>,
   <<V6, Frag6(Auto, 3, TRUE), Raw(8)>>, <<V6, Frag6(Auto, 0, TRUE), U(9), Raw(3)>>,
   <<Ip6(Auto, Auto, 61), Srh(Auto, <<62, 63>>, Exact(2), Auto, <<>>, 0), U(9), Raw(4)>>,
   <<Ip6(Auto, Auto, 61), Srh(Auto, <<62, 63>>, Exact(0), Exact(0), <<>>, 0), U(9), Raw(4)>>,
   <<Ip6(Auto, Auto, 0), Srh(Auto, <<62>>, Auto, Exact(1), <<64>>, 4), U(9), Raw(4)>>,
   <<Ip6(Auto, Auto, 0), Srh(Auto, <<62>>, Auto, Exact(3), <<>>, 0), U(9), Raw(4)>>,
   <<V4, Icmp("icmpv4", Exact(Bad), 4)>>, <<V4, Icmp("icmpv6", Auto, 4)>>,
   <<V6, Icmp("icmpv4", Auto, 4)>>,
   <<V4, Vrrp(2, 2, FALSE, 4, Exact(1))>>, <<V4, Vrrp(3, 1, FALSE, -1, Exact(9))>>,
   <<V6, Vrrp(2, 1, FALSE, -1, Auto)>>,
   <<V6, Vrrp(3, 0, FALSE, 8, Auto)>>, <<V4, Vrrp(4, 0, FALSE, -1, Auto)>>,
   <<V4, Gre(Exact(2048), NoField, FALSE), V6, T(9)>>,
   <<V4, Gre(Auto, Exact(Bad), FALSE), V4, U(9)>>,
   <<V4, Gre(Auto, NoField, FALSE), Erspan(1, FALSE), E4, Arp>>,
   <<V4, Gre(Auto, NoField, TRUE), Erspan(2, FALSE), E4, Arp>>,
   <<V4, U(6081), Geneve(Auto, 4, FALSE), V4, U(9)>>,
   <<V4, U(6081), Geneve(Exact(9), 0, TRUE), Raw(3)>>,
   <<E4, Mpls(FALSE), V4, U(9)>>, <<E4, Mpls(TRUE), Raw(3)>>,
   <<E4, Mpls(TRUE), Mpls(TRUE), V4, U(9)>>,
   <<V4, U(2152), Gtpu({"E"}, FALSE, 4, TRUE, Auto, TRUE), V4, U(9)>>,
   <<V4, U(2152), Gtpu({}, TRUE, 0, TRUE, Exact(2), FALSE), Raw(6)>>,
   <<V4, U(2152), Gtpu({"E"}, TRUE, 4, FALSE, Auto, TRUE), V4, U(9)>>,
   <<E4, Pppoe(0, Exact(3)), Ppp(Auto), V4, U(9)>>, <<E4, Pppoe(9, Auto), Raw(8)>>,
   <<E4, Pppoe(0, Auto)>>,
   <<Eth(Exact(34915)), Pppoe(0, Auto), Ppp(Auto), V4>>,
   <<E4, Pppoe(0, Auto), Ppp(Exact(33)), V6, U(9)>>,
   <<V4, Ah(Auto, 12, Auto), Icmp("icmpv6", Auto, 4)>>, <<V6, Ah(Auto, 8, Auto), U(9), Raw(4)>>,
   <<V4, Ah(Auto, 12, Exact(3)), U(9), Raw(4)>>, <<V4, Ah(Auto, 12, Exact(6)), U(9), Raw(4)>>,
   <<V6, Ah(Exact(1), 12, Auto), Raw(4)>>,
   <<V4, Esp, Raw(1)>>, <<V4, Esp, U(9)>>, <<V4, L2tp, V4, U(9)>>, <<V4, Etherip, V4, U(9)>>,
   <<E4, Eapol(1, Auto), Msg("eap", 8, 8, "ok")>>, <<E4, Eapol(0, Exact(2)), Raw(4)>>,
   <<E4, Eapol(0, Auto), Raw(4)>>,
   <<Bsd("bsd_null", 2, "big"), V4, U(9)>>, <<Bsd("bsd_null", 33554432, "big"), Raw(4)>>,
   <<Bsd("bsd_loop", 2, "big"), V6, T(9)>>,
   <<Bsd("bsd_null", 99, "little"), Raw(4)>>,
   <<E4, Llc(StpSaps, "u"), Raw(3)>>, <<E4, Llc(StpSaps, "ui"), Raw(3)>>,
   <<E4, Llc(7, "ui"), Stp("config", 0)>>,
   <<E4, Llc(StpSaps, "ui"), Stp("tcn", 2)>>,
   <<Eth(Exact(9)), Llc(StpSaps, "ui"), Stp("tcn", 0)>>,
   <<E4, Llc(SnapSaps, "ui"), Snap(9, Exact(2048)), V4, U(9)>>,
   <<E4, Llc(SnapSaps, "ui"), Snap(0, Exact(5)), Raw(4)>>,
   <<[Arp EXCEPT !.hardware_len = Exact(8)], Pad(3, 1)>>, <<E4, [Arp EXCEPT !.types = FALSE]>>,
   <<V4, U(9), Raw(4), Pad(3, 2), Pad(5, 1)>>, <<E4, V4, U(9), Raw(4), Pad(3, 0)>>,
   <<V4, U(9), Raw(4), Pad(3, 0)>>,
   <<V4, U(9), Raw(4), Pad(3, 1), Pad(5, 2)>>, <<V4, T(9), Raw(4), Pad(3, 2)>>,
   <<V4, U(5060), Msg("sip", 40, 50, "ok")>>, <<V4, U(5060), Msg("sip", 40, 30, "ok")>>,
   <<V4, U(5060), Msg("sip", 40, 40, "bad")>>,
   <<V4, T(1883), Msg("mqtt", 4, 4, "unsupported")>>,
   <<V4, T(1883), Msg("mqtt", 4, 4, "ok"), U(9)>>,
   <<V4, V6, V4, V4, U(9), Raw(1)>>, <<V4, V4, V4, V4, V4, V4, U(9), Raw(1)>>,
   <<Ip4(Auto, Auto, 0, NoOptions), U(9), Raw(4)>>, <<V4, Raw(4), U(9)>>,
   <<E4, V4, [p |-> "malformed", lo |-> 0, hi |-> 5, intended |-> "udp"]>>}

IdlePacket == <<E4, Arp>>

RootOf(P) == P[1].p

CodecCases ==
  {[packet |-> P, strict |-> mode[1], target |-> mode[2],
    root |-> IF RootOf(P) \in {"ipv4", "ipv6"} /\ mode[1] THEN "raw_ip" ELSE RootOf(P)]
     : P \in Plain \cup Odd, mode \in {<<TRUE, 0>>, <<FALSE, 0>>, <<FALSE, 42>>}}

WireExtras == {1, 6}

VARIABLES subject, x1, x2, x3, x4, x5, x6, x7, x8, x9, x10

PacketsVars == <<vars, subject, x1, x2, x3, x4, x5, x6, x7, x8, x9, x10>>

Slots == <<x1, x2, x3, x4, x5, x6, x7, x8, x9, x10>>

(* The slots a component does not use stay as they are. *)
After8 == <<x9, x10>>

Unused8 == x9 = 0 /\ x10 = 0

-----------------------------------------------------------------------------
(* Prefixes and suffixes of up to three bytes, in a storage that must move or grow. *)
Piece(n) == [n |-> n, at |-> [i \in 0..(n - 1) |-> n]]
BufferPieces == {Piece(n) : n \in 0..3}
BufferEstimates == {[payload |-> n, layers |-> n] : n \in 0..2}

Buffer == INSTANCE PacketBuffer WITH
  Pieces <- BufferPieces, Estimates <- BufferEstimates, Maxima <- {0, 5, 8},
  MINIMUM_CAPACITY <- 4, HEADER_ROOM <- 2, SUFFIX_ROOM <- 1, MAX_SHARED_SLACK <- 1,
  maximum <- x1, capacity <- x2, storage <- x3, start <- x4, end <- x5, state <- x6,
  length <- x7, content <- x8

-----------------------------------------------------------------------------
(* Capture files: one written from scratch, and fifteen selected, mapped, rewritten and merged. *)
LOCAL INSTANCE SequencesExt

Sh(order, n) == [type |-> "section", order |-> order, length |-> n, size |-> 28,
  damaged |-> FALSE]
Opt(code, n, order) == [code |-> code, size |-> n, order |-> order]
Idb(link, snap, tps, offset, options) ==
  [type |-> "interface", link |-> link, snap |-> snap, tps |-> tps, offset |-> offset,
   options |-> options, size |-> 32 + 12 * Len(options), damaged |-> FALSE]
Epb(id, ticks, n, data, flags) ==
  [type |-> "enhanced", id |-> id, ticks |-> ticks, captured |-> n, original |-> n + 1,
   data |-> data, flags |-> flags, size |-> 32 + ((n + 3) \div 4) * 4 + 12 * Len(flags),
   damaged |-> FALSE]
Spb(n, data) == [type |-> "simple", original |-> n, data |-> data,
                 size |-> 16 + ((n + 3) \div 4) * 4, damaged |-> FALSE]
Isb(id) == [type |-> "statistics", id |-> id, size |-> 24, damaged |-> FALSE]
CustomBlock == [type |-> "custom", size |-> 16, damaged |-> FALSE]
FlagsWord(v, order) == <<[value |-> v, order |-> order]>>
SectionOf(order, blocks) == <<Sh(order, <<FoldLeft(LAMBDA n, b : n + b.size, 0,
  blocks)>>)>> \o blocks
PcapHeader(tps, fcs) == [type |-> "pcap", order |-> "big", link |-> 1, snap |-> 6,
  tps |-> tps,
              offset |-> 0, fcs |-> fcs, size |-> 24, damaged |-> FALSE]
PcapRecord(s, f, n, data) == [type |-> "record", seconds |-> s, fraction |-> f,
  captured |-> n,
              original |-> n, data |-> data, size |-> 16 + n, damaged |-> FALSE]
PlainFile == <<Sh("little", <<>>), Idb(1, 8, 10, 0, <<>>), Epb(0, 12, 4, 1, <<>>), Isb(0),
           Epb(0, 25, 5, 2, FlagsWord(1, "little")), Epb(0, 25, 1, 3, <<>>)>>
Sectioned == SectionOf("little", <<Idb(1, 0, 4, 1, <<Opt("if_speed", 8, "little")>>),
                                 Epb(0, 2, 3, 4, FlagsWord(2, "little"))>>)
          \o SectionOf("big", <<Idb(2, 8, 10, -1, <<Opt("if_speed", 8, "big"),
            Opt("if_tsoffset", 8, "big")>>),
                              Epb(0, 22, 3, 5, FlagsWord(2, "big")), CustomBlock, Epb(0, 35,
                                3, 6, <<>>)>>)
Classic == <<PcapHeader(1, FALSE), PcapRecord(1, 0, 4, 7), PcapRecord(2, 0, 6, 8)>>
FcsFile == <<Sh("little", <<>>), Idb(1, 8, 10, 0, <<Opt("if_fcslen", 1, "little")>>), Epb(0,
  12, 4, 1, <<>>)>>
Unsorted == <<Sh("big", <<>>), Idb(1, 8, 10, 0, <<>>), Epb(0, 12, 4, 9, <<>>),
           Epb(0, 30, 1, 10, <<>>), Epb(0, 20, 1, 11, <<>>), Epb(0, 25, 1, 12, <<>>)>>
SimpleFile == <<Sh("big", <<>>), Idb(1, 2, 10, 0, <<>>), Spb(3, 13), Epb(0, 12, 2, 14,
  FlagsWord(3, "big"))>>
CrossingFile == <<Sh("little", <<48>>), Idb(1, 8, 10, 0, <<>>), Epb(0, 12, 4, 1, <<>>)>>
EarlyFile == <<Sh("little", <<100>>), Idb(1, 8, 10, 0, <<>>), Epb(0, 12, 4, 1, <<>>)>>
SparseFile == <<Sh("little", <<>>), CustomBlock, Idb(1, 8, 10, 0, <<>>), Epb(0, 12, 4, 1, <<>>),
  CustomBlock, CustomBlock, Epb(0, 13, 4, 2, <<>>), CustomBlock>>
ForeignFile == <<Sh("little", <<>>), Idb(1, 8, 100, 0, <<>>), Epb(0, 120, 4, 1, <<>>),
  Sh("little", <<>>), Epb(0, 12, 4, 1, <<>>)>>
Subnano == <<Sh("little", <<>>), Idb(1, 8, 100, 0, <<>>), Epb(0, 120, 4, 1, <<>>), Epb(0,
  125, 4, 1, <<>>)>>
CutFile == PlainFile \o <<[type |-> "torn", size |-> 12, damaged |-> TRUE]>>
Singles == {PlainFile, Sectioned, Classic, FcsFile, Unsorted, SimpleFile, CrossingFile, EarlyFile,
  SparseFile, ForeignFile, Subnano, CutFile, Classic \o <<PcapRecord(3, 1, 1, 1)>>, <<>>,
  PlainFile \o Sectioned}
WritePlan == [op |-> "write", pcap |-> FALSE, faulty |-> TRUE, order |-> "little",
  files |-> <<>>, sequence |-> "Append", reorder |-> 0, growth |-> 0, max_interfaces |-> 3]
FilePlans == {WritePlan, [WritePlan EXCEPT !.pcap = TRUE]}
  \cup {[WritePlan EXCEPT !.op = op, !.files = <<f>>, !.growth = g,
    !.faulty = FALSE] : op \in {"select", "rewrite", "map"}, g \in {0, 2}, f \in Singles}
  \cup {[WritePlan EXCEPT !.op = "merge", !.files = fs, !.sequence = s,
    !.reorder = r] : fs \in {<<f, g>> : f, g \in Singles}, s \in {"Append",
    "Chronological"}, r \in {0, 2}}
DescriptionOf(link, snap, tps, off) == [link |-> link, snap_len |-> snap, tps |-> tps,
  offset |-> off]
FileDescriptions == {[interface |-> DescriptionOf(1, 8, 4, 0), options |-> <<>>],
  [interface |-> DescriptionOf(1, 0, 10, 1), options |-> <<Opt("name", 4, "little")>>],
   [interface |-> DescriptionOf(2, 8, 100, -1), options |-> <<>>],
     [interface |-> DescriptionOf(1, 8, 4, 0), options |-> <<Opt("if_tsresol", 1,
     "little")>>]}
FrameOf(link, n, t, i, dir, data) == [link |-> link, captured |-> n, original |-> n,
  time |-> t, interface |-> i, direction |-> dir, data |-> data]
FileFrames == {FrameOf(1, 4, <<15>>, <<>>, "none", 1), FrameOf(2, 3, <<13>>, <<>>,
  "inbound", 2), FrameOf(1, 8, <<20>>, <<0>>, "unknown", 3), FrameOf(2, 1, <<>>, <<>>,
  "none", 4), FrameOf(2, 1, <<-3>>, <<1>>, "none", 5)}

Files == INSTANCE CaptureFiles WITH
  Plans <- FilePlans, Descriptions <- FileDescriptions, WriterFrames <- FileFrames,
  Nanos <- 10, MaxTicks <- 1000, MaxWrites <- 3, max_size <- 56, max_frames <- 8,
  max_bytes <- 40, max_interfaces <- 2, max_interfaces_per_section <- 2,
  max_total_interfaces <- 3, max_metadata_blocks_per_frame <- 3,
  max_metadata_bytes_per_frame <- 200, max_options_per_block <- 2, plan <- x1,
  readers <- x2, sources <- x3, advancing <- x4, output <- x5, budget <- x6,
  kept <- x7, result <- x8

-----------------------------------------------------------------------------
(* The files of a live capture: rings and stopping sets of up to three, rotated by size and by time. *)
Rotations ==
  {[rotate_bytes |-> b, rotate_after |-> a, max_files |-> n, retention |-> r]
     : b \in {<<>>, <<6>>, <<7>>, <<1>>}, a \in {<<>>, <<2>>}, n \in 0..3,
       r \in {"Ring", "Stop"}}

Ring == INSTANCE CaptureRing WITH
  RingOptions <- Rotations, FrameSizes <- {2, 3, 6}, HEADER <- 2, RingFrames <- 6,
  RingElapsed <- 3, RingMaxFrames <- 5, RingMaxBytes <- 20, options <- x1,
  phase <- x2, slots <- x3, active <- x4, generation <- x5, budget <- x6,
  discarded <- x7, last_elapsed <- x8, stopped <- x9, delivered <- x10

-----------------------------------------------------------------------------
(* PacketCodec: its variables are its own. *)
AllUnused == x1 = 0 /\ x2 = 0 /\ x3 = 0 /\ x4 = 0 /\ x5 = 0 /\ x6 = 0 /\ x7 = 0 /\ x8 = 0 /\ x9 = 0 /\
  x10 = 0

PacketsInit ==
  /\ Init
  /\ \/ subject = "codec" /\ AllUnused
     \/ subject = "buffer" /\ packet = IdlePacket /\ strict /\ Buffer!Init /\ Unused8
     \/ subject = "files" /\ packet = IdlePacket /\ strict /\ Files!Init /\ Unused8
     \/ subject = "ring" /\ packet = IdlePacket /\ strict /\ Ring!Init

BufferStep == subject = "buffer" /\ Buffer!Next /\ UNCHANGED subject /\ UNCHANGED vars /\ UNCHANGED After8
FilesStep == subject = "files" /\ Files!Next /\ UNCHANGED subject /\ UNCHANGED vars /\ UNCHANGED After8
RingStep == subject = "ring" /\ Ring!Next /\ UNCHANGED subject /\ UNCHANGED vars

CodecStep == subject = "codec" /\ Next /\ UNCHANGED subject /\ UNCHANGED Slots

PacketsNext == CodecStep \/ BufferStep \/ FilesStep \/ RingStep

PacketsSpec == PacketsInit /\ [][PacketsNext]_PacketsVars

-----------------------------------------------------------------------------
ASSUME Limits == Buffer!BufferAssumption /\ Ring!RingAssumption

\* Every byte has one place: a received frame is covered by the decoded layers, in order and
\* without gaps, and no codec hands the session a cursor outside its input (PacketCodec); the
\* buffer a packet is built in holds exactly what was wrapped into it (PacketBuffer).
BytesPlaced ==
  CASE subject = "codec" -> CoverageExact
    [] subject = "buffer" -> Buffer!BufferExact
    [] OTHER -> TRUE

\* Capture files hold what they were given: what the writer accepted, a selection, a mapping and
\* a merge read back as the frames they were made of, in order and under their interfaces
\* (CaptureFiles), and a rotated set of files keeps or counts every frame and stays within its
\* number of files (CaptureRing).
FilesFaithful ==
  CASE subject = "files" -> Files!CapturesFaithful
    [] subject = "ring" -> Ring!RingExact
    [] OTHER -> TRUE
=============================================================================
