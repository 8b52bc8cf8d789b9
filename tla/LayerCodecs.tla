---------------------------- MODULE LayerCodecs -----------------------------
(***************************************************************************)
(* The registry of the built-in protocols, and what the codecs of          *)
(* protocol/ share (codec.rs, field.rs, protocol/common/).                 *)
(*                                                                         *)
(* A layer is a record: its protocol p and the fields that steer encoding  *)
(* or decoding; the fields a codec copies to the wire and back unchanged   *)
(* are left out.  A WireValue is automatic, exact, or raw bytes (misfit:   *)
(* raw bytes of the wrong width).  Encoding a layer yields a header record *)
(* and its length; an opaque layer is bytes lo..hi-1 of the frame it came  *)
(* from.                                                                   *)
(*                                                                         *)
(* An encoder's answer is refused when it fails in both modes and suspect  *)
(* when it raises what strict_or_diagnostic turns into an error in strict  *)
(* mode and into a warning in permissive mode.                             *)
(*                                                                         *)
(* The encode context c: child and binds (the child's protocol, and the    *)
(* one a malformed child stands for), len and covered (the payload, with   *)
(* and without the padding outside this layer), parent and parentType (the *)
(* enclosing layer and its discriminator field), net (the network          *)
(* envelope), under6 (the IP version above), room (what the packet limit   *)
(* leaves).                                                                *)
(***************************************************************************)
EXTENDS Integers, Sequences, FiniteSets

LOCAL INSTANCE FiniteSetsExt
LOCAL INSTANCE Functions
LOCAL INSTANCE SequencesExt

-----------------------------------------------------------------------------
(* The table of built-in protocols and the bindings between them           *)
(* (protocol/catalog.rs, protocol/builtin/bindings.rs, registry/).  A      *)
(* binding says that, under a parent, one discriminator value selects one  *)
(* child.  The dissector reads it forwards and the builder backwards.      *)
(* Discriminators are the numbers of the source; the BSD families that     *)
(* family_discriminator moves above the 32-bit range are negative here.    *)

VARIABLE registry  \* the Arc<Registry> that builder and dissector share

\* Priority::Primary, Secondary and Fallback by rank.
Primary == 100
Secondary == 90
Fallback == -100

Under(parents, children) ==
  {<<p, c[1], c[2], c[3]>> : p \in parents, c \in children}

LinkParents == {"ethernet", "vlan", "vlan8021ad"}

LinkChildren ==
  {<<2048, "ipv4", Primary>>, <<2054, "arp", Primary>>, <<33024, "vlan", Primary>>,
   <<34887, "mpls", Primary>>, <<34888, "mpls", Secondary>>,
   <<34916, "pppoe", Primary>>, <<34915, "pppoe", Secondary>>,
   <<34958, "eapol", Primary>>, <<34984, "vlan8021ad", Primary>>,
   <<35020, "lldp", Primary>>, <<34825, "lacp", Primary>>,
   <<34525, "ipv6", Primary>>, <<0, "raw", Fallback>>}

LlcFrame == 65536
SnapSaps == 43690
StpSaps == 16962
CdpSnap == 794624

LinkBindings ==
  Under(LinkParents \cup {"snap", "linux_sll", "linux_sll2"}, LinkChildren)
    \cup Under(LinkParents, {<<LlcFrame, "llc", Primary>>})
    \cup Under({"llc"}, {<<SnapSaps, "snap", Primary>>, <<StpSaps, "stp", Primary>>,
                         <<0, "raw", Fallback>>})
    \cup Under({"bsd_null", "bsd_loop"},
               {<<4, "ipv4", Primary>>, <<6, "ipv6", Primary>>, <<0, "raw", Fallback>>})

NoNextHeader == 59
Reserved == 255
Routing == 43

CommonIpChildren ==
  {<<4, "ipv4", Primary>>, <<6, "tcp", Primary>>, <<17, "udp", Primary>>,
   <<41, "ipv6", Primary>>, <<47, "gre", Primary>>, <<50, "esp", Primary>>,
   <<51, "ah", Primary>>, <<97, "etherip", Primary>>, <<112, "vrrp", Primary>>,
   <<103, "pim", Primary>>, <<115, "l2tpv3", Primary>>, <<132, "sctp", Primary>>,
   <<137, "mpls", Primary>>, <<143, "ethernet", Primary>>, <<Reserved, "raw", Fallback>>}

IpChildren ==
  CommonIpChildren \cup {<<1, "icmpv4", Primary>>, <<2, "igmp", Primary>>,
                         <<89, "ospfv2", Primary>>}

Ipv6Children ==
  CommonIpChildren \cup {<<58, "icmpv6", Primary>>, <<89, "ospfv3", Primary>>,
                         <<NoNextHeader, "malformed", Primary>>}

Ipv6Extensions ==
  {<<Routing, "ipv6_srh", Primary>>, <<44, "ipv6_fragment", Primary>>,
   <<60, "ipv6_destination_options", Primary>>}

ExtensionHeaders ==
  {"ipv6_hop_by_hop", "ipv6_destination_options", "ipv6_fragment", "ipv6_srh"}

IpBindings ==
  Under({"ipv4"}, IpChildren)
    \cup Under({"ipv6"} \cup ExtensionHeaders, Ipv6Children \cup Ipv6Extensions)
    \cup Under({"ipv6"}, {<<0, "ipv6_hop_by_hop", Primary>>})
    \cup Under({"ah"}, IpChildren \cup Ipv6Extensions
                 \cup {<<58, "icmpv6", Primary>>, <<NoNextHeader, "malformed", Primary>>,
                       <<256 + 89, "ospfv3", Primary>>})

TunnelBindings ==
  Under({"esp", "l2tpv3"}, {<<0, "raw", Fallback>>})
    \cup Under({"gre"}, LinkChildren \cup {<<25944, "ethernet", Primary>>,
                 <<35006, "erspan", Primary>>, <<8939, "erspan", Secondary>>})
    \cup Under({"erspan", "vxlan", "etherip"}, {<<0, "ethernet", Primary>>})
    \cup Under({"udp"}, {<<4789, "vxlan", Primary>>, <<2152, "gtpu", Primary>>,
                 <<6635, "mpls", Primary>>, <<6081, "geneve", Primary>>})
    \cup Under({"gtpu"}, {<<256 + 4, "ipv4", Primary>>, <<256 + 6, "ipv6", Primary>>,
                 <<0, "raw", Fallback>>})
    \cup Under({"geneve"}, {<<25944, "ethernet", Primary>>, <<2048, "ipv4", Primary>>,
                 <<34525, "ipv6", Primary>>, <<0, "raw", Fallback>>})
    \cup Under({"pppoe"}, {<<0, "ppp", Primary>>, <<1, "raw", Fallback>>})
    \cup Under({"ppp"}, {<<33, "ipv4", Primary>>, <<87, "ipv6", Primary>>,
                 <<0, "raw", Fallback>>})
    \cup Under({"mpls"}, {<<0, "mpls", Primary>>, <<256 + 4, "ipv4", Primary>>,
                 <<256 + 6, "ipv6", Primary>>, <<1, "raw", Fallback>>})

UpperBindings ==
  Under({"udp", "tcp", "sctp", "http", "dns", "tls", "eapol"}, {<<0, "raw", Fallback>>})
    \cup Under({"arp"}, {<<0, "padding", Fallback>>})
    \cup Under({"eapol"}, {<<256, "eap", Primary>>})
    \cup Under({"snap"}, {<<CdpSnap, "cdp", Primary>>})
    \cup Under({"ppp"}, {<<49185, "ppp_lcp", Primary>>, <<32801, "ppp_ipcp", Primary>>,
                 <<32855, "ppp_ipv6cp", Primary>>, <<49703, "eap", Primary>>})

\* The message protocols of the catalogue, with their framing over TCP.
StreamMessages ==
  {"amqp", "bgp", "dnp3", "ethernet_ip", "iec104", "ipfix", "ldap", "memcached",
   "modbus_tcp", "mqtt", "opcua_tcp", "resp", "rtsp", "sip", "stun"}

DatagramMessages ==
  {"bacnet_ip", "cdp", "coap", "dtls", "eap", "lacp", "netflowv5", "ospfv2", "ospfv3", "pim",
   "ppp_ipcp", "ppp_ipv6cp", "ppp_lcp", "radius", "ripng", "ripv2", "rtcp", "rtp", "sflow",
   "snmp", "ssdp"}

OpaqueTail == 1

MessageBindings ==
  {<<p, 0, p, Primary>> : p \in StreamMessages}
    \cup {<<p, OpaqueTail, "raw", Primary>> : p \in StreamMessages}
    \cup {<<p, 0, "raw", Primary>> : p \in DatagramMessages}

TcpPorts ==
  {<<5672, "amqp">>, <<179, "bgp">>, <<20000, "dnp3">>, <<53, "dns">>,
   <<44818, "ethernet_ip">>, <<80, "http">>, <<8080, "http">>, <<2404, "iec104">>,
   <<4739, "ipfix">>, <<389, "ldap">>, <<11211, "memcached">>, <<502, "modbus_tcp">>,
   <<1883, "mqtt">>, <<4840, "opcua_tcp">>, <<6379, "resp">>, <<554, "rtsp">>,
   <<5060, "sip">>, <<3478, "stun">>, <<443, "tls">>, <<465, "tls">>, <<636, "tls">>,
   <<853, "tls">>, <<993, "tls">>, <<995, "tls">>, <<8443, "tls">>}

UdpPorts ==
  {<<47808, "bacnet_ip">>, <<5683, "coap">>, <<67, "dhcpv4">>, <<68, "dhcpv4">>,
   <<546, "dhcpv6">>, <<547, "dhcpv6">>, <<20000, "dnp3">>, <<53, "dns">>, <<5353, "dns">>,
   <<5355, "dns">>, <<44818, "ethernet_ip">>, <<4739, "ipfix">>, <<2055, "netflowv5">>,
   <<123, "ntp">>, <<1812, "radius">>, <<1813, "radius">>, <<521, "ripng">>, <<520, "ripv2">>,
   <<6343, "sflow">>, <<5060, "sip">>, <<161, "snmp">>, <<162, "snmp">>, <<1900, "ssdp">>,
   <<3478, "stun">>, <<514, "syslog">>, <<69, "tftp">>}

PortBindings ==
  {<<"tcp", b[1], b[2], Primary>> : b \in TcpPorts}
    \cup {<<"udp", b[1], b[2], Primary>> : b \in UdpPorts}

Bindings ==
  LinkBindings \cup IpBindings \cup TunnelBindings \cup UpperBindings
    \cup MessageBindings \cup PortBindings

BoundParents == {b[1] : b \in Bindings}

NoProtocol == "none"

\* The forward table (Registry::bindings); the bindings of one parent are a function
\* of the discriminator because Builder::build refuses two children under one value.
ChildTable ==
  [p \in BoundParents |->
     LET mine == {b \in Bindings : b[1] = p}
     IN  [d \in {b[2] : b \in mine} |-> (CHOOSE b \in mine : b[2] = d)[3]]]

\* The reverse table: highest priority first, then the lowest discriminator.
ReverseTable ==
  [p \in BoundParents |->
     LET mine == {b \in Bindings : b[1] = p}
     IN  [c \in {b[3] : b \in mine} |->
            LET best == {b \in mine : b[3] = c /\ \A o \in mine : o[3] = c => o[4] <= b[4]}
            IN  Min({b[2] : b \in best})]]

BuiltinRegistry == [children |-> ChildTable, discriminators |-> ReverseTable]

child_for(parent, d) ==
  IF parent \in DOMAIN registry.children /\ d \in DOMAIN registry.children[parent]
  THEN registry.children[parent][d]
  ELSE NoProtocol

\* The first candidate that is bound, or no discriminator at all.
first_child_for(parent, candidates) ==
  LET bound == {i \in DOMAIN candidates : child_for(parent, candidates[i]) # NoProtocol}
  IN  IF bound = {} THEN [found |-> FALSE, child |-> NoProtocol, discriminator |-> 0]
      ELSE LET d == candidates[Min(bound)]
           IN  [found |-> TRUE, child |-> child_for(parent, d), discriminator |-> d]

discriminator_for(parent, child) ==
  IF parent \in DOMAIN registry.discriminators /\ child \in DOMAIN registry.discriminators[parent]
  THEN [found |-> TRUE, value |-> registry.discriminators[parent][child]]
  ELSE [found |-> FALSE, value |-> 0]

allows_trailing_padding(p) ==
  p \in LinkParents \cup {"bsd_null", "bsd_loop", "linux_sll", "linux_sll2"}

is_encapsulation_boundary(p) ==
  p \in {"erspan", "etherip", "geneve", "gre", "gtpu", "vxlan"}

preserves_opaque_bytes(p) == p \in {"raw", "padding", "malformed"}

is_ipv6_extension(p) == p \in ExtensionHeaders \cup {"ah"}

stream_decode(p) == p \in StreamMessages

\* The root protocol of each link type with one (LinkType::BUILTIN_ROOTS).
LinkRoots ==
  [null |-> "bsd_null", ethernet |-> "ethernet", raw |-> "raw_ip", loop |-> "bsd_loop",
   linux_sll |-> "linux_sll", ipv4 |-> "ipv4", ipv6 |-> "ipv6", linux_sll2 |-> "linux_sll2"]

-----------------------------------------------------------------------------
(* Values, lengths and checksums of a layer. *)

U8 == 255
U16 == 65535

Auto == [kind |-> "auto", value |-> 0]
Exact(v) == [kind |-> "exact", value |-> v]
RawBytes(v) == [kind |-> "raw", value |-> v]

\* ValueExpectation: a required value is checked against an exact one.
Required(v) == [required |-> TRUE, value |-> v]
Suggested(v) == [required |-> FALSE, value |-> v]

Resolved(w, e) == IF w.kind = "auto" THEN e.value ELSE w.value

Inconsistent(w, e) ==
  \/ w.kind = "raw"
  \/ w.kind = "exact" /\ e.required /\ w.value # e.value

Misfit(w) == w.kind = "misfit"

expected_discriminator(p, c, fallback, w, max) ==
  LET known == discriminator_for(p, c.binds)
      fits == known.found /\ known.value \in 0..max
  IN  CASE c.child = NoProtocol -> Suggested(fallback)
        [] w.kind = "exact" /\ c.child # "raw" /\ child_for(p, w.value) = c.binds
             -> Required(w.value)
        [] OTHER -> IF ~fits THEN Suggested(fallback)
                    ELSE IF c.child = "raw" THEN Suggested(known.value)
                    ELSE Required(known.value)

\* A discriminator bound to a typed child needs that child behind it.
validate_raw_child_discriminator(p, d, c) ==
  LET bound == child_for(p, d)
  IN  /\ bound \notin {NoProtocol, "raw"}
      /\ ~(c.child \notin {NoProtocol, "padding", "raw"} /\ c.binds = bound)
      /\ ~(bound = "malformed" /\ c.child \in {NoProtocol, "padding"})

\* A typed child needs a discriminator the dissector would follow.
validate_typed_child_discriminator(p, d, c) ==
  /\ c.child # NoProtocol /\ ~preserves_opaque_bytes(c.child)
  /\ child_for(p, d) \in {NoProtocol, "raw"}

validate_auto_raw_discriminator(w, c) == w.kind = "auto" /\ c.child = "raw"

\* resolve_u16_discriminator: the value, and whether any of its three checks objects.
resolve_u16_discriminator(p, w, c) ==
  LET e == expected_discriminator(p, c, 0, w, U16)
      v == Resolved(w, e)
  IN  [value |-> v,
       suspect |-> \/ validate_auto_raw_discriminator(w, c)
                   \/ Inconsistent(w, e)
                   \/ validate_raw_child_discriminator(p, v, c)]

validate_ipv6_routing_child(d, c) == d = Routing /\ c.child = "raw"

zero_pad_to_four_bytes(n) == ((n + 3) \div 4) * 4

Emitted(refused, suspect, header, length) ==
  [refused |-> refused, suspect |-> suspect, header |-> header, length |-> length]

Refused == Emitted(TRUE, TRUE, [p |-> NoProtocol], 0)

\* The envelope a checksum covers: an IP version and the destination.  NoNet: none;
\* Bad: a checksum that fits no envelope; Zero: the omitted one of UDP.
Net(version, destination) == [version |-> version, destination |-> destination]
NoNet == Net(0, 0)
Bad == Net(-1, 0)
Zero == Net(-2, 0)

\* A decoder's answer: failed, or a layer, the bytes it consumed, its payload, the
\* discriminators to try, whether it ends the chain, and the network it opens.
Fails == [ok |-> FALSE]

Reads(layer, consumed, payload, next, stop) ==
  [ok |-> TRUE, layer |-> layer, consumed |-> consumed, payload |-> payload, next |-> next,
   stop |-> stop, net |-> NoNet]

ReadsNetwork(layer, consumed, payload, next, stop, net) ==
  [Reads(layer, consumed, payload, next, stop) EXCEPT !.net = net]

Terminal(layer, consumed) == Reads(layer, consumed, 0, <<>>, TRUE)

-----------------------------------------------------------------------------
(***************************************************************************)
(* The codecs of the link layer and of capture headers (protocol/link/,    *)
(* protocol/capture/) and of the opaque layers (layer/opaque.rs).  An      *)
(* encoder takes the layer and the encode context, a decoder the header it *)
(* finds and the bytes left in its cursor.                                 *)
(***************************************************************************)
MaxFrameLength == 1500
RawFallback == MaxFrameLength + 1

(* Ethernet and VLAN: a type from 0x600, an 802.3 length up to 1500.       *)

link_payload_selection(type, available) ==
  IF type > MaxFrameLength
  THEN [ok |-> TRUE, payload |-> available, next |-> <<type>>]
  ELSE [ok |-> type <= available, payload |-> type,
        next |-> IF type = 0 THEN <<>> ELSE <<LlcFrame>>]

link_type_expectation(p, c, w) ==
  IF c.binds = "llc" THEN Required(c.covered)
  ELSE IF w.kind = "auto" /\ c.child = "raw" THEN Suggested(RawFallback)
  ELSE expected_discriminator(p, c, 0, w, U16)

validate_link_length_form(type, c) ==
  ~(type > MaxFrameLength \/ (type = 0 /\ c.covered = 0) \/ c.binds = "llc")

resolve_ether_type(p, w, c) ==
  LET e == link_type_expectation(p, c, w)
      type == Resolved(w, e)
  IN  [value |-> type,
       refused |-> Misfit(w) \/ (c.binds = "llc" /\ c.covered > MaxFrameLength),
       suspect |-> \/ validate_auto_raw_discriminator(w, c)
                   \/ Inconsistent(w, e)
                   \/ validate_link_length_form(type, c)
                   \/ validate_raw_child_discriminator(p, type, c)]

EthernetEncode(l, c) ==
  LET t == resolve_ether_type(l.p, l.ether_type, c)
  IN  Emitted(t.refused, t.suspect, [p |-> l.p, ether_type |-> t.value], 14)

EthernetDecode(h, avail) ==
  LET s == link_payload_selection(h.ether_type, avail - 14)
  IN  IF avail < 14 \/ ~s.ok THEN Fails
      ELSE Reads([h EXCEPT !.ether_type = Exact(@)], 14, s.payload, s.next, s.payload = 0)

\* encode_vlan and decode_vlan serve both tags.
encode_vlan(l, c) ==
  LET t == resolve_ether_type(l.p, l.ether_type, c)
  IN  Emitted(t.refused \/ l.vlan_id > 4095, t.suspect,
              [p |-> l.p, ether_type |-> t.value, vlan_id |-> l.vlan_id], 4)

decode_vlan(h, avail) ==
  LET s == link_payload_selection(h.ether_type, avail - 4)
  IN  IF avail < 4 \/ ~s.ok THEN Fails
      ELSE Reads([h EXCEPT !.ether_type = Exact(@)], 4, s.payload, s.next, s.payload = 0)

(* LLC and SNAP.  The control field is abstracted to its format: "ui" (an   *)
(* unnumbered-information frame), "u" (another one-byte format), "i" (two   *)
(* bytes), "bad" (a length its format does not have).                       *)

ControlLength(l) == IF l.control = "i" THEN 2 ELSE 1

LlcEncode(l, c) ==
  Emitted(l.control = "bad",
          IF l.control = "ui"
          THEN \/ validate_raw_child_discriminator("llc", l.saps, c)
               \/ validate_typed_child_discriminator("llc", l.saps, c)
          ELSE c.child # NoProtocol /\ ~preserves_opaque_bytes(c.child),
          l, 2 + ControlLength(l))

LlcDecode(h, avail) ==
  LET length == 2 + ControlLength(h)
  IN  IF avail < length THEN Fails
      ELSE Reads(h, length, avail - length,
                 IF h.saps # 0 /\ h.control = "ui" THEN <<h.saps, 0>> ELSE <<0>>,
                 avail = length)

snap_discriminator(oui, id) == IF oui = 0 THEN id ELSE oui * 65536 + id

SnapEncode(l, c) ==
  LET e == IF l.oui = 0 THEN expected_discriminator("snap", c, 0, l.protocol_id, U16)
           ELSE Suggested(0)
      id == Resolved(l.protocol_id, e)
      d == snap_discriminator(l.oui, id)
  IN  Emitted(Misfit(l.protocol_id) \/ (l.oui # 0 /\ l.protocol_id.kind = "auto"),
              \/ validate_auto_raw_discriminator(l.protocol_id, c)
              \/ Inconsistent(l.protocol_id, e)
              \/ validate_raw_child_discriminator("snap", d, c)
              \/ validate_typed_child_discriminator("snap", d, c),
              [l EXCEPT !.protocol_id = id], 5)

SnapDecode(h, avail) ==
  IF avail < 5 THEN Fails
  ELSE Reads([h EXCEPT !.protocol_id = Exact(@)], 5, avail - 5,
             <<snap_discriminator(h.oui, h.protocol_id)>>, avail = 5)

(* ARP: types says whether it names Ethernet and IPv4.                      *)

ArpEncode(l, c) ==
  Emitted(Misfit(l.hardware_len) \/ Misfit(l.protocol_len),
          \/ ~l.types
          \/ Inconsistent(l.hardware_len, Required(6))
          \/ Inconsistent(l.protocol_len, Required(4)),
          [l EXCEPT !.hardware_len = Resolved(@, Required(6)),
                    !.protocol_len = Resolved(@, Required(4))], 28)

ArpDecode(h, avail) ==
  IF avail < 28 \/ ~h.types \/ h.hardware_len # 6 \/ h.protocol_len # 4 THEN Fails
  ELSE Terminal([h EXCEPT !.hardware_len = Exact(@), !.protocol_len = Exact(@)], 28)

(* Spanning tree: bpdu is the type, rapidFlags whether a flag that only a   *)
(* rapid configuration BPDU has is set, v1 whether version_1_length is zero.*)

StpLength(bpdu) ==
  CASE bpdu = "config" -> 35 [] bpdu = "rst" -> 36 [] OTHER -> 4

StpProblems(l) ==
  \/ l.protocol_id # 0
  \/ CASE l.bpdu \in {"config", "tcn"} -> l.version # 0
       [] l.bpdu = "rst" -> l.version < 2
       [] OTHER -> TRUE
  \/ l.rapidFlags /\ (l.bpdu = "config" \/ (l.bpdu = "rst" /\ l.version < 2))
  \/ l.bpdu = "rst" /\ ~l.v1

\* Fields the BPDU type does not carry are not written.
StpEncode(l, c) ==
  Emitted(FALSE, StpProblems(l),
          [l EXCEPT !.rapidFlags = @ /\ l.bpdu \in {"config", "rst"},
                    !.v1 = @ \/ l.bpdu # "rst"],
          StpLength(l.bpdu))

StpDecode(h, avail) ==
  IF avail < StpLength(h.bpdu) THEN Fails ELSE Terminal(h, StpLength(h.bpdu))

(* EAPOL.                                                                   *)

EapolEncode(l, c) ==
  Emitted(Misfit(l.length) \/ c.covered > U16,
          \/ c.child = "eap" /\ l.packet_type # 0
          \/ Inconsistent(l.length, Required(c.covered)),
          [l EXCEPT !.length = Resolved(@, Required(c.covered))], 4)

EapolDecode(h, avail) ==
  IF avail < 4 \/ avail - 4 < h.length THEN Fails
  ELSE Reads([h EXCEPT !.length = Exact(@)], 4, h.length,
             IF h.length = 0 THEN <<>> ELSE <<256 + h.packet_type, 0>>, h.length = 0)

(* BSD loopback.  A family is its number in host order; Swapped gives the   *)
(* number its four bytes spell in the other order.                          *)

IPv6Families == {10, 24, 28, 30}

Swapped(f) == IF f < 256 THEN f * 16777216 ELSE f \div 16777216

family_discriminator(f) ==
  CASE f = 0 -> 0 [] f = 2 -> 4 [] f \in IPv6Families -> 6 [] OTHER -> -f

validate_family_binding(p, f, c) ==
  LET d == family_discriminator(f)
      known == discriminator_for(p, c.binds)
  IN  \/ validate_raw_child_discriminator(p, d, c)
      \/ c.child \notin {NoProtocol, "raw"} /\ known.found /\ known.value # d

\* The header holds the big-endian reading of the four bytes.
BsdEncode(l, c) ==
  Emitted(FALSE, validate_family_binding(l.p, l.family, c),
          [p |-> l.p, big |-> IF l.p = "bsd_null" /\ l.byte_order = "little"
                              THEN Swapped(l.family) ELSE l.family], 4)

decode_family(h, avail) ==
  LET little == Swapped(h.big)
      null == h.p = "bsd_null"
      byLittle == null /\ little \in {2} \cup IPv6Families
      family == IF byLittle THEN little ELSE h.big
  IN  IF avail < 4 THEN Fails
      ELSE Reads([p |-> h.p, family |-> family,
                  byte_order |-> IF byLittle THEN "little" ELSE "big"],
                 4, avail - 4, <<family_discriminator(family)>>, avail = 4)

(* Linux cooked capture.                                                    *)

SllLength(p) == IF p = "linux_sll" THEN 16 ELSE 20

SllEncode(l, c) ==
  LET t == resolve_u16_discriminator(l.p, l.protocol, c)
  IN  Emitted(Misfit(l.protocol), t.suspect, [p |-> l.p, protocol |-> t.value],
              SllLength(l.p))

SllDecode(h, avail) ==
  LET length == SllLength(h.p)
  IN  IF avail < length THEN Fails
      ELSE Reads([h EXCEPT !.protocol = Exact(@)], length, avail - length, <<h.protocol>>,
                 avail = length)

(* The opaque layers: their bytes are written as they are.  A decoder takes *)
(* all of its cursor.                                                       *)

NoLayer == 0

OpaqueEncode(l, c) == Emitted(FALSE, FALSE, l, l.hi - l.lo)

OpaqueDecode(p, start, avail) ==
  Terminal(IF p = "malformed" THEN [p |-> p, lo |-> start, hi |-> start + avail,
                                    intended |-> NoProtocol]
           ELSE IF p = "padding" THEN [p |-> p, lo |-> start, hi |-> start + avail,
                                       outside |-> NoLayer]
           ELSE [p |-> p, lo |-> start, hi |-> start + avail], avail)

-----------------------------------------------------------------------------
(***************************************************************************)
(* The codecs of the network and transport layers (protocol/network/,      *)
(* protocol/transport/) and the envelope their checksums cover             *)
(* (network/envelope.rs, common/checksum.rs).                              *)
(*                                                                         *)
(* An address is a number whose tens digit is its IP version; 0 is the     *)
(* unspecified address.                                                    *)
(***************************************************************************)
\* The part of a message that a decoder keeps as bytes: a range of the frame it was read
\* from, or bytes of its own (lo = -1).
Body(lo, n) == [lo |-> lo, n |-> n]

(* Addresses an outermost header leaves unspecified come from the request. *)

endpoint(address, version, c) ==
  IF c.outer /\ address = 0 /\ c.target \div 10 = version THEN c.target ELSE address

(* IPv4.  options.route: 0 without a source route, -1 when the list cannot  *)
(* be walked, otherwise the last address still to be visited.               *)

ipv4_source_route_destination(dst, options) ==
  IF options.route > 0 THEN options.route ELSE dst

Ipv4Length(options) == 20 + zero_pad_to_four_bytes(options.length)

IsFragment(l) == l.fragment_offset # 0 \/ l.more_fragments

PreparePayloadObjects(l, c) ==
  \/ l.reserved_flag
  \/ l.options.route = -1
  \/ l.dont_fragment /\ IsFragment(l)
  \/ l.more_fragments /\ c.covered % 8 # 0
  \/ IsFragment(l) /\ c.child # NoProtocol /\ ~preserves_opaque_bytes(c.child)

\* A bare header with an exact protocol is a probe: nothing needs to follow it.
EmptyProbe(w, c) == w.kind = "exact" /\ c.child \in {NoProtocol, "padding"}

Ipv4Encode(l, c) ==
  LET header == Ipv4Length(l.options)
      total == Required(header + c.covered)
      e == expected_discriminator("ipv4", c, Reserved, l.protocol, U8)
      next == Resolved(l.protocol, e)
  IN  Emitted(\/ l.fragment_offset > 8191 \/ l.options.length > 40
              \/ header + c.covered > U16
              \/ Misfit(l.total_length) \/ Misfit(l.protocol) \/ Misfit(l.checksum),
              \/ PreparePayloadObjects(l, c)
              \/ Inconsistent(l.total_length, total)
              \/ validate_auto_raw_discriminator(l.protocol, c)
              \/ Inconsistent(l.protocol, e)
              \/ ~IsFragment(l) /\ ~(c.covered = 0 /\ EmptyProbe(l.protocol, c))
                   /\ validate_raw_child_discriminator("ipv4", next, c)
              \/ Inconsistent(l.checksum, Required(NoNet)),
              [l EXCEPT !.total_length = Resolved(@, total), !.protocol = next,
                        !.checksum = Resolved(@, Required(NoNet)),
                        !.destination = endpoint(@, 4, c),
                        !.options.length = zero_pad_to_four_bytes(@)],
              header)

Ipv4Decode(h, avail) ==
  LET header == Ipv4Length(h.options)
      payload == h.total_length - header
  IN  IF avail < header \/ payload < 0 \/ h.total_length > avail \/ h.options.route = -1
      THEN Fails
      ELSE ReadsNetwork([h EXCEPT !.total_length = Exact(@), !.protocol = Exact(@),
                                  !.checksum = Exact(@)],
                        header, payload,
                        IF payload = 0 THEN <<>>
                        ELSE IF IsFragment(h) THEN <<Reserved>> ELSE <<h.protocol>>,
                        payload = 0,
                        Net(4, ipv4_source_route_destination(h.destination, h.options)))

(* IPv6.  c.active is the segment the packet's own routing header makes the *)
(* destination (0: none), c.reduced whether it leaves that segment out.     *)

resolve_next_header(p, w, c) ==
  LET e == expected_discriminator(p, c, NoNextHeader, w, U8)
      next == Resolved(w, e)
  IN  [value |-> next,
       suspect |-> \/ validate_auto_raw_discriminator(w, c)
                   \/ Inconsistent(w, e)
                   \/ ~(p = "ipv6" /\ EmptyProbe(w, c))
                        /\ validate_raw_child_discriminator(p, next, c)
                   \/ validate_ipv6_routing_child(next, c)]

resolve_addresses(l, c) ==
  LET dst == IF c.active # 0 /\ l.destination = 0 THEN c.active
             ELSE endpoint(l.destination, 6, c)
  IN  [value |-> dst,
       suspect |-> \/ c.active # 0 /\ l.destination \notin {0, c.active}
                   \/ dst = 0 /\ c.reduced]

Ipv6Encode(l, c) ==
  LET next == resolve_next_header("ipv6", l.next_header, c)
      dst == resolve_addresses(l, c)
      length == Required(c.covered)
  IN  Emitted(\/ l.flow_label >= 1048576 \/ c.covered > U16
              \/ Misfit(l.payload_length) \/ Misfit(l.next_header),
              dst.suspect \/ Inconsistent(l.payload_length, length) \/ next.suspect,
              [l EXCEPT !.payload_length = Resolved(@, length), !.next_header = next.value,
                        !.destination = dst.value],
              40)

\* jumbo: a Hop-by-Hop header with a Jumbo Payload option starts behind this one.
Ipv6Decode(h, avail, jumbo) ==
  IF \/ avail < 40 + h.payload_length
     \/ h.payload_length = 0 /\ h.next_header = 0 /\ jumbo
  THEN Fails
  ELSE ReadsNetwork([h EXCEPT !.payload_length = Exact(@), !.next_header = Exact(@)],
                    40, h.payload_length,
                    IF h.payload_length = 0 THEN <<>> ELSE <<h.next_header>>,
                    h.payload_length = 0, Net(6, h.destination))

\* raw_ip is a decode-only root: the version nibble picks the codec.
RawIpDecode(h, avail, jumbo) ==
  CASE avail > 0 /\ h.p = "ipv4" -> Ipv4Decode(h, avail)
    [] avail > 0 /\ h.p = "ipv6" -> Ipv6Decode(h, avail, jumbo)
    [] OTHER -> Fails

(* Extension headers.  The segment routing header keeps its list in visit   *)
(* order and writes it reversed; tlvs are whole address-sized words and     *)
(* some bytes more.                                                         *)

ExtensionLength(n) == ((n + 7) \div 8) * 8

encode_options(l, c) ==
  LET next == resolve_next_header(l.p, l.next_header, c)
      header == ExtensionLength(2 + l.length)
  IN  Emitted(Misfit(l.next_header) \/ header > 2048, next.suspect,
              [l EXCEPT !.next_header = next.value, !.length = header - 2], header)

decode_options(h, avail) ==
  LET header == 2 + h.length
  IN  IF avail < header THEN Fails
      ELSE Reads([h EXCEPT !.next_header = Exact(@)], header, avail - header,
                 <<h.next_header>>, avail = header)

FragmentEncode(l, c) ==
  LET e == expected_discriminator("ipv6_fragment", c, NoNextHeader, l.next_header, U8)
      next == Resolved(l.next_header, e)
  IN  Emitted(l.fragment_offset > 8191 \/ Misfit(l.next_header),
              \/ validate_auto_raw_discriminator(l.next_header, c)
              \/ l.reserved
              \/ l.more_fragments /\ c.covered % 8 # 0
              \/ IsFragment(l) /\ c.child # NoProtocol /\ ~preserves_opaque_bytes(c.child)
              \/ Inconsistent(l.next_header, e)
              \/ ~IsFragment(l) /\ validate_raw_child_discriminator("ipv6_fragment", next, c)
              \/ validate_ipv6_routing_child(next, c),
              [l EXCEPT !.next_header = next], 8)

FragmentDecode(h, avail) ==
  IF avail < 8 THEN Fails
  ELSE Reads([h EXCEPT !.next_header = Exact(@)], 8, avail - 8,
             <<IF IsFragment(h) THEN Reserved ELSE h.next_header>>, avail = 8)

SrhLength(words, extra) == ExtensionLength(8 + 16 * words + extra)

SrhEncode(l, c) ==
  LET count == Len(l.segments)
      next == resolve_next_header("ipv6_srh", l.next_header, c)
      left == Resolved(l.segments_left, Suggested(count - 1))
      list == Reverse(l.segments) \o l.words
      header == SrhLength(Len(list), l.extra)
  IN  Emitted(\/ count \notin 1..127 \/ header > 2048
              \/ Misfit(l.next_header) \/ Misfit(l.segments_left) \/ Misfit(l.last_entry),
              \/ l.flags
              \/ next.suspect
              \/ Inconsistent(l.segments_left, Suggested(count - 1))
              \/ left > count
              \/ Inconsistent(l.last_entry, Required(count - 1)),
              [p |-> "ipv6_srh", next_header |-> next.value, segments_left |-> left,
               last_entry |-> Resolved(l.last_entry, Required(count - 1)),
               flags |-> l.flags, list |-> list, extra |-> header - 8 - 16 * Len(list)],
              header)

SrhDecode(h, avail, net) ==
  LET header == SrhLength(Len(h.list), h.extra)
      count == h.last_entry + 1
      segments == Reverse(SubSeq(h.list, 1, count))
  IN  IF avail < header \/ count > Len(h.list) \/ h.segments_left > count THEN Fails
      ELSE ReadsNetwork([p |-> "ipv6_srh", next_header |-> Exact(h.next_header),
                         segments_left |-> Exact(h.segments_left),
                         last_entry |-> Exact(h.last_entry), flags |-> h.flags,
                         segments |-> segments,
                         words |-> SubSeq(h.list, count + 1, Len(h.list)),
                         extra |-> h.extra],
                        header, avail - header, <<h.next_header>>, avail = header,
                        IF net = NoNet THEN NoNet ELSE Net(net.version, Last(segments)))

(* Messages that take all of their cursor.  ICMPv6 and VRRP version 3 cover *)
(* the pseudo-header.                                                       *)

IcmpEncode(l, c) ==
  LET sum == IF l.p = "icmpv6" THEN Required(c.net) ELSE Required(NoNet)
      length == 4 + l.body.n
  IN  Emitted(\/ Misfit(l.checksum) \/ length > c.room
              \/ l.p = "icmpv6" /\ c.net = NoNet
              \/ l.p = "igmp" /\ l.body.n < 4,
              Inconsistent(l.checksum, sum),
              [p |-> l.p, checksum |-> Resolved(l.checksum, sum)], length)

IcmpDecode(h, start, avail) ==
  IF avail < (IF h.p = "igmp" THEN 8 ELSE 4) THEN Fails
  ELSE Terminal([p |-> h.p, checksum |-> Exact(h.checksum), body |-> Body(start + 4, avail - 4)],
                avail)

\* addresses: how many and of which version; auth: bytes behind them, -1 for the default.
VrrpEncode(l, c) ==
  LET size == IF l.v6 THEN 16 ELSE 4
      usual == IF l.version = 2 THEN 8 ELSE 0
      auth == IF l.auth = -1 THEN usual ELSE l.auth
      length == 8 + l.addresses * size + auth
      sum == IF l.version = 2 THEN Required(NoNet) ELSE Required(c.net)
  IN  Emitted(\/ l.version \notin {2, 3} \/ c.net = NoNet \/ l.addresses > 255
              \/ l.addresses > 0 /\ l.v6 # (l.version = 3 /\ c.net.version = 6)
              \/ Misfit(l.count_ip) \/ Misfit(l.checksum) \/ length > c.room,
              \/ l.version = 2 /\ c.net.version = 6
              \/ Inconsistent(l.count_ip, Required(l.addresses))
              \/ auth # usual
              \/ Inconsistent(l.checksum, sum),
              [p |-> "vrrp", version |-> l.version,
               count_ip |-> Resolved(l.count_ip, Required(l.addresses)),
               checksum |-> Resolved(l.checksum, sum)],
              length)

VrrpDecode(h, start, avail, net) ==
  LET v6 == /\ h.version # 2
            /\ IF net # NoNet THEN net.version = 6
               ELSE h.count_ip > 0 /\ avail - 8 = 16 * h.count_ip
      size == IF v6 THEN 16 ELSE 4
      held == (avail - 8) \div size
      present == IF h.count_ip < held THEN h.count_ip ELSE held
  IN  IF avail > 0 /\ h.version \notin {2, 3} THEN OpaqueDecode("raw", start, avail)
      ELSE IF avail < 8 THEN Fails
      ELSE Terminal([p |-> "vrrp", version |-> h.version, v6 |-> v6, addresses |-> present,
                     auth |-> avail - 8 - present * size, count_ip |-> Exact(h.count_ip),
                     checksum |-> Exact(h.checksum), body |-> Body(start + 8, avail - 8)],
                    avail)

(* UDP, TCP and SCTP.                                                       *)

child_discriminators(first, second) ==
  SelectSeq(<<first>> \o (IF second = first THEN <<>> ELSE <<second>>), LAMBDA d : d # 0)
    \o <<0>>

\* A plausible DNS response makes its source port win.
preferred_ports(l, response) ==
  IF l.source_port = 53 /\ response
  THEN child_discriminators(l.source_port, l.destination_port)
  ELSE child_discriminators(l.destination_port, l.source_port)

validate_child_selection(l, c) ==
  /\ c.child \notin {NoProtocol, "padding", "malformed"}
  /\ LET selected == first_child_for("udp", preferred_ports(l, c.response))
     IN  selected.found /\ selected.child # c.child

UdpEncode(l, c) ==
  LET length == Required(8 + c.covered)
      omitted == c.net.version = 4 /\ l.checksum = Exact(Zero)
      sum == IF omitted THEN Suggested(c.net) ELSE Required(c.net)
  IN  Emitted(\/ 8 + c.covered > U16 \/ c.net = NoNet
              \/ Misfit(l.length) \/ Misfit(l.checksum),
              \/ validate_child_selection(l, c)
              \/ Inconsistent(l.length, length) \/ Inconsistent(l.checksum, sum),
              [l EXCEPT !.length = Resolved(@, length), !.checksum = Resolved(@, sum)], 8)

UdpDecode(h, avail, response) ==
  IF avail < 8 \/ h.length \notin 8..avail THEN Fails
  ELSE Reads([h EXCEPT !.length = Exact(@), !.checksum = Exact(@)], 8, h.length - 8,
             IF h.length = 8 THEN <<>> ELSE preferred_ports(h, response), h.length = 8)

TcpEncode(l, c) ==
  LET header == 20 + zero_pad_to_four_bytes(l.options)
  IN  Emitted(\/ l.flags >= 512 \/ l.reserved_bits > 7 \/ l.options > 40 \/ c.net = NoNet
              \/ c.net.version = 4 /\ header + c.covered > U16
              \/ Misfit(l.checksum),
              l.reserved_bits # 0 \/ Inconsistent(l.checksum, Required(c.net)),
              [l EXCEPT !.checksum = Resolved(@, Required(c.net)), !.options = header - 20],
              header)

\* Mutant of TcpDecode: the options are skipped and not kept.
TcpDecodeBare(h, avail) ==
  LET header == 20 + h.options
  IN  IF avail < header THEN Fails
      ELSE Reads([h EXCEPT !.checksum = Exact(@), !.options = 0], header, avail - header,
                 IF avail = header THEN <<>>
                 ELSE child_discriminators(h.destination_port, h.source_port),
                 avail = header)

TcpDecode(h, avail) ==
  LET header == 20 + h.options
  IN  IF avail < header THEN Fails
      ELSE Reads([h EXCEPT !.checksum = Exact(@)], header, avail - header,
                 IF avail = header THEN <<>>
                 ELSE child_discriminators(h.destination_port, h.source_port),
                 avail = header)

\* chunks: what validate_chunks says of the payload: "whole", "padded" when only its
\* alignment bytes are not zero, "broken".
SctpEncode(l, c) ==
  Emitted(Misfit(l.checksum),
          \/ l.source_port = 0 \/ l.destination_port = 0
          \/ c.chunks # "whole"
          \/ Inconsistent(l.checksum, Required(NoNet)),
          [l EXCEPT !.checksum = Resolved(@, Required(NoNet))], 12)

SctpDecode(h, avail, chunks) ==
  IF avail < 12 \/ chunks = "broken" THEN Fails
  ELSE Reads([h EXCEPT !.checksum = Exact(@)], 12, avail - 12, <<0>>, FALSE)

-----------------------------------------------------------------------------
(***************************************************************************)
(* The codecs of protocol/tunnel/ and the contract every message codec     *)
(* shares (the message_codec! macro of protocol/message.rs over            *)
(* protocol/framing.rs).                                                   *)
(***************************************************************************)
\* A decoder that would read bytes this model does not describe.
Unclear == [ok |-> FALSE, unclear |-> TRUE]

Typed(child) == child # NoProtocol /\ ~preserves_opaque_bytes(child)

(* GRE and the frames mirrored through it.  checksum is absent or a value.  *)

NoField == [kind |-> "absent", value |-> NoNet]

gre_header_len(l) ==
  4 + 4 * Cardinality({f \in {"checksum", "key", "sequence"} :
                         IF f = "checksum" THEN l.checksum # NoField ELSE l[f]})

GreEncode(l, c) ==
  LET t == resolve_u16_discriminator("gre", l.protocol_type, c)
      sum == Required(NoNet)
  IN  Emitted(Misfit(l.protocol_type) \/ Misfit(l.checksum) \/ l.reserved_bits > 127,
              \/ l.reserved_bits # 0 \/ t.suspect
              \/ l.checksum # NoField /\ Inconsistent(l.checksum, sum),
              [l EXCEPT !.protocol_type = t.value,
                        !.checksum = IF @ = NoField THEN @ ELSE Exact(Resolved(@, sum))],
              gre_header_len(l))

GreDecode(h, avail) ==
  LET header == gre_header_len(h)
  IN  IF avail < header THEN Fails
      ELSE Reads([h EXCEPT !.protocol_type = Exact(@)], header, avail - header,
                 <<h.protocol_type>>, avail = header)

ErspanLength(l) ==
  IF l.version = 1 THEN 8 ELSE 12 + (IF l.type3 # NoProtocol THEN l.subheader ELSE 0)

\* type3: the Type III fields are absent, or the O bit of their flag word is "set" or "clear".
ErspanEncode(l, c) ==
  LET expected == IF l.version = 1 THEN 35006 ELSE 8939
      type == c.parentProtocolType
  IN  Emitted(\/ l.version \notin {1, 2} \/ l.vlan > 4095
              \/ (l.version = 2) # (l.type3 # NoProtocol)
              \/ l.type3 = "set" /\ l.subheader # 8
              \/ l.type3 = "clear" /\ l.subheader # 0,
              \/ l.version = 2 /\ l.index_word # 0
              \/ type.kind = "exact" /\ type.value \in {35006, 8939} /\ type.value # expected
              \/ type.kind = "auto" /\ l.version # 1
              \/ l.version = 1 /\ c.parent = "gre" /\ ~c.parentSequence
              \/ validate_raw_child_discriminator("erspan", 0, c),
              [l EXCEPT !.index_word = IF l.version = 1 THEN @ ELSE 0], ErspanLength(l))

ErspanDecode(h, avail) ==
  LET header == ErspanLength(h)
  IN  IF avail < header THEN Fails ELSE Reads(h, header, avail - header, <<0>>, avail = header)

(* VXLAN, EtherIP, L2TPv3 and ESP: fixed headers over one kind of payload.  *)

FixedLength(p) ==
  CASE p = "vxlan" -> 8 [] p = "etherip" -> 2 [] p = "l2tpv3" -> 4 [] p = "esp" -> 8

\* l.usual: the flags, version and reserved bits have the values the RFC fixes (for ESP, the
\* index is not the reserved zero).
VxlanEncode(l, c) ==
  Emitted(l.vni > 16777215, validate_raw_child_discriminator("vxlan", 0, c) \/ ~l.usual, l, 8)

EtheripEncode(l, c) ==
  Emitted(FALSE, validate_raw_child_discriminator("etherip", 0, c) \/ ~l.usual, l, 2)

L2tpv3Encode(l, c) == Emitted(FALSE, Typed(c.child), l, 4)

EspEncode(l, c) == Emitted(FALSE, c.covered < 2 \/ ~l.usual \/ Typed(c.child), l, 8)

FixedDecode(h, avail) ==
  LET header == FixedLength(h.p)
  IN  IF avail < header THEN Fails ELSE Reads(h, header, avail - header, <<0>>, avail = header)

(* GENEVE: chain says whether the options parse and agree with the C bit.   *)

GeneveEncode(l, c) ==
  LET t == resolve_u16_discriminator("geneve", l.protocol_type, c)
  IN  Emitted(l.version > 3 \/ l.options % 4 # 0 \/ l.options > 252 \/ Misfit(l.protocol_type),
              l.version # 0 \/ ~l.chain \/ t.suspect,
              [l EXCEPT !.protocol_type = t.value], 8 + l.options)

GeneveDecode(h, avail) ==
  LET header == 8 + h.options
  IN  IF h.version # 0 \/ avail < header THEN Fails
      ELSE Reads([h EXCEPT !.protocol_type = Exact(@)], header, avail - header,
                 <<h.protocol_type>>, avail = header)

(* MPLS and GTP-U choose the IP version by the first nibble behind them.    *)

MplsEncode(l, c) ==
  Emitted(l.label > 1048575,
          c.child # "malformed" /\ l.bottom_of_stack # (c.child # "mpls"), l, 4)

MplsDecode(h, avail, nibble) ==
  IF avail < 4 THEN Fails
  ELSE Reads(h, 4, avail - 4,
             IF ~h.bottom_of_stack THEN <<0>>
             ELSE IF avail > 4 THEN <<256 + nibble, 1>> ELSE <<>>,
             avail = 4)

\* flags: a subset of {"E", "S"}; next: next_extension_type is set; extensions: the length of
\* the extension bytes, chain whether they form one terminated chain.
GtpuExtra(l) == (IF l.flags = {} THEN 0 ELSE 4) + l.extensions

GtpuValidateHeader(l) ==
  \/ l.version # 1 \/ ~l.protocol_type \/ l.reserved
  \/ l.sequence /\ "S" \notin l.flags
  \/ l.next /\ "E" \notin l.flags
  \/ "E" \in l.flags /\ ~(IF l.extensions = 0 THEN ~l.next ELSE l.next /\ l.chain)

GtpuValidateChild(l, c) == Typed(c.child) /\ ~(l.gpdu /\ c.child \in {"ipv4", "ipv6"})

GtpuEncode(l, c) ==
  LET length == Required(GtpuExtra(l) + c.covered)
  IN  Emitted(\/ l.version > 7
              \/ "E" \notin l.flags /\ l.extensions # 0
              \/ length.value > U16 \/ Misfit(l.length),
              \/ GtpuValidateHeader(l) \/ GtpuValidateChild(l, c)
              \/ Inconsistent(l.length, length),
              [l EXCEPT !.length = Resolved(@, length),
                        !.next = @ /\ l.flags # {}, !.sequence = @ /\ l.flags # {}],
              8 + GtpuExtra(l))

GtpuDecode(h, avail, nibble) ==
  LET end == 8 + h.length
      walked == "E" \in h.flags /\ h.next
      optional == IF h.flags = {} THEN 0 ELSE 4
      header == 8 + optional + (IF walked THEN h.extensions ELSE 0)
  IN  CASE avail < end \/ h.length < optional -> Fails
        [] walked /\ (h.extensions = 0 \/ ~h.chain) -> Unclear
        [] end < header -> Fails
        [] OTHER ->
             Reads([h EXCEPT !.length = Exact(@), !.extensions = IF walked THEN @ ELSE 0],
                   header, end - header,
                   IF end > header /\ h.version = 1 /\ h.protocol_type /\ h.gpdu
                   THEN <<256 + nibble, 0>> ELSE <<0>>,
                   end = header)

(* PPPoE and PPP.                                                           *)

validate_stage(l, c) ==
  LET type == c.parentType
      session == l.code = 0
      expected == IF session THEN 34916 ELSE 34915
  IN  \/ ~l.usual
      \/ c.child # "malformed" /\ session # (c.child = "ppp")
      \/ type.kind = "exact" /\ type.value \in {34915, 34916} /\ type.value # expected
      \/ type.kind = "auto" /\ ~session

PppoeEncode(l, c) ==
  Emitted(Misfit(l.length) \/ c.covered > U16,
          validate_stage(l, c) \/ Inconsistent(l.length, Required(c.covered)),
          [l EXCEPT !.length = Resolved(@, Required(c.covered))], 6)

\* The EtherType that selected the layer decides the stage, else the code does.
PppoeDecode(h, avail, selector) ==
  LET discovery == IF selector \in {34915, 34916} THEN selector = 34915 ELSE h.code # 0
  IN  IF avail < 6 + h.length THEN Fails
      ELSE Reads([h EXCEPT !.length = Exact(@)], 6, h.length,
                 IF ~discovery THEN <<0>> ELSE IF h.length = 0 THEN <<>> ELSE <<1>>,
                 discovery /\ h.length = 0)

PppEncode(l, c) ==
  LET t == resolve_u16_discriminator("ppp", l.protocol, c)
  IN  Emitted(Misfit(l.protocol), t.suspect, [l EXCEPT !.protocol = t.value], 2)

PppDecode(h, avail) ==
  IF avail < 2 THEN Fails
  ELSE Reads([h EXCEPT !.protocol = Exact(@)], 2, avail - 2,
             IF avail = 2 THEN <<>> ELSE IF h.protocol = 0 THEN <<0>> ELSE <<h.protocol, 0>>,
             avail = 2)

(* AH: family is the IP version above it, 0 when there is none.             *)

ah_family_mismatch(family, child) ==
  \/ family = 4 /\ child \in {"ospfv3", "icmpv6"} \cup ExtensionHeaders
  \/ family = 6 /\ child \in {"icmpv4", "igmp", "ospfv2"}

ah_selector(next, family) == IF next = 89 /\ family = 6 THEN 256 + 89 ELSE next

AhEncode(l, c) ==
  LET header == 12 + l.icv
      words == Required(header \div 4 - 2)
      e == IF c.child = "ospfv3" THEN Required(89)
           ELSE expected_discriminator("ah", c, NoNextHeader, l.next_header, U8)
      next == Resolved(l.next_header, e)
      d == ah_selector(next, c.under6)
  IN  Emitted(\/ l.icv % 4 # 0 \/ header > 1028
              \/ Misfit(l.next_header) \/ Misfit(l.payload_length),
              \/ ~l.usual
              \/ c.under6 = 6 /\ header % 8 # 0
              \/ ah_family_mismatch(c.under6, c.child)
              \/ validate_auto_raw_discriminator(l.next_header, c)
              \/ Inconsistent(l.next_header, e)
              \/ ~ah_family_mismatch(c.under6, child_for("ah", d))
                   /\ validate_raw_child_discriminator("ah", d, c)
              \/ Inconsistent(l.payload_length, words),
              [p |-> "ah", next_header |-> next, usual |-> l.usual,
               payload_length |-> Resolved(l.payload_length, words)], header)

AhDecode(h, avail, family) ==
  LET header == (h.payload_length + 2) * 4
      d == ah_selector(h.next_header, family)
  IN  IF avail < 12 \/ header \notin 12..avail THEN Fails
      ELSE Reads([p |-> "ah", next_header |-> Exact(h.next_header), usual |-> h.usual,
                  payload_length |-> Exact(h.payload_length), icv |-> header - 12],
                 header, avail - header,
                 IF ah_family_mismatch(family, child_for("ah", d)) THEN <<>> ELSE <<d>>,
                 avail = header)

(* Messages.  framed is the length the bytes announce to the framer, parse  *)
(* what parse_wire says of them, pseudo whether their checksum covers the   *)
(* pseudo-header under IPv6 and over the envelope it was computed for.      *)

MessageEnvelope(l, net) == IF l.pseudo /\ net.version = 6 THEN net ELSE NoNet

MessageEncode(l, c) ==
  Emitted(\/ c.covered > 0 /\ ~(c.child = l.p \/ preserves_opaque_bytes(c.child))
          \/ l.n > c.room,
          l.framed # l.n \/ l.parse # "ok",
          [p |-> l.p, framed |-> l.framed, parse |-> l.parse, pseudo |-> l.pseudo,
           over |-> MessageEnvelope(l, c.net), n |-> l.n],
          l.n)

\* The protocols whose messages announce their length; a datagram is all of its cursor.
Framed == StreamMessages \cup {"eap", "lacp", "ppp_ipcp", "ppp_ipv6cp", "ppp_lcp", "radius"}

MessageDecode(h, start, avail, parent, net) ==
  LET framed == IF h.p \in Framed THEN h.framed ELSE avail
      whole == framed = h.n
  IN  CASE framed > avail -> Fails
        [] ~whole -> Unclear
        [] h.parse = "unsupported" -> OpaqueDecode("raw", start, avail)
        [] h.parse = "bad" \/ h.over # MessageEnvelope(h, net) -> Fails
        [] OTHER ->
             LET layer == [p |-> h.p, framed |-> h.framed, parse |-> "ok", pseudo |-> h.pseudo,
                           n |-> framed]
             IN  IF avail = framed THEN Terminal(layer, framed)
                 ELSE Reads(layer, framed, avail - framed,
                            <<IF h.p = "sip" /\ parent = "udp" THEN OpaqueTail ELSE 0>>, FALSE)
=============================================================================
