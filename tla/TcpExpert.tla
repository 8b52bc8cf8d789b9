----------------------------- MODULE TcpExpert ------------------------------
(***************************************************************************)
(* The TCP findings of the expert analysis (core analysis/expert.rs,       *)
(* expert/generation.rs, expert/tcp.rs and expert/tcp/), composed with the *)
(* reassembler of TcpReassembly whose events it reads.                     *)
(*                                                                         *)
(* The collector keeps one record per direction.  Its functions take and   *)
(* return all the records and the findings of the frame, as a pair called  *)
(* x; the order in which Frame applies them is observe_tcp's.  A number    *)
(* that is not known is -1.  The window scale option is left out.          *)
(***************************************************************************)
EXTENDS TcpReassembly

CONSTANTS MAX_OPEN_HOLES, FAST_RETRANSMIT_DUPLICATES

VARIABLE
  expert      \* flows: the directions; findings: the codes of the last frame

SerialGt(value, base) == SerialGe(value, base) /\ value # base

(* serial_range_contains: "unknown" unless both ends are known.            *)
RangeContains(base, next, value) ==
  IF base = -1 \/ next = -1 THEN "unknown"
  ELSE IF SerialGe(value, base) /\ SerialGe(next, value) THEN "yes" ELSE "no"

NoHandshake == [syn_sequence |-> -1, expected |-> -1, answered |-> FALSE, established |-> FALSE]

Unseen ==
  [next_sequence |-> -1, payload_next |-> -1, acknowledgment |-> -1, duplicate_acks |-> 0,
   window |-> -1, window_sequence |-> -1, window_acknowledgment |-> -1, window_from_syn |-> FALSE,
   syn_seen |-> FALSE, reassembly_base |-> -1, closed |-> FALSE, holes |-> <<>>,
   fin_sequence |-> -1, fast_retransmit_reported |-> FALSE, handshake |-> NoHandshake]

ExpertInit == expert = [flows |-> NoFlows, findings |-> {}]

Known(x, f) == f \in DOMAIN x.flows

Of(x, f) == IF Known(x, f) THEN x.flows[f] ELSE Unseen

Set(x, f, d) ==
  [x EXCEPT !.flows = [g \in DOMAIN @ \cup {f} |-> IF g = f THEN d ELSE @[g]]]

RemoveFlow(x, f) == [x EXCEPT !.flows = [g \in DOMAIN @ \ {f} |-> @[g]]]

Find(x, condition, code) == IF condition THEN [x EXCEPT !.findings = @ \cup {code}] ELSE x

Ack(s) == s.ack # -1

-----------------------------------------------------------------------------
(* Collector::reconcile_tcp_evictions and sequence::record_clean_closures. *)

ReconcileEvictions(x, evs) ==
  LET gone == {evs[i].flow : i \in {j \in 1..Len(evs) : evs[j].kind = "evicted"}}
  IN [x EXCEPT !.flows = [f \in DOMAIN @ |->
        IF f \notin gone THEN @[f]
        ELSE [@[f] EXCEPT !.reassembly_base = -1, !.closed = FALSE, !.holes = <<>>,
                          !.fin_sequence = -1, !.handshake = NoHandshake]]]

CleanClosures(x, evs) ==
  LET ended == {evs[i].flow : i \in {j \in 1..Len(evs) : evs[j].kind = "closed" /\ ~evs[j].reset}}
  IN FoldSet(LAMBDA f, y : Set(y, f, [Of(y, f) EXCEPT !.closed = TRUE]), x, ended)

(* sequence.rs: is_probe_shape and reconcile_events.                       *)
ProbeShape(x, s) ==
  /\ s.len <= 1 /\ Ack(s) /\ ~s.syn /\ ~s.fin /\ ~s.rst
  /\ Known(x, s.flow)
  /\ ~Of(x, s.flow).closed
  /\ Of(x, s.flow).next_sequence = (s.sequence + 1) % Modulus

Retransmissions(evs) ==
  SelectSeq(evs, LAMBDA e : e.kind = "retransmission")

(* The repeated bytes the collector saw before: none before its base.      *)
ObservedBytes(base, s, repeated) ==
  repeated - (IF SerialGe(base, First(s)) THEN Min({(base - First(s)) % Modulus, s.len}) ELSE 0)

FastRetransmission(x, s) ==
  LET peer == Of(x, Opposite[s.flow])
  IN /\ peer.acknowledgment = First(s)
     /\ peer.duplicate_acks >= FAST_RETRANSMIT_DUPLICATES
     /\ ~peer.fast_retransmit_reported

RepeatedBytes(e) == FoldSet(LAMBDA r, n : n + r[2], 0, e.ranges)

Retransmitted(x, s, e) ==
  LET base == Of(x, s.flow).reassembly_base
      fast == ~e.conflicting /\ FastRetransmission(x, s)
  IN IF s.rst \/ ProbeShape(x, s) \/ base = -1 \/ ObservedBytes(base, s, RepeatedBytes(e)) <= 0 THEN x
     ELSE IF fast
     THEN Find(Set(x, Opposite[s.flow], [Of(x, Opposite[s.flow]) EXCEPT !.fast_retransmit_reported = TRUE]),
               TRUE, "fast_retransmission")
     ELSE Find(x, TRUE, IF e.conflicting THEN "retransmission_conflicting" ELSE "retransmission")

ReconcileEvents(x, s, evs) == FoldLeft(LAMBDA y, e : Retransmitted(y, s, e), x, Retransmissions(evs))

-----------------------------------------------------------------------------
(* handshake.rs: inspect looks at the flow as it was before the frame.     *)

Mismatch(prior, s) ==
  LET peer == Of(prior, Opposite[s.flow])
      expected == (peer.handshake.syn_sequence + 1) % Modulus
      end == IF peer.next_sequence = -1 THEN expected ELSE peer.next_sequence
  IN /\ s.syn /\ Ack(s) /\ ~s.rst
     /\ peer.handshake.syn_sequence # -1
     /\ RangeContains(expected, end, s.ack) = "no"

Pending(handshake) == handshake.syn_sequence # -1 /\ ~handshake.answered

RefusedBy(prior, s) ==
  LET peer == Of(prior, Opposite[s.flow])
      own == Of(prior, s.flow).handshake
      isn == peer.handshake.syn_sequence
  IN /\ s.rst /\ ~s.syn
     /\ \/ /\ Pending(peer.handshake)
           /\ ~Ack(s) \/ RangeContains((isn + 1) % Modulus, peer.next_sequence, s.ack) # "no"
        \/ own.syn_sequence # -1 /\ own.answered /\ ~own.established

Inspect(x, prior, s) ==
  Find(Find(Find(x, Mismatch(prior, s), "synack_mismatch"), RefusedBy(prior, s), "connection_refused"),
       s.rst /\ ~RefusedBy(prior, s), "reset")

ZeroWindow(x, s) == Find(x, s.window = 0 /\ ~s.rst, "zero_window")

-----------------------------------------------------------------------------
(* generation.rs: a SYN renews its direction or begins it anew, and then   *)
(* the peer is kept only when it belongs to the same connection.           *)

Verdict(x, s) ==
  LET peer == Of(x, Opposite[s.flow]) IN
  IF ~Ack(s) THEN "unknown" ELSE RangeContains(peer.reassembly_base, peer.next_sequence, s.ack)

Renews(x, s) ==
  LET sent == Of(x, s.flow) IN
  /\ s.syn
  /\ sent.reassembly_base = First(s)
  /\ ~sent.closed
  /\ Verdict(x, s) # "no"
  /\ Ack(s) \/ s.len > 0 \/ sent.payload_next = -1

PeerIsCurrent(x, s) ==
  LET r == Opposite[s.flow]
      peer == Of(x, r)
  IN IF Ack(s) THEN Verdict(x, s) = "yes" \/ Pending(peer.handshake)
     ELSE Known(x, r) =>
            peer.syn_seen /\ peer.next_sequence = peer.reassembly_base /\ peer.acknowledgment = -1

Based(x, s) ==
  LET sent == Of(x, s.flow)
      first == ~s.syn /\ sent.reassembly_base = -1 /\ (s.len > 0 \/ s.fin \/ s.rst)
  IN Set(x, s.flow, IF first THEN [sent EXCEPT !.reassembly_base = s.sequence] ELSE sent)

Generation(x, s) ==
  LET sent == IF Renews(x, s) THEN Of(x, s.flow) ELSE Unseen
      begun == Set(x, s.flow, [sent EXCEPT !.syn_seen = TRUE, !.reassembly_base = First(s)])
  IN IF ~s.syn THEN Based(x, s)
     ELSE IF Renews(x, s) \/ PeerIsCurrent(x, s) THEN begun
     ELSE RemoveFlow(begun, Opposite[s.flow])

(* handshake::record.                                                      *)
RecordSynAck(x, prior, s) ==
  LET r == Opposite[s.flow]
      before == Of(prior, r).handshake
  IN IF Mismatch(prior, s) /\ Pending(before)
     THEN Set(x, r, [Of(x, r) EXCEPT !.handshake = before])
     ELSE IF Of(x, r).handshake.syn_sequence = -1 THEN x
     ELSE Set(x, r, [Of(x, r) EXCEPT !.handshake.answered = TRUE,
                                     !.handshake.expected = First(s)])

RecordHandshake(x, prior, s, renews) ==
  LET sent == Of(x, s.flow)
      h == sent.handshake
      again == renews /\ h.syn_sequence = s.sequence
  IN CASE s.rst -> x
       [] s.syn /\ Ack(s) -> RecordSynAck(x, prior, s)
       [] s.syn -> IF again THEN Find(x, TRUE, "syn_retransmission")
                   ELSE Set(x, s.flow, [sent EXCEPT !.handshake = [NoHandshake EXCEPT !.syn_sequence = s.sequence]])
       [] Ack(s) -> IF h.syn_sequence # -1 /\ h.answered /\ h.expected # -1 /\ SerialGe(s.ack, h.expected)
                    THEN Set(x, s.flow, [sent EXCEPT !.handshake.established = TRUE]) ELSE x
       [] OTHER -> x

-----------------------------------------------------------------------------
(* sequence.rs: the gaps a direction skipped over.                         *)

OpenHole(holes, start, end) ==
  IF Len(holes) < MAX_OPEN_HOLES THEN Append(holes, [start |-> start, end |-> end]) ELSE holes

Inside(hole, sequence) == SerialGe(sequence, hole.start) /\ SerialGt(hole.end, sequence)

InHole(holes, s) == \E i \in 1..Len(holes) : Inside(holes[i], s.sequence)

Fill(hole, sequence, end) ==
  IF sequence = hole.start
  THEN [hole EXCEPT !.start = IF SerialGe(end, hole.end) THEN hole.end ELSE end]
  ELSE IF SerialGe(end, hole.end) THEN [hole EXCEPT !.end = sequence]
  ELSE hole

FillHoles(holes, s) ==
  LET i == CHOOSE j \in 1..Len(holes) :
             Inside(holes[j], s.sequence) /\ \A k \in 1..(j - 1) : ~Inside(holes[k], s.sequence)
      filled == [holes EXCEPT ![i] = Fill(@, s.sequence, (s.sequence + s.len) % Modulus)]
  IN SelectSeq(filled, LAMBDA h : h.start # h.end)

(* A plausible slip: a segment sent again takes the direction back.        *)
LatestSegment(next, end) == end

Latest(next, end) == IF next # -1 /\ ~SerialGe(end, next) THEN next ELSE end

Advance(d, s) ==
  LET flags == (IF s.syn THEN 1 ELSE 0) + (IF s.fin THEN 1 ELSE 0)
  IN IF s.len = 0 /\ flags = 0 THEN d
     ELSE [d EXCEPT
             !.next_sequence = Latest(@, (s.sequence + s.len + flags) % Modulus),
             !.payload_next = IF s.len = 0 THEN @ ELSE Latest(@, (First(s) + s.len) % Modulus)]

ObserveClose(x, s, repeated) ==
  LET d == Of(x, s.flow)
      position == (s.sequence + s.len) % Modulus
      late == s.len > 0 /\ SerialGe(s.sequence, d.fin_sequence)
  IN IF s.rst \/ s.syn THEN x
     ELSE IF d.fin_sequence = -1
     THEN IF s.fin THEN Set(x, s.flow, [d EXCEPT !.fin_sequence = position]) ELSE x
     ELSE Find(Find(x, late, "data_after_close"),
               ~late /\ s.fin /\ position = d.fin_sequence /\ ~repeated, "fin_retransmission")

Resent(d, s) ==
  /\ d.closed /\ s.len > 0 /\ ~s.syn
  /\ d.reassembly_base # -1 /\ d.payload_next # -1
  /\ SerialGe(s.sequence, d.reassembly_base)
  /\ SerialGe(d.payload_next, (s.sequence + s.len) % Modulus)

Skips(d, s) ==
  /\ s.len > 0 \/ s.fin
  /\ ~s.syn
  /\ d.next_sequence # -1 /\ SerialGt(s.sequence, d.next_sequence)

(* sequence::observe for a segment that is not a keep-alive.               *)
ObserveSequence(x, s, repeated) ==
  LET d == Of(x, s.flow)
      fills == s.len > 0 /\ ~s.syn /\ ~repeated /\ InHole(d.holes, s)
      filled == IF fills THEN FillHoles(d.holes, s) ELSE d.holes
      holes == IF Skips(d, s) THEN OpenHole(filled, d.next_sequence, s.sequence) ELSE filled
      found == Find(Find(Find(x, fills, "out_of_order"), ~fills /\ ~repeated /\ Resent(d, s), "retransmission"),
                    Skips(d, s), "previous_segment_not_captured")
      closed == ObserveClose(Set(found, s.flow, [d EXCEPT !.holes = holes]), s, repeated)
  IN Set(closed, s.flow, Advance(Of(closed, s.flow), s))

-----------------------------------------------------------------------------
(* acknowledgment.rs.                                                      *)

Outstanding(x, s) ==
  LET next == Of(x, Opposite[s.flow]).payload_next IN next # -1 /\ SerialGt(next, s.ack)

DuplicateAck(x, s) ==
  LET d == Of(x, s.flow)
      same == Outstanding(x, s) /\ d.acknowledgment = s.ack /\ d.window = s.window
  IN IF ~Ack(s) \/ s.len > 0 \/ s.syn \/ s.fin \/ s.rst THEN x
     ELSE IF same THEN Find(Set(x, s.flow, [d EXCEPT !.duplicate_acks = @ + 1]), TRUE, "duplicate_ack")
     ELSE Set(x, s.flow, [d EXCEPT !.duplicate_acks = 0, !.fast_retransmit_reported = FALSE])

UnseenAck(x, s) ==
  LET peer == Of(x, Opposite[s.flow])
  IN Find(x, /\ Ack(s) /\ ~s.syn /\ ~s.rst
             /\ peer.payload_next # -1 /\ peer.next_sequence # -1
             /\ SerialGt(s.ack, peer.next_sequence), "ack_unseen_segment")

(* update, and window::update_advertisement when it accepts the segment.   *)
Accepts(d, s, renews) ==
  /\ Ack(s) \/ s.syn
  /\ ~(Ack(s) /\ d.acknowledgment # -1 /\ ~SerialGe(s.ack, d.acknowledgment))
  /\ ~(renews /\ d.acknowledgment # -1)

Acknowledged(d, s) ==
  LET other == d.acknowledgment # s.ack \/ d.window # s.window
  IN IF ~Ack(s) THEN d
     ELSE [d EXCEPT !.duplicate_acks = IF other THEN 0 ELSE @,
                    !.fast_retransmit_reported = IF other THEN FALSE ELSE @,
                    !.acknowledgment = s.ack]

NewAdvertisement(d, s) ==
  \/ d.window_sequence = -1
  \/ SerialGt(s.sequence, d.window_sequence)
  \/ s.sequence = d.window_sequence
       /\ SerialGe(Max({s.ack, 0}), d.window_acknowledgment)

Advertised(x, s, previous, keep_alive) ==
  LET d == Of(x, s.flow)
      update == /\ s.len = 0 /\ ~s.syn /\ ~s.fin /\ ~s.rst /\ ~keep_alive
                /\ ~d.window_from_syn
                /\ d.window # -1 /\ d.window # s.window /\ s.window # 0
                /\ previous = s.ack /\ Ack(s)
  IN IF ~NewAdvertisement(d, s) THEN x
     ELSE Find(Set(x, s.flow, [d EXCEPT !.window = s.window, !.window_sequence = s.sequence,
                                        !.window_acknowledgment = Max({s.ack, 0}),
                                        !.window_from_syn = s.syn]), update, "window_update")

Update(x, s, renews, keep_alive) ==
  LET d == Of(x, s.flow) IN
  IF ~Accepts(d, s, renews) THEN x
  ELSE Advertised(Set(x, s.flow, Acknowledged(d, s)), s, d.acknowledgment, keep_alive)

(* window::analyze_sender.                                                 *)
AnalyzeSender(x, s, keep_alive) ==
  LET peer == Of(x, Opposite[s.flow])
      end == (s.sequence + s.len + (IF s.syn THEN 1 ELSE 0) + (IF s.fin THEN 1 ELSE 0)) % Modulus
      in_flight == (end - peer.acknowledgment) % Modulus
      handshake_seen == peer.syn_seen /\ Of(x, s.flow).syn_seen
      probe == s.len = 1 /\ ~s.fin /\ in_flight = 1
  IN IF \/ (s.len = 0 /\ ~s.fin) \/ keep_alive \/ s.rst
        \/ peer.acknowledgment = -1 \/ peer.window = -1
        \/ ~SerialGe(end, peer.acknowledgment)
     THEN x
     ELSE IF peer.window = 0
     THEN Find(x, in_flight > 0, IF probe THEN "zero_window_probe" ELSE "window_exceeded")
     ELSE Find(Find(x, handshake_seen /\ in_flight = peer.window, "window_full"),
               handshake_seen /\ in_flight > peer.window, "window_exceeded")

-----------------------------------------------------------------------------
(* Collector::observe_tcp.                                                 *)

Retire(x, s) == IF s.rst THEN RemoveFlow(RemoveFlow(x, s.flow), Opposite[s.flow]) ELSE x

Sequenced(x, s, keep_alive, repeated) ==
  IF keep_alive THEN Find(x, TRUE, "keep_alive")
  ELSE UnseenAck(DuplicateAck(ObserveSequence(x, s, repeated), s), s)

Finished(x, s, renews, keep_alive, evs) ==
  CleanClosures(Retire(AnalyzeSender(Update(x, s, renews, keep_alive), s, keep_alive), s), evs)

ObserveWith(x, prior, s, evs, renews, keep_alive) ==
  Finished(Sequenced(RecordHandshake(Generation(x, s), prior, s, renews), s, keep_alive,
                     \E i \in 1..Len(evs) : evs[i].kind = "retransmission" /\ evs[i].flow = s.flow),
           s, renews, keep_alive, evs)

ObserveTcp(x, prior, s, evs) ==
  LET inspected == ZeroWindow(Inspect(ReconcileEvents(x, s, evs), prior, s), s)
      peer_zero == Of(x, Opposite[s.flow]).window = 0
  IN ObserveWith(inspected, prior, s, evs, Renews(inspected, s), ProbeShape(x, s) /\ ~peer_zero)

(* A captured segment; one that carries nothing to push only passes the    *)
(* reassembler's clock.                                                    *)
Capture(s, t) ==
  LET prior == [expert EXCEPT !.findings = {}]
  IN /\ IF s.len > 0 \/ s.syn \/ s.fin \/ s.rst THEN Dispatch(s, t) ELSE Pass(t)
     /\ expert' = IF state' = "failed" THEN prior
                  ELSE ObserveTcp(ReconcileEvictions(prior, events'), prior, s, events')

(* tcp::finish, once the capture has ended.                                *)
Openers(x) == {f \in DOMAIN x.flows : x.flows[f].handshake.syn_sequence # -1}

Unfinished(evs) ==
  {evs[i].flow : i \in {j \in 1..Len(evs) : evs[j].kind = "gap"}}

FinishFlow(x, f, evs) ==
  LET d == Of(x, f)
      r == Opposite[f]
      closing == d.fin_sequence # -1 \/ Of(x, r).fin_sequence # -1
      open == /\ d.handshake.answered /\ d.handshake.established
              /\ ~closing /\ {f, r} \cap Unfinished(evs) = {}
  IN Find(Find(x, ~d.handshake.answered, "handshake_unanswered"), open, "not_closed_at_end")

FinishCapture ==
  LET x == Find([expert EXCEPT !.findings = {}], Unfinished(events') # {}, "incomplete_at_end")
  IN /\ FlushFlows
     /\ expert' = FoldSet(LAMBDA f, y : FinishFlow(y, f, events'), x, Openers(x))

-----------------------------------------------------------------------------
(***************************************************************************)
(* What the expert analysis says of a real connection: TcpExpert over the  *)
(* capture of two endpoints that obey the protocol, on a path that loses   *)
(* segments and with a capture that may miss them.                         *)
(*                                                                         *)
(* The endpoints are not code of the repository: they are the ground truth *)
(* the findings are measured by.  A client "a" sends Bytes bytes and a     *)
(* FIN; a server "b" acknowledges, within a receive window, or refuses.    *)
(* Each segment is captured or missed, and delivered or lost, when it is   *)
(* sent; endpoints resend what is not acknowledged, probe, and never take  *)
(* a window back.                                                          *)
(***************************************************************************)
CONSTANTS
  ISN,          \* the initial sequence number of each endpoint
  Bytes,        \* what the client has to send
  Window,       \* the largest window the server offers
  Sends         \* the segments sent at most

VARIABLES
  client,       \* nxt: bytes sent; una: bytes acknowledged, -1 before the
                \* SYN is; edge: the bytes the server allows; fin: FIN sent
  server,       \* syn: SYN received; got: bytes received; fin: FIN
                \* received; adv: the right edge offered
  seen,         \* what was captured of the client: its bytes, SYN and FIN
  answered,     \* the SYN-ACK was captured
  missed,       \* some segment was not captured
  last,         \* the segment captured last and what had been seen before
  sends,
  over          \* the connection was refused

endVars == <<client, server, seen, answered, missed, last, sends, over>>

ConversationInit ==
  /\ TcpInit
  /\ ExpertInit
  /\ client = [syn |-> FALSE, nxt |-> 0, una |-> -1, edge |-> 0, fin |-> FALSE]
  /\ server = [syn |-> FALSE, got |-> {}, fin |-> FALSE, adv |-> 0]
  /\ seen = {}
  /\ answered = FALSE
  /\ missed = FALSE
  /\ last = [kind |-> "none"]
  /\ sends = 0
  /\ over = FALSE

(* The SYN and the FIN are where they are in the sequence space.           *)
Syn == -1

Fin == Bytes

Sequence(x, i) == (ISN[x] + 1 + i) % Modulus

(* What the server acknowledges: the bytes it has in order and the FIN     *)
(* behind them.                                                            *)
Contiguous == Max({n \in 0..Bytes : 0..(n - 1) \subseteq server.got})

Acked == Contiguous + (IF server.fin /\ Contiguous = Bytes THEN 1 ELSE 0)

Segment(flow, sequence, len, flags, ack, window) ==
  [flow |-> flow, sequence |-> sequence, len |-> len, version |-> 0, window |-> window,
   syn |-> "syn" \in flags, fin |-> "fin" \in flags, rst |-> "rst" \in flags, ack |-> ack]

(* A segment is sent: captured or missed.                                  *)
Sent(kind, s, from, things) ==
  /\ state = "running"
  /\ ~over
  /\ sends < Sends
  /\ sends' = sends + 1
  /\ \/ /\ Capture(s, 0)
        /\ seen' = seen \cup things
        /\ last' = [kind |-> kind, from |-> from, s |-> s, before |-> seen, missed |-> missed,
                    answered |-> answered]
        /\ answered' = (answered \/ kind = "synack")
        /\ UNCHANGED missed
     \/ /\ missed' = TRUE
        /\ UNCHANGED <<tcpVars, expert, seen, last, answered>>

SendSyn ==
  /\ client.una = -1
  /\ Sent("syn", Segment("a", ISN["a"], 0, {"syn"}, -1, 1), 0, {Syn})
  /\ client' = [client EXCEPT !.syn = TRUE]
  /\ server' \in {server, [server EXCEPT !.syn = TRUE]}
  /\ UNCHANGED over

SendSynAck ==
  /\ server.syn /\ server.got = {} /\ ~server.fin
  /\ server.adv \in {0, Window}
  /\ Sent("synack", Segment("b", ISN["b"], 0, {"syn"}, Sequence("a", 0), Window), 0, {})
  /\ server' = [server EXCEPT !.adv = Window]
  /\ client' \in {client, [client EXCEPT !.una = Max({@, 0}), !.edge = Max({@, Window})]}
  /\ UNCHANGED over

Refuse ==
  /\ server.syn /\ client.una = -1
  /\ Sent("refuse", Segment("b", 0, 0, {"rst"}, Sequence("a", 0), 0), 0, {})
  /\ over' = TRUE
  /\ UNCHANGED <<client, server>>

(* New bytes within the window, bytes that are not acknowledged, or one    *)
(* byte beyond a closed window.                                            *)
SendData(from, len, fin) ==
  LET range == from..(from + len - 1)
      end == from + len + (IF fin THEN 1 ELSE 0)
      allowed == end <= client.edge \/ (len = 1 /\ ~fin /\ from = client.una /\ from = client.edge)
      taken == {i \in range : i < server.adv}
  IN /\ client.una >= 0
     /\ from \in client.una..client.nxt
     /\ from + len <= Bytes
     /\ allowed
     /\ len > 0 \/ (fin /\ from = Bytes)
     /\ fin => from + len = Bytes
     /\ client.fin /\ ~fin => from + len <= client.nxt
     /\ Sent("data", Segment("a", Sequence("a", from), len, IF fin THEN {"fin"} ELSE {},
                             Sequence("b", 0), 1),
             from, range \cup (IF fin THEN {Fin} ELSE {}))
     /\ client' = [client EXCEPT !.nxt = Max({@, from + len}), !.fin = @ \/ fin]
     /\ server' \in {server, [server EXCEPT !.got = @ \cup taken, !.fin = @ \/ (fin /\ Bytes < server.adv)]}
     /\ UNCHANGED over

(* A keep-alive of an idle client: the byte before the next, once more.    *)
KeepAlive ==
  /\ client.una = client.nxt /\ client.nxt > 0 /\ ~client.fin
  /\ client.edge > client.nxt
  /\ Sent("probe", Segment("a", Sequence("a", client.nxt - 1), 0, {}, Sequence("b", 0), 1),
          client.nxt - 1, {})
  /\ UNCHANGED <<client, server, over>>

SendAck(w) ==
  /\ server.syn /\ client.una >= 0
  /\ Acked + w >= server.adv
  /\ Sent("ack", Segment("b", Sequence("b", 0), 0, {}, Sequence("a", Acked), w), Acked, {})
  /\ server' = [server EXCEPT !.adv = Acked + w]
  /\ client' \in {client, [client EXCEPT !.una = Max({@, Acked}),
                                         !.edge = Max({@, Acked + w})]}
  /\ UNCHANGED over

EndCapture ==
  /\ FinishCapture
  /\ last' = [kind |-> "end"]
  /\ UNCHANGED <<client, server, seen, answered, missed, sends, over>>

ConversationNext ==
  \/ SendSyn
  \/ SendSynAck
  \/ \E w \in 0..Window : SendAck(w)
  \/ Refuse
  \/ \E from \in 0..Bytes, len \in 0..Bytes, fin \in BOOLEAN : SendData(from, len, fin)
  \/ KeepAlive
  \/ EndCapture

ConversationSpec == ConversationInit /\ [][ConversationNext]_<<tcpVars, expert, endVars>>

-----------------------------------------------------------------------------
Carried == last.from..(last.from + last.s.len - 1)

(* One byte, the last one seen: a keep-alive may look like this.           *)
LooksLikeProbe == last.s.len = 1 /\ ~last.s.fin /\ last.from = Max(last.before)

(* Each finding is true of the connection, and what a complete capture     *)
(* repeats is never passed over: a retransmission was captured before, a gap is a segment   *)
(* the capture missed, out of order data fills one, an acknowledgment of   *)
(* unseen data acknowledges bytes the capture never saw; and a capture     *)
(* that missed nothing of two endpoints that keep the rules is not blamed  *)
(* for anything else.                                                      *)
FindingsTrue ==
  LET found == expert.findings
      again == {"retransmission", "fast_retransmission"} \cap found # {}
  IN CASE last.kind = "none" \/ state = "failed" -> TRUE
       [] last.kind = "end" ->
            /\ "handshake_unanswered" \in found => Syn \in seen
            /\ "not_closed_at_end" \in found => Syn \in seen /\ Fin \notin seen
            /\ "incomplete_at_end" \in found => missed
       [] OTHER ->
            /\ found \cap {"retransmission_conflicting", "synack_mismatch", "data_after_close"} = {}
            /\ again => Carried \cap last.before # {}
            /\ Carried \cap last.before # {} => again \/ LooksLikeProbe \/ last.missed
            /\ "out_of_order" \in found => last.from \notin last.before
            /\ "previous_segment_not_captured" \in found =>
                 last.missed /\ \E i \in 0..(last.from - 1) : i \notin last.before
            /\ "ack_unseen_segment" \in found =>
                 \E i \in 0..(last.from - 1) : i \notin last.before
            /\ "connection_refused" \in found => over /\ Syn \in last.before
            /\ "window_exceeded" \in found => last.missed
            /\ "syn_retransmission" \in found => Syn \in last.before
            /\ "fin_retransmission" \in found => Fin \in last.before
=============================================================================
