---------------------------- MODULE TcpReassembly ----------------------------
(***************************************************************************)
(* TCP stream reassembly of a capture: the flow table, the pages of out of *)
(* order data and the history of delivered data under one memory budget    *)
(* (core analysis/reassembly/tcp), and the dispatch that expires idle      *)
(* flows, tells reused ports from retransmitted SYNs and gives up a flow   *)
(* that exceeds its budget (analysis/pipeline/dispatch.rs, clock.rs).      *)
(*                                                                         *)
(* A byte is one of two versions.  Sequence numbers are counted modulo     *)
(* Modulus, which stands for 2^32, and ordered as in serial.rs; offsets in *)
(* a stream are not.  The functions take and return the table of flows, as *)
(* the code does: a refused segment leaves it as it was.                   *)
(***************************************************************************)
EXTENDS Integers, Sequences, SequencesExt, FiniteSetsExt

CONSTANTS
  Segments,        \* the segments the capture may hold
  Opposite,         \* the flow of the other direction
  FlowOrder,       \* the flows in the order of their keys
  Modulus,         \* the size of the sequence space
  PageBytes, PageCost, SegmentCost, FlowCost,
  max_flows, max_bytes_per_flow, max_aggregate_bytes, max_segments_per_flow,
  max_half_open, idle_expiry, SweepGranularity,
  FrameCount,      \* the capture ends after this many frames
  LastTick         \* the latest timestamp in it

VARIABLES
  state,      \* running, done or failed
  frames,     \* the frames dispatched
  latest,     \* the capture clock
  swept,      \* when the clock last asked for a sweep, -1 for never
  table,      \* the reassembler
  half_open,  \* the flows whose last segment was a pure SYN
  event,      \* what the last segment was reported to repeat
  events      \* the events of the last frame, in order

tcpVars == <<state, frames, latest, swept, table, half_open, event, events>>

Half == Modulus \div 2

Nothing == [flow |-> ""]

NoFlows == [f \in {} |-> {}]

TcpInit ==
  /\ state = "running"
  /\ frames = 0
  /\ latest = 0
  /\ swept = -1
  /\ table = [flows |-> NoFlows, expiry |-> {}, bytes |-> 0, memory |-> 0]
  /\ half_open = {}
  /\ event = Nothing
  /\ events = <<>>

-----------------------------------------------------------------------------
(* Serial arithmetic (serial.rs) and the state of a flow (tcp/state.rs).   *)

SerialGe(value, base) == (value - base) % Modulus < Half

SerialOffset(value, base) ==
  LET d == (value - base) % Modulus IN IF d < Half THEN d ELSE d - Modulus

Has(t, f) == f \in DOMAIN t.flows

NewFlow(base, now) ==
  [base |-> base, next |-> 0, history |-> <<>>, capacity |-> 0,
   pending |-> [p \in {} |-> 0], pages |-> [k \in {} |-> 0], fin |-> -1, last_update |-> now,
   deadline |-> now + idle_expiry,
   seen |-> [p \in {} |-> 0], out |-> <<>>]

NextSequence(st) == (st.base + st.next) % Modulus

HistoryStart(st) == st.next - Len(st.history)

PageKeys(positions) == {p \div PageBytes : p \in positions}

(* The intervals of a set of positions: its maximal runs.                  *)
Intervals(positions) ==
  LET starts == {p \in positions : p - 1 \notin positions}
      stop(p) == CHOOSE q \in positions : q >= p /\ q + 1 \notin positions /\ p..q \subseteq positions
  IN {<<p, stop(p) + 1>> : p \in starts}

RetainedBytes(st) == Cardinality(DOMAIN st.pending) + Len(st.history)

MemoryParts(pages, segments, capacity, flow) ==
  pages * PageCost + segments * SegmentCost + capacity + (IF flow THEN FlowCost ELSE 0)

MemoryCharge(st) ==
  MemoryParts(Cardinality(DOMAIN st.pages), Cardinality(Intervals(DOMAIN st.pending)), st.capacity, TRUE)

-----------------------------------------------------------------------------
(* Planning a push (tcp/pending.rs, pending/accounting.rs).                *)

First(s) == (s.sequence + (IF s.syn THEN 1 ELSE 0)) % Modulus

(* The part of the payload that is new to the stream, and what the part    *)
(* already delivered disagrees with.                                       *)
Normalize(st, s) ==
  LET absolute == st.next + SerialOffset(First(s), NextSequence(st))
      end == absolute + s.len
      old == absolute..(Min({end, st.next}) - 1)
      keep_alive == /\ s.len = 1 /\ absolute + 1 = st.next
                    /\ ~(s.syn \/ s.fin \/ s.rst)
      known == old \cap HistoryStart(st)..(st.next - 1)
  IN [offset |-> Max({absolute, st.next}),
      end |-> Max({end, absolute, st.next}),
      fin |-> IF s.fin /\ end >= 0 THEN end ELSE -1,
      repeated |-> Cardinality(old),
      conflicting |-> /\ ~keep_alive
                      /\ \E p \in known : st.history[p - HistoryStart(st) + 1] # s.version]

SequenceError(st, in) ==
  IF \/ st.fin # -1 /\ (in.fin \notin {-1, st.fin} \/ in.end > st.fin)
     \/ in.fin # -1 /\ st.next > in.fin
  THEN "malformed"
  ELSE IF in.end > st.next + max_bytes_per_flow THEN "flow_byte" ELSE "none"

PlanMerge(st, in, old) ==
  LET new == in.offset..(in.end - 1)
      affected == IF new = {} THEN {}
                  ELSE {i \in old : i[2] >= in.offset /\ i[1] <= in.end}
      union_end == Max({in.end} \cup {i[2] : i \in affected})
      emits == new # {} /\ in.offset = st.next
  IN [new |-> new,
      overlap |-> new \cap DOMAIN st.pending,
      added |-> Cardinality(new \ DOMAIN st.pending),
      start |-> Min({in.offset} \cup {i[1] : i \in affected}),
      end |-> union_end,
      before |-> Cardinality(old),
      count |-> IF new = {} THEN Cardinality(old)
                ELSE Cardinality(old) + 1 - Cardinality(affected),
      emitted |-> IF emits THEN union_end - st.next ELSE 0,
      direct |-> emits /\ affected = {}]

(* A plausible slip: a page counts as freed although a later interval uses *)
(* it.                                                                     *)
RemainingPagesAll(st, merge) ==
  Cardinality(DOMAIN st.pages \ PageKeys(merge.start..(merge.end - 1)))

(* The pages that will be left once start..end-1 is delivered: the others  *)
(* hold nothing of the intervals before and after.                         *)
RemainingPages(st, merge) ==
  LET before(k) == \E p \in DOMAIN st.pending : p < merge.start /\ p >= k * PageBytes
      after(k) == \E p \in DOMAIN st.pending : p >= merge.end /\ p < (k + 1) * PageBytes
      touched == PageKeys(merge.start..(merge.end - 1)) \cap DOMAIN st.pages
  IN Cardinality(DOMAIN st.pages) - Cardinality({k \in touched : ~before(k) /\ ~after(k)})

HistoryAllocation(current, required, limit) ==
  IF required <= current THEN current ELSE Min({Max({2 * current, required}), limit})

PlanAccounting(t, st, base, s, in, merge) ==
  LET pending == Cardinality(DOMAIN st.pending) + merge.added
      left == pending - merge.emitted
      segments == merge.count - (IF merge.emitted # 0 THEN 1 ELSE 0)
      missing == IF merge.emitted # 0 THEN {} ELSE PageKeys(merge.new) \ DOMAIN st.pages
      pages == IF merge.emitted # 0 THEN RemainingPages(st, merge)
               ELSE Cardinality(DOMAIN st.pages) + Cardinality(missing)
      kept == Min({Len(st.history), max_bytes_per_flow - pending})
      history == Min({kept + merge.emitted, max_bytes_per_flow - left})
      capacity == HistoryAllocation(st.capacity, history, max_bytes_per_flow - left)
      fin == IF st.fin # -1 THEN st.fin ELSE in.fin
      closed == s.rst \/ (fin # -1 /\ st.next + merge.emitted >= fin)
      memory == base.memory + MemoryParts(pages, segments, capacity, ~closed)
  IN [in |-> in, merge |-> merge, kept |-> kept, capacity |-> capacity, closed |-> closed,
      pending |-> pending, segments |-> segments,
      bytes |-> base.bytes + left + history,
      memory |-> memory,
      peak |-> t.memory + Cardinality(missing) * PageCost
                 + (IF merge.direct THEN 0 ELSE merge.emitted)
                 + (IF capacity # st.capacity THEN capacity ELSE 0)
                 + (IF merge.emitted = 0 THEN Max({0, merge.count - merge.before}) * SegmentCost
                    ELSE 0)]

PlanError(st, in, plan) ==
  IF SequenceError(st, in) # "none" THEN SequenceError(st, in)
  ELSE IF plan.pending > max_bytes_per_flow THEN "flow_byte"
  ELSE IF in.fin # -1 /\ (in.end > in.fin \/ \E p \in DOMAIN st.pending : p >= in.fin)
  THEN "malformed"
  ELSE IF plan.segments > max_segments_per_flow THEN "segment"
  ELSE IF Max({plan.bytes, plan.memory, plan.peak}) > max_aggregate_bytes THEN "aggregate"
  ELSE "none"

PlanPush(t, st, base, s, in) ==
  PlanAccounting(t, st, base, s, in, PlanMerge(st, in, Intervals(DOMAIN st.pending)))

-----------------------------------------------------------------------------
(* Committing it (pending/commit.rs).                                      *)

LastOf(seq, n) == SubSeq(seq, Len(seq) - n + 1, Len(seq))

(* A plausible slip: a retransmission overwrites the data held for it.     *)
PayloadOver(pending, merge, s) ==
  [p \in DOMAIN pending \cup merge.new |-> IF p \in merge.new THEN s.version ELSE pending[p]]

Merged(pending, merge, s) ==
  [p \in DOMAIN pending \cup merge.new |->
     IF p \in DOMAIN pending THEN pending[p] ELSE s.version]

OnPage(positions, k) == Cardinality({p \in positions : p \div PageBytes = k})

(* pages::insert and pages::remove: a page counts its live bytes.          *)
PagesWith(pages, added) ==
  [k \in DOMAIN pages \cup PageKeys(added) |->
     (IF k \in DOMAIN pages THEN pages[k] ELSE 0) + OnPage(added, k)]

PagesWithout(pages, removed) ==
  [k \in {j \in DOMAIN pages : pages[j] # OnPage(removed, j)} |-> pages[k] - OnPage(removed, k)]

CommitFlow(st, s, now, plan) ==
  LET merge == plan.merge
      all == Merged(st.pending, merge, s)
      output == [i \in 1..merge.emitted |-> all[st.next + i - 1]]
      rest == {p \in DOMAIN all : p >= st.next + merge.emitted}
      capacity == max_bytes_per_flow - Cardinality(rest)
      history == LastOf(st.history, plan.kept) \o output
  IN [st EXCEPT
        !.pending = [p \in rest |-> all[p]],
        !.pages = IF merge.emitted = 0 THEN PagesWith(@, merge.new \ DOMAIN st.pending)
                  ELSE PagesWithout(@, DOMAIN st.pending \ rest),
        !.history = IF Len(history) > capacity THEN LastOf(history, capacity) ELSE history,
        !.capacity = plan.capacity,
        !.next = @ + merge.emitted,
        !.fin = IF @ = -1 THEN plan.in.fin ELSE @,
        !.last_update = Max({@, now}),
        !.deadline = Max({st.last_update, now}) + idle_expiry,
        !.seen = [p \in DOMAIN @ \cup merge.new |->
                    IF p \in DOMAIN @ THEN @[p] ELSE [version |-> s.version, number |-> frames + 1]],
        !.out = @ \o output]

(* Reassembler::remove_flows.                                              *)
EvictAll(t, fs) ==
  LET gone == fs \cap DOMAIN t.flows
  IN IF gone = {} THEN t
     ELSE [flows |-> [g \in DOMAIN t.flows \ gone |-> t.flows[g]],
           expiry |-> t.expiry \ {<<t.flows[f].deadline, f>> : f \in gone},
           bytes |-> t.bytes - MapThenSumSet(LAMBDA f : RetainedBytes(t.flows[f]), gone),
           memory |-> t.memory - MapThenSumSet(LAMBDA f : MemoryCharge(t.flows[f]), gone)]

Evict(t, f) == EvictAll(t, {f})

(* The events of evicting flows in the order of fs: a flow that waits for  *)
(* data reports its gap.                                                   *)
EvictEvents(t, fs) ==
  FlattenSeq([i \in 1..Len(fs) |->
    IF fs[i] \notin DOMAIN t.flows THEN <<>>
    ELSE (IF DOMAIN t.flows[fs[i]].pending = {} THEN <<>>
          ELSE <<[kind |-> "gap", flow |-> fs[i]]>>)
         \o <<[kind |-> "evicted", flow |-> fs[i]]>>])

InOrder(fs) == SelectSeq(FlowOrder, LAMBDA f : f \in fs)

Refused(t, error) ==
  [table |-> t, error |-> error, closed |-> FALSE, event |-> Nothing, events |-> <<>>]

(* The retransmission reported, and whether it really is one.              *)
Retransmission(st, s, plan) ==
  LET absolute == st.next + SerialOffset(First(s), NextSequence(st))
      touched == absolute..(absolute + s.len - 1)
  IN [flow |-> s.flow,
      conflicting |->
        \/ plan.in.conflicting
        \/ \E p \in plan.merge.overlap : st.pending[p] # s.version,
      clash |-> {p \in touched \cap DOMAIN st.seen : st.seen[p].version # s.version},
      checked |-> DOMAIN st.pending \cup HistoryStart(st)..(st.next - 1),
      probe |-> s.len = 1 /\ absolute + 1 = st.next /\ ~(s.syn \/ s.fin \/ s.rst)]

(* The sequence ranges a push found repeated: below the stream's end, and  *)
(* in the intervals that wait.                                             *)
Repeated(st, s, plan) ==
  (IF plan.in.repeated = 0 THEN {} ELSE {<<First(s), plan.in.repeated>>})
  \cup {<<(st.base + i[1]) % Modulus, i[2] - i[1]>> : i \in Intervals(plan.merge.overlap)}

(* The events of a push: what it repeats, the data it delivers (origin is  *)
(* the frame each byte was first seen in) and the end of the flow.         *)
PushEvents(st, s, plan, after, conflicting) ==
  (IF Repeated(st, s, plan) = {} /\ ~conflicting THEN <<>>
   ELSE <<[kind |-> "retransmission", flow |-> s.flow, ranges |-> Repeated(st, s, plan),
           conflicting |-> conflicting]>>)
  \o (IF plan.merge.emitted = 0 THEN <<>>
      ELSE <<[kind |-> "data", flow |-> s.flow, sequence |-> NextSequence(st),
              bytes |-> LastOf(after.out, plan.merge.emitted),
              origin |-> [i \in 1..plan.merge.emitted |-> after.seen[st.next + i - 1].number]]>>)
  \o (IF plan.closed THEN <<[kind |-> "closed", flow |-> s.flow, reset |-> s.rst]>> ELSE <<>>)

Committed(t, base, st, s, plan, after, report) ==
  [table |->
     IF plan.closed THEN base
     ELSE [flows |-> [g \in DOMAIN t.flows \cup {s.flow} |->
                        IF g = s.flow THEN after ELSE t.flows[g]],
           expiry |-> base.expiry \cup {<<after.deadline, s.flow>>},
           bytes |-> plan.bytes,
           memory |-> plan.memory],
   error |-> "none",
   closed |-> plan.closed,
   event |-> report,
   events |-> PushEvents(st, s, plan, after, report.conflicting)]

CommitPush(t, base, st, s, now, plan) ==
  Committed(t, base, st, s, plan, CommitFlow(st, s, now, plan), Retransmission(st, s, plan))

Planned(t, base, st, s, now, in, plan) ==
  IF PlanError(st, in, plan) # "none" THEN Refused(t, PlanError(st, in, plan))
  ELSE CommitPush(t, base, st, s, now, plan)

PushOn(t, base, st, s, now) ==
  LET in == Normalize(st, s)
  IN Planned(t, base, st, s, now, in, PlanPush(t, st, base, s, in))

(* Reassembler::push: the table after it, the error it returns, whether it *)
(* closed the flow, and the retransmission it reports.                     *)
Push(t, s, now) ==
  LET f == s.flow
      changes == ~Has(t, f) \/ (s.syn /\ t.flows[f].base # First(s))
      last == IF Has(t, f) THEN Max({t.flows[f].last_update, now}) ELSE now
  IN IF changes /\ Cardinality(DOMAIN t.flows \ {f}) >= max_flows
     THEN Refused(t, "flow_limit")
     ELSE PushOn(t, Evict(t, f), IF changes THEN NewFlow(First(s), last) ELSE t.flows[f], s, now)

-----------------------------------------------------------------------------
(* The dispatch of a matched frame (pipeline/dispatch.rs).                 *)

Observed(st) == st.next > 0 \/ DOMAIN st.pending # {} \/ st.fin # -1

(* The flows a SYN shows to belong to an earlier connection.               *)
Reused(t, open, s) ==
  LET r == Opposite[s.flow]
      verdict == IF s.ack = -1 \/ ~Has(t, r) THEN "unknown"
                 ELSE IF SerialGe(s.ack, t.flows[r].base)
                         /\ SerialGe(NextSequence(t.flows[r]), s.ack)
                      THEN "agrees" ELSE "disagrees"
      reuse == IF Has(t, s.flow)
               THEN \/ t.flows[s.flow].base # First(s)
                    \/ verdict = "disagrees"
                    \/ s.ack = -1 /\ s.len = 0 /\ Observed(t.flows[s.flow])
               ELSE IF s.ack # -1 THEN verdict = "disagrees"
               ELSE r \notin open
  IN IF ~s.syn \/ ~reuse THEN {}
     ELSE {s.flow} \cup (IF verdict = "agrees" THEN {} ELSE {r})

After(before, result) == [result EXCEPT !.events = before \o @]

Retried(t, s, now, first) ==
  IF first.error \in {"flow_byte", "segment", "aggregate"}
  THEN After(EvictEvents(t, <<s.flow>>), Push(Evict(t, s.flow), s, now))
  ELSE first

PushWithRetry(t, s, now) == Retried(t, s, now, Push(t, s, now))

Expired(t, now) == {e[2] : e \in {d \in t.expiry : d[1] <= now}}

SweepDue(now) == swept = -1 \/ now - swept >= SweepGranularity

(* A matched frame without anything to push only sweeps, and not always.   *)
Pass(timestamp) ==
  LET now == Max({latest, timestamp})
      expired == IF SweepDue(now) THEN Expired(table, now) ELSE {}
  IN /\ state = "running"
     /\ frames < FrameCount
     /\ frames' = frames + 1
     /\ latest' = now
     /\ swept' = IF SweepDue(now) THEN now ELSE swept
     /\ table' = EvictAll(table, expired)
     /\ half_open' = half_open \ expired
     /\ event' = Nothing
     /\ events' = EvictEvents(table, InOrder(expired))
     /\ UNCHANGED state

DispatchSegment(s, current, open, gone, result) ==
  LET closed == IF result.closed THEN {s.flow} ELSE {}
      cleared == open \ ((gone \cap DOMAIN current.flows) \cup closed)
      pure == s.syn /\ s.ack = -1 /\ s.len = 0
  IN /\ table' = result.table
     /\ event' = result.event
     /\ events' = result.events
     /\ state' = IF result.error = "none" THEN "running" ELSE "failed"
     /\ half_open' = IF result.error # "none" THEN open
                     ELSE IF ~pure THEN cleared \ {s.flow}
                     ELSE IF Cardinality(cleared) < max_half_open THEN cleared \cup {s.flow}
                     ELSE cleared

(* A frame with something to push: a reset empties its payload and takes   *)
(* both directions with it.                                                *)
Dispatch(s, timestamp) ==
  LET now == Max({latest, timestamp})
      current == EvictAll(table, Expired(table, now))
      open == half_open \ Expired(table, now)
      reused == Reused(current, open, s)
      both == <<Opposite[s.flow], s.flow>>
      gone == reused \cup (IF s.rst THEN {s.flow, Opposite[s.flow]} ELSE {})
      before == EvictEvents(table, InOrder(Expired(table, now)))
                \o EvictEvents(current, SelectSeq(both, LAMBDA f : f \in reused))
                \o EvictEvents(EvictAll(current, reused), IF s.rst THEN both ELSE <<>>)
      segment == IF s.rst THEN [s EXCEPT !.len = 0] ELSE s
  IN /\ state = "running"
     /\ frames < FrameCount
     /\ frames' = frames + 1
     /\ latest' = now
     /\ swept' = IF SweepDue(now) THEN now ELSE swept
     /\ DispatchSegment(s, current, open, gone,
                        After(before, PushWithRetry(EvictAll(current, gone), segment, now)))

FlushFlows ==
  /\ state = "running"
  /\ state' = "done"
  /\ table' = EvictAll(table, DOMAIN table.flows)
  /\ event' = Nothing
  /\ events' = EvictEvents(table, InOrder(DOMAIN table.flows))
  /\ UNCHANGED <<frames, latest, swept, half_open>>

TcpNext ==
  \/ \E t \in 0..LastTick : Pass(t)
  \/ \E t \in 0..LastTick, s \in Segments : Dispatch(s, t)
  \/ FlushFlows

TcpSpec == TcpInit /\ [][TcpNext]_tcpVars

-----------------------------------------------------------------------------
(* Properties.                                                             *)

(* The totals of the table are what its flows retain, page by page and     *)
(* descriptor by descriptor, although they are computed before the pages   *)
(* are freed; they respect the limits; and each flow is in the expiry      *)
(* index under its own deadline.                                           *)
FlowsCharged ==
  LET flows == DOMAIN table.flows
  IN /\ table.bytes = MapThenSumSet(LAMBDA f : RetainedBytes(table.flows[f]), flows)
     /\ table.memory = MapThenSumSet(LAMBDA f : MemoryCharge(table.flows[f]), flows)
     /\ table.bytes <= max_aggregate_bytes
     /\ table.memory <= max_aggregate_bytes
     /\ Cardinality(flows) <= max_flows
     /\ table.expiry = {<<table.flows[f].deadline, f>> : f \in flows}
     /\ \A f \in flows :
          LET st == table.flows[f] IN
          /\ DOMAIN st.pages = PageKeys(DOMAIN st.pending)
          /\ \A k \in DOMAIN st.pages : st.pages[k] = OnPage(DOMAIN st.pending, k)
          /\ RetainedBytes(st) <= max_bytes_per_flow
          /\ Len(st.history) <= st.capacity
          /\ Cardinality(Intervals(DOMAIN st.pending)) <= max_segments_per_flow

(* The stream is delivered once, in order, and as it was first seen: what  *)
(* was delivered and what is pending are, offset by offset, the first      *)
(* version that arrived; pending data waits for a gap; nothing lies beyond *)
(* the FIN, and a stream delivered up to its FIN is closed.                *)
StreamExact ==
  \A f \in DOMAIN table.flows :
    LET st == table.flows[f] IN
    /\ Len(st.out) = st.next
    /\ \A i \in 1..st.next : st.out[i] = st.seen[i - 1].version
    /\ DOMAIN st.pending = DOMAIN st.seen \ 0..(st.next - 1)
    /\ \A p \in DOMAIN st.pending : st.pending[p] = st.seen[p].version
    /\ st.next \notin DOMAIN st.pending
    /\ st.history = LastOf(st.out, Len(st.history))
    /\ st.fin # -1 => st.next < st.fin /\ \A p \in DOMAIN st.pending : p < st.fin

(* A retransmission is called conflicting only when it really carries      *)
(* other data than the stream, and always when the data it contradicts is  *)
(* still retained, a keep-alive probe excepted.                            *)
ConflictsReal ==
  event # Nothing =>
    /\ event.conflicting => event.clash # {}
    /\ event.clash \cap event.checked # {} => event.conflicting \/ event.probe

(* What the analysis says of a stream is true of the capture: StreamExact  *)
(* for the data delivered, ConflictsReal for the retransmissions reported. *)
StreamFaithful == StreamExact /\ ConflictsReal
=============================================================================
