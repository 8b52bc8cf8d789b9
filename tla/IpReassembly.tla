---------------------------- MODULE IpReassembly ----------------------------
(***************************************************************************)
(* IP reassembly of a capture: the reassembler and its memory budget       *)
(* (core analysis/reassembly/ip), the dispatch that counts what it does    *)
(* and retires what it never completes (analysis/pipeline/ip.rs,           *)
(* pipeline.rs), the cascade of datagrams found inside datagrams, and the  *)
(* tracker of the physical frames behind each of them (provenance.rs).     *)
(*                                                                         *)
(* A byte of payload is one of two versions, so that fragments may agree   *)
(* or conflict.  Lengths are counted in units of which Block make the      *)
(* eight bytes an offset counts; a header is the number of its units, and  *)
(* two headers of a length are the same header.  A fragment whose header   *)
(* fields contradict its key is one with valid = FALSE.  The budget of the *)
(* provenance tracker is left out: exceeding it ends the analysis, as      *)
(* Abort does.                                                             *)
(***************************************************************************)
EXTENDS Integers, Sequences, FiniteSetsExt

CONSTANTS
  Keys,            \* the datagram keys, in their order
  Family,          \* the address family of each key
  Inner,           \* the keys of the fragments a datagram of this key may hold
  Fragments,       \* the fragments the capture may hold
  Policies,        \* the overlap policies a user may choose
  Outcomes,        \* the values of max_retained_outcomes
  Block,           \* the units of eight bytes
  MinHeader, Ipv6Header, MaxWire,
  Slot, RangeCost, \* DATAGRAM_METADATA_CHARGE and RANGE_METADATA_CHARGE
  DerivedBase, LayerCost, MaxLayers,   \* the budget of a derived datagram's decoding
  max_datagrams, max_fragments, max_bytes, max_aggregate, idle_expiry,
  FrameCount,      \* the capture ends after this many frames
  LastTick         \* the latest timestamp in it

VARIABLES
  policy, max_outcomes,
  pc,          \* idle, push, derive, done or failed
  clock,       \* the latest capture instant
  number,      \* the frames read
  input,       \* the fragment to push and the frames it comes from
  completed,   \* the datagram that was completed last
  derived,     \* the charge of the datagrams derived from this frame
  datagrams,   \* the datagrams in reassembly
  expiry,      \* the expiry index
  retained,    \* the running totals of the budget
  tracker,     \* the frames each retained key was seen in
  counters,    \* the counters of each family
  report,      \* outcomes kept and omitted
  fact         \* what was really seen of each retained datagram

ipVars == <<policy, max_outcomes, pc, clock, number, input, completed, derived,
            datagrams, expiry, retained, tracker, counters, report, fact>>

Families == {Family[k] : k \in Keys}

Zero == [physical |-> 0, atomic |-> 0, admitted |-> 0, duplicate |-> 0, resolved |-> 0,
         completed |-> 0, expired |-> 0, ended |-> 0, started |-> 0]

None == [key |-> 0]

Empty == [k \in {} |-> {}]

IpInit ==
  /\ policy \in Policies
  /\ max_outcomes \in Outcomes
  /\ pc = "idle"
  /\ clock = 0
  /\ number = 0
  /\ input = None
  /\ completed = None
  /\ derived = 0
  /\ datagrams = Empty
  /\ expiry = {}
  /\ retained = [payload |-> 0, memory |-> 0, slots |-> 0]
  /\ tracker = Empty
  /\ counters = [f \in Families |-> Zero]
  /\ report = [outcomes |-> 0, omitted |-> 0]
  /\ fact = Empty

-----------------------------------------------------------------------------
(* Merging a fragment into the ranges of its datagram (engine/merge.rs).   *)

FEnd(f) == f.offset + f.len

End(r) == r.start + Len(r.bytes)

Cells(r) == r.start..(End(r) - 1)

At(r, p) == r.bytes[p - r.start + 1]

Payload(f) == [i \in 1..f.len |-> f.version]

Overlap(ranges, f) ==
  UNION {{<<r, p>> : p \in Cells(r) \cap f.offset..(FEnd(f) - 1)} : r \in ranges}

PlanMerge(ranges, f) ==
  LET affected == {r \in ranges : End(r) >= f.offset /\ r.start <= FEnd(f)}
      overlap == Overlap(affected, f)
      conflicting == Cardinality({c \in overlap : At(c[1], c[2]) # f.version})
      added == f.len - Cardinality(overlap)
  IN [affected |-> affected,
      start |-> Min({f.offset} \cup {r.start : r \in affected}),
      end |-> Max({FEnd(f)} \cup {End(r) : r \in affected}),
      added |-> added,
      conflicting |-> conflicting,
      count |-> Cardinality(ranges) + 1 - Cardinality(affected),
      kind |-> IF added = 0 /\ conflicting = 0 THEN "Unchanged"
               ELSE IF Cardinality(affected) = 1 /\ added = f.len
                    THEN IF \E r \in affected : End(r) = f.offset THEN "Append"
                         ELSE IF \E r \in affected : r.start = FEnd(f) THEN "Prepend"
                         ELSE "Replace"
                    ELSE "Replace"]

(* A plausible slip: the later fragment always wins.                       *)
MergeLast(f, plan, capacity) ==
  [start |-> plan.start,
   bytes |-> [i \in 1..(plan.end - plan.start) |->
                LET p == plan.start + i - 1 IN
                IF p \in f.offset..(FEnd(f) - 1) THEN f.version
                ELSE At(CHOOSE r \in plan.affected : p \in Cells(r), p)],
   capacity |-> capacity]

MergeAffected(f, plan, capacity) ==
  [start |-> plan.start,
   bytes |-> [i \in 1..(plan.end - plan.start) |->
                LET p == plan.start + i - 1
                    held == {r \in plan.affected : p \in Cells(r)}
                    new == p \in f.offset..(FEnd(f) - 1)
                IN IF new /\ (policy = "Last" \/ held = {}) THEN f.version
                   ELSE At(CHOOSE r \in held : TRUE, p)],
   capacity |-> capacity]

ApplyRangeUpdate(ranges, f, plan, allocation) ==
  LET kept == ranges \ plan.affected
      old == CHOOSE r \in plan.affected : TRUE
  IN IF allocation # 0 THEN kept \cup {MergeAffected(f, plan, allocation)}
     ELSE CASE plan.kind = "Unchanged" -> ranges
            [] plan.kind = "Append" -> kept \cup {[old EXCEPT !.bytes = @ \o Payload(f)]}
            [] plan.kind = "Prepend" ->
                 kept \cup {[old EXCEPT !.bytes = Payload(f) \o @, !.start = f.offset]}

-----------------------------------------------------------------------------
(* What a fragment must satisfy (engine/validation.rs) and the header it   *)
(* leaves with its datagram (engine/reconstruction.rs).                    *)

Retained(key) == key \in DOMAIN datagrams

NoState ==
  [ranges |-> {}, unique |-> 0, fragments |-> 0, final |-> 0, non_final |-> 0, header |-> 0,
   from_zero |-> FALSE, ecn |-> "", last_update |-> 0, charge |-> 0]

State(key) == IF Retained(key) THEN datagrams[key] ELSE NoState

RetainedEnd(st) == Max({0} \cup {End(r) : r \in st.ranges})

(* The length the datagram will have, 0 while it is not known; -1 when the *)
(* fragment contradicts it.                                                *)
PlanFinalLength(st, f) ==
  LET final == IF f.more THEN st.final ELSE FEnd(f)
  IN IF \/ ~f.more /\ st.final \notin {0, final}
        \/ final # 0 /\ (\/ st.non_final = final
                         \/ FEnd(f) > final
                         \/ RetainedEnd(st) > final
                         \/ f.more /\ FEnd(f) >= final)
     THEN -1 ELSE final

IsV4(key) == Family[key] = "ipv4"

Provisional(key) ==
  IF IsV4(key) THEN State(key).header = 0 ELSE ~State(key).from_zero

TakesHeader(f) ==
  IF Retained(f.key) THEN Provisional(f.key) /\ f.offset = 0
  ELSE ~IsV4(f.key) \/ f.offset = 0

HeaderKept(f) == IF TakesHeader(f) THEN f.header ELSE State(f.key).header

(* The length field of IPv6 does not count the fixed header.               *)
OffWire(key) == IF IsV4(key) THEN 0 ELSE Ipv6Header

WireFits(st, f, final) ==
  LET extent == IF final # 0 THEN final ELSE Max({FEnd(f), RetainedEnd(st)})
      own == IF IsV4(f.key) THEN f.offset = 0
             ELSE st.header = 0 \/ (~st.from_zero /\ f.offset = 0)
      prefix == IF own THEN f.header ELSE IF st.header # 0 THEN st.header ELSE MinHeader
  IN prefix - OffWire(f.key) + extent <= MaxWire

ValidFragment(f) ==
  /\ f.valid
  /\ f.offset # 0 \/ f.more
  /\ f.len > 0
  /\ f.more => f.len % Block = 0
  /\ WireFits(NoState, f, IF f.more THEN 0 ELSE FEnd(f))
  /\ FEnd(f) <= max_bytes

ConsistentHeader(f) ==
  ~(IsV4(f.key) /\ f.offset = 0 /\ State(f.key).header \notin {0, f.header})

(* RFC 3168: a mixture of CE and Not-ECT is refused.                       *)
MergeEcn(old, new) ==
  CASE old \in {"", new} -> new
    [] {old, new} = {"Ce", "NotEct"} -> "refused"
    [] "Ce" \in {old, new} -> "Ce"
    [] "NotEct" \in {old, new} -> "NotEct"
    [] OTHER -> "Ect0"

-----------------------------------------------------------------------------
(* The memory a fragment asks for (Reassembler::storage_plan and           *)
(* admit_charges).                                                         *)

Capacities(ranges) == MapThenSumSet(LAMBDA r : r.capacity, ranges)

Required(plan) == plan.end - plan.start

Preferred(plan) ==
  IF plan.kind \in {"Append", "Prepend"}
  THEN Min({Max({2 * Capacities(plan.affected), Required(plan)}), max_bytes})
  ELSE Required(plan)

(* A plausible slip: the ranges that are replaced stay charged.            *)
StorageKept(ranges, plan, capacity) ==
  IF plan.kind = "Unchanged" THEN [payload |-> Capacities(ranges), allocation |-> 0]
  ELSE LET a == Max({capacity, Required(plan)})
       IN [payload |-> Capacities(ranges) + a, allocation |-> a]

StoragePlan(ranges, plan, capacity) ==
  IF \/ plan.kind = "Unchanged"
     \/ plan.kind \in {"Append", "Prepend"} /\ Capacities(plan.affected) >= Required(plan)
  THEN [payload |-> Capacities(ranges), allocation |-> 0]
  ELSE LET a == Max({capacity, Required(plan)})
       IN [payload |-> Capacities(ranges) - Capacities(plan.affected) + a, allocation |-> a]

Completes(plan, final) ==
  final # 0 /\ plan.count = 1 /\ plan.start = 0 /\ plan.end = final

NewSlot(key) ==
  IF ~Retained(key) /\ Cardinality(DOMAIN datagrams) >= retained.slots THEN Slot ELSE 0

Charge(f, plan, storage) == plan.count * RangeCost + storage.payload + HeaderKept(f)

AggregateMemory(f, plan, storage) ==
  retained.memory - State(f.key).charge + Charge(f, plan, storage) + NewSlot(f.key)

(* Old and new storage coexist until every allocation has succeeded.       *)
ReplacementPeak(f, plan, storage) ==
  retained.memory + plan.count * RangeCost + storage.allocation
    + (IF TakesHeader(f) THEN f.header ELSE 0) + NewSlot(f.key) + derived

AdmitCharges(f, plan, final, storage) ==
  /\ State(f.key).unique + plan.added <= max_bytes
  /\ AggregateMemory(f, plan, storage) + derived <= max_aggregate
  /\ ReplacementPeak(f, plan, storage) <= max_aggregate
  /\ Completes(plan, final) =>
       ReplacementPeak(f, plan, storage) + HeaderKept(f) + plan.end <= max_aggregate
  /\ retained.payload + plan.added <= max_aggregate

(* The largest capacity that fits: the code bisects for it.                *)
Fitting(f, plan, final) ==
  {c \in Required(plan)..Preferred(plan) :
     AdmitCharges(f, plan, final, StoragePlan(State(f.key).ranges, plan, c))}

Admissible(f, plan, final) ==
  /\ ValidFragment(f)
  /\ Retained(f.key) \/ Cardinality(DOMAIN datagrams) < max_datagrams
  /\ State(f.key).fragments < max_fragments
  /\ ConsistentHeader(f)
  /\ MergeEcn(State(f.key).ecn, f.ecn) # "refused"
  /\ final # -1
  /\ WireFits(State(f.key), f, final)
  /\ plan.conflicting # 0 => policy # "Reject"
  /\ Fitting(f, plan, final) # {}

-----------------------------------------------------------------------------
(* Retiring datagrams (Reassembler::expire, flush; IpDispatch::drain;      *)
(* Tracker::retire).                                                       *)

Forget(map, keys) == [k \in DOMAIN map \ keys |-> map[k]]

Release(keys) ==
  /\ datagrams' = Forget(datagrams, keys)
  /\ fact' = Forget(fact, keys)
  /\ retained' = [retained EXCEPT
       !.payload = @ - MapThenSumSet(LAMBDA k : datagrams[k].unique, keys),
       !.memory = @ - MapThenSumSet(LAMBDA k : datagrams[k].charge, keys)]

Counted(keys, field) ==
  [f \in Families |->
     [counters[f] EXCEPT ![field] = @ + Cardinality({k \in keys : Family[k] = f})]]

(* A call keeps at most max_outcomes of the outcomes, and so does the report. *)
Reported(n) ==
  LET kept == Min({n, max_outcomes, max_outcomes - report.outcomes})
  IN [outcomes |-> report.outcomes + kept, omitted |-> report.omitted + n - kept]

(* A plausible slip: only an outcome that was kept retires its sources.    *)
RetireKept(keys) == IF Min({Cardinality(keys), max_outcomes}) = 0 THEN tracker
                    ELSE Forget(tracker, keys)

RetireSources(keys) ==
  IF keys = {} THEN tracker ELSE Forget(tracker, DOMAIN tracker \ (DOMAIN datagrams \ keys))

(* The next frame of the capture: the clock never goes back, idle          *)
(* datagrams expire, and the frame holds an atomic fragment, a fragment or *)
(* none of them.                                                           *)
Frame(timestamp, what) ==
  LET now == Max({clock, timestamp})
      due == {e \in expiry : e[1] <= now}
      keys == {e[2] : e \in due}
  IN /\ pc = "idle"
     /\ number < FrameCount
     /\ number' = number + 1
     /\ clock' = now
     /\ expiry' = expiry \ due
     /\ Release(keys)
     /\ report' = Reported(Cardinality(keys))
     /\ tracker' = RetireSources(keys)
     /\ counters' =
          LET c == Counted(keys, "expired")
          IN IF what = "atomic"
             THEN [f \in Families |->
                     IF f = "ipv4" THEN [c[f] EXCEPT !.physical = @ + 1, !.atomic = @ + 1]
                     ELSE c[f]]
             ELSE c
     /\ \/ /\ what \in {"other", "atomic"}
           /\ UNCHANGED <<pc, input>>
        \/ \E f \in Fragments :
             /\ what = "fragment"
             /\ \A k \in Keys : f.key \notin Inner[k]
             /\ pc' = "push"
             /\ input' = [key |-> f.key, fragment |-> f, sources |-> {number + 1}]
     /\ UNCHANGED <<policy, max_outcomes, completed, derived>>

Seen(key) == IF Retained(key) THEN fact[key] ELSE [bytes |-> [p \in {} |-> 0], frames |-> {}]

(* What the policy promises of each byte, fragment after fragment.         *)
Promised(bytes, f) ==
  [p \in DOMAIN bytes \cup f.offset..(FEnd(f) - 1) |->
     IF p \in DOMAIN bytes /\ (policy # "Last" \/ p \notin f.offset..(FEnd(f) - 1))
     THEN bytes[p] ELSE f.version]

Sources(key) == IF key \in DOMAIN tracker THEN tracker[key] ELSE {}

Put(map, key, value) == [k \in DOMAIN map \cup {key} |-> IF k = key THEN value ELSE map[k]]

(* The fragment is admitted and its datagram stays in reassembly.          *)
Accept(f, plan, final, storage) ==
  LET st == State(f.key)
      last == Max({st.last_update, clock})
      deadlines == {e \in expiry : e[2] = f.key}
  IN /\ datagrams' = Put(datagrams, f.key,
          [ranges |-> ApplyRangeUpdate(st.ranges, f, plan, storage.allocation),
           unique |-> st.unique + plan.added,
           fragments |-> st.fragments + 1,
           final |-> final,
           non_final |-> IF f.more THEN Max({st.non_final, FEnd(f)}) ELSE st.non_final,
           header |-> HeaderKept(f),
           from_zero |-> st.from_zero \/ f.offset = 0,
           ecn |-> MergeEcn(st.ecn, f.ecn),
           last_update |-> last,
           charge |-> Charge(f, plan, storage)])
     /\ expiry' = (expiry \ deadlines) \cup {<<last + idle_expiry, f.key>>}
     /\ retained' = [payload |-> retained.payload + plan.added,
                     memory |-> AggregateMemory(f, plan, storage),
                     slots |-> retained.slots + (IF NewSlot(f.key) # 0 THEN 1 ELSE 0)]
     /\ fact' = Put(fact, f.key, [bytes |-> Promised(Seen(f.key).bytes, f),
                                  frames |-> Seen(f.key).frames \cup input.sources])
     /\ pc' = "idle"
     /\ derived' = 0
     /\ UNCHANGED <<completed, report>>

(* The fragment is the last one missing: the datagram leaves reassembly.   *)
Complete(f, plan, final, storage) ==
  LET st == State(f.key)
      whole == ApplyRangeUpdate(st.ranges, f, plan, storage.allocation)
  IN /\ completed' = [key |-> f.key,
                      bytes |-> (CHOOSE r \in whole : TRUE).bytes,
                      header |-> HeaderKept(f),
                      promised |-> Promised(Seen(f.key).bytes, f),
                      frames |-> Seen(f.key).frames \cup input.sources]
     /\ expiry' = {e \in expiry : e[2] # f.key}
     /\ Release({f.key} \cap DOMAIN datagrams)
     /\ report' = Reported(1)
     /\ pc' = "derive"
     /\ UNCHANGED derived

(* IpDispatch::dispatch after Tracker::remember; a refused fragment ends   *)
(* the analysis.                                                           *)
Push ==
  LET f == input.fragment
      st == State(f.key)
      plan == PlanMerge(st.ranges, f)
      final == PlanFinalLength(st, f)
      family == Family[f.key]
  IN /\ pc = "push"
     /\ tracker' = Put(tracker, f.key, Sources(f.key) \cup input.sources)
     /\ IF Admissible(f, plan, final)
        THEN LET storage == StoragePlan(st.ranges, plan, Max(Fitting(f, plan, final)))
                 kind == IF plan.kind = "Unchanged" THEN "duplicate" ELSE "resolved"
                 some == plan.kind = "Unchanged" \/ plan.conflicting # 0
                 done == Completes(plan, final)
             IN /\ counters' = [counters EXCEPT
                     ![family].physical = @ + 1,
                     ![family].admitted = @ + 1,
                     ![family][kind] = @ + (IF some THEN 1 ELSE 0),
                     ![family].completed = @ + (IF done THEN 1 ELSE 0),
                     ![family].started = @ + (IF Retained(f.key) THEN 0 ELSE 1)]
                /\ IF done THEN Complete(f, plan, final, storage)
                   ELSE Accept(f, plan, final, storage)
        ELSE /\ pc' = "failed"
             /\ counters' = [counters EXCEPT ![family].physical = @ + 1]
             /\ UNCHANGED <<completed, derived, datagrams, expiry, retained, report, fact>>
     /\ input' = None
     /\ UNCHANGED <<policy, max_outcomes, clock, number>>

DatagramBytes == completed.header + Len(completed.bytes)

PerLayer == 2 * DatagramBytes + LayerCost

Layers ==
  LET spare == max_aggregate - (derived + retained.memory) - (DerivedBase + DatagramBytes)
  IN IF spare < 0 THEN 0 ELSE Min({MaxLayers, DatagramBytes + 1, spare \div PerLayer})

(* The completed datagram is decoded under the budget that is left, its    *)
(* sources leave the tracker, and a fragment inside it is pushed in turn.  *)
Derive ==
  /\ pc = "derive"
  /\ IF Layers = 0
     THEN /\ pc' = "failed"
          /\ UNCHANGED <<derived, input, completed, tracker>>
     ELSE /\ tracker' = Forget(tracker, {completed.key})
          /\ completed' = None
          /\ \/ /\ pc' = "idle"
                /\ derived' = 0
                /\ input' = None
             \/ \E f \in Fragments :
                  /\ f.key \in Inner[completed.key]
                  /\ pc' = "push"
                  /\ derived' = derived + DerivedBase + DatagramBytes + Layers * PerLayer
                  /\ input' = [key |-> f.key, fragment |-> f,
                               sources |-> Sources(completed.key)]
  /\ UNCHANGED <<policy, max_outcomes, clock, number, datagrams, expiry, retained,
                 counters, report, fact>>

(* The end of the capture: everything still incomplete is reported.        *)
Flush ==
  /\ pc = "idle"
  /\ pc' = "done"
  /\ Release(DOMAIN datagrams)
  /\ expiry' = {}
  /\ counters' = Counted(DOMAIN datagrams, "ended")
  /\ report' = Reported(Cardinality(DOMAIN datagrams))
  /\ tracker' = Empty
  /\ UNCHANGED <<policy, max_outcomes, clock, number, input, completed, derived>>

(* The deadline of the operation passes, or a sink refuses an event.       *)
Abort ==
  /\ pc \in {"idle", "push", "derive"}
  /\ pc' = "failed"
  /\ UNCHANGED <<policy, max_outcomes, clock, number, input, completed, derived, datagrams,
                 expiry, retained, tracker, counters, report, fact>>

IpNext ==
  \/ \E t \in 0..LastTick, what \in {"other", "atomic", "fragment"} : Frame(t, what)
  \/ Push \/ Derive \/ Flush \/ Abort

IpSpec == IpInit /\ [][IpNext]_ipVars

-----------------------------------------------------------------------------
(* Properties.                                                             *)

(* Memory exactly charged: the totals the limits are compared with are the *)
(* storage, descriptors and headers really retained, they stay within the  *)
(* aggregate limit together with the datagrams being derived, and every    *)
(* retained datagram is in the expiry index under its own deadline.        *)
MemoryExact ==
  LET held(k) == Cardinality(datagrams[k].ranges) * RangeCost
                   + Capacities(datagrams[k].ranges) + datagrams[k].header
  IN /\ retained.memory =
          MapThenSumSet(held, DOMAIN datagrams) + retained.slots * Slot
     /\ retained.payload =
          MapThenSumSet(LAMBDA k : Cardinality(DOMAIN fact[k].bytes), DOMAIN datagrams)
     /\ pc \in {"idle", "push"} => retained.memory + derived <= max_aggregate
     /\ retained.slots >= Cardinality(DOMAIN datagrams)
     /\ expiry = {<<datagrams[k].last_update + idle_expiry, k>> : k \in DOMAIN datagrams}

(* The bytes are those the overlap policy promises: the ranges, appended   *)
(* to in place or merged into new storage, hold for every position the     *)
(* version of the first (or last) fragment that carried it; they never     *)
(* touch; a datagram whose every byte is known is not left in reassembly;  *)
(* and a completed one holds exactly the promised bytes, under a header,   *)
(* within the length its wire format can state.                            *)
BytesByPolicy ==
  /\ \A k \in DOMAIN datagrams :
       LET st == datagrams[k] IN
       /\ UNION {Cells(r) : r \in st.ranges} = DOMAIN fact[k].bytes
       /\ \A r \in st.ranges : /\ Len(r.bytes) <= r.capacity
                               /\ \A p \in Cells(r) : At(r, p) = fact[k].bytes[p]
       /\ \A r, s \in st.ranges : r # s => End(r) < s.start \/ End(s) < r.start
       /\ ~(st.final # 0 /\ DOMAIN fact[k].bytes = 0..(st.final - 1))
  /\ pc = "derive" =>
       /\ DOMAIN completed.promised = 0..(Len(completed.bytes) - 1)
       /\ \A p \in DOMAIN completed.promised : completed.bytes[p + 1] = completed.promised[p]
       /\ completed.header > 0
       /\ DatagramBytes - OffWire(completed.key) <= MaxWire

(* Every fragment and every datagram is accounted for: fragments are       *)
(* atomic, admitted or the one that ended the analysis; a datagram once    *)
(* started is completed, retired or still retained; each of the first two  *)
(* is in the report or counted as omitted from it; and the sources of a    *)
(* datagram are the frames of this datagram, whatever was retired under    *)
(* the same key before.                                                    *)
DatagramsAccounted ==
  /\ \A f \in Families :
       LET c == counters[f] IN
       /\ c.physical - c.atomic - c.admitted \in (IF pc = "failed" THEN {0, 1} ELSE {0})
       /\ c.started = c.completed + c.expired + c.ended
                        + Cardinality({k \in DOMAIN datagrams : Family[k] = f})
  /\ report.outcomes <= max_outcomes
  /\ report.outcomes + report.omitted =
       MapThenSumSet(LAMBDA f : counters[f].completed + counters[f].expired
                                  + counters[f].ended, Families)
  /\ pc \in {"idle", "push"} => \A k \in DOMAIN datagrams : tracker[k] = fact[k].frames
  /\ pc \in {"idle", "push"} => DOMAIN tracker = DOMAIN datagrams
  /\ pc = "derive" => tracker[completed.key] = completed.frames
=============================================================================
