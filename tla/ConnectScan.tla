----------------------------- MODULE ConnectScan -----------------------------
(***************************************************************************)
(* The adaptive connect scan: one thread that settles its pending connects,*)
(* asks the controller for a wave and admits it under the connect budget.  *)
(* packetcraftr/src/scan/connect/engine.rs run_stage_adaptive,             *)
(* connect/attempts.rs, connect/accounting.rs.                             *)
(*                                                                         *)
(* A pending connect is used through what TcpConnect shows of it: it ends  *)
(* at any time, and a cancelled one holds its lease until its worker       *)
(* returns.  The clock moves between any two steps.                        *)
(***************************************************************************)
EXTENDS AdaptiveController

CONSTANTS
  Hosts, Timeouts, operation_end,
  delay,            \* StagePlan::delay, the rate limit between two starts
  capacity          \* ConnectBudget and pool admissions together

ScanAssumption ==
  operation_end \in Nat /\ delay \in Nat /\ capacity \in Nat \ {0} /\ \A t \in Timeouts : t > 0

VARIABLES
  st,               \* Controller and Work
  active,           \* Vec<Active>
  index,            \* the settling loop's position in it
  settled, settled_at,       \* outcomes of this round, not yet told to the controller
  wave,             \* selections of this round, not yet admitted
  next_start,       \* Progress::next_start
  lingering,        \* cancelled connects whose worker has not returned
  pc, now,
  scheduled, recorded,       \* Stats::connections_scheduled; history: probes recorded
  ended             \* history: how each endpoint's last recorded probe ended

scanVars == <<st, active, index, settled, settled_at, wave, next_start, lingering, pc, now,
              scheduled, recorded, ended>>

ScanInit ==
  /\ st = open_stage(Controller0(Hosts), SetToSortSeq(Hosts, <), 0)
  /\ active = <<>> /\ index = 1 /\ settled = <<>> /\ settled_at = 0 /\ wave = <<>>
  /\ next_start = 0 /\ lingering = 0 /\ pc = "settle" /\ now = 0
  /\ scheduled = 0 /\ recorded = 0
  /\ ended = [x \in (DOMAIN st.slots) \X Endpoints |-> "None"]

-----------------------------------------------------------------------------
(* Settling. *)

\* A settled entry's outcome is kept for the controller, and a connect that never
\* reached the provider makes its host incomplete.
Noted(entry, outcome) ==
  /\ settled' = Append(settled, [sel |-> entry.sel, outcome |-> outcome])
  /\ st' = IF outcome = "Omitted" THEN mark_incomplete(st, entry.sel.host) ELSE st

\* One entry leaves `active` and is noted; its probe is recorded and published.
Removed(outcome) ==
  LET entry == active[index] IN
  /\ active' = RemoveAt(active, index)
  /\ Noted(entry, outcome)
  /\ recorded' = recorded + 1
  /\ ended' = [ended EXCEPT ![<<entry.sel.slot, entry.sel.endpoint>>] = outcome]
  /\ UNCHANGED <<index, settled_at, wave, next_start, pc, now, scheduled>>

\* settle_active, finish_probe: the connect has ended, however late this is seen.
SettleFinished(outcome) ==
  /\ pc = "settle" /\ index \in DOMAIN active /\ now < operation_end
  /\ Removed(outcome)
  /\ UNCHANGED lingering

\* settle_active: past its timeout the connect is cancelled; cancel() says whether
\* the provider was called.
SettleExpired(outcome) ==
  /\ pc = "settle" /\ index \in DOMAIN active /\ now < operation_end
  /\ now - active[index].started >= active[index].timeout
  /\ Removed(outcome)
  /\ lingering' = lingering + 1

\* settle_active: still running.
SettleLater ==
  /\ pc = "settle" /\ index \in DOMAIN active /\ now < operation_end
  /\ now - active[index].started < active[index].timeout
  /\ index' = index + 1
  /\ UNCHANGED <<st, active, settled, settled_at, wave, next_start, lingering, pc, now, scheduled,
                 recorded, ended>>

\* The controller hears the round's outcomes with one time for all of them.
Reconcile ==
  /\ pc = "settle" /\ index \notin DOMAIN active
  /\ settled_at' = now
  /\ pc' = "reconcile"
  /\ UNCHANGED <<st, active, index, settled, wave, next_start, lingering, now, scheduled, recorded,
                 ended>>

\* controller.settle for one of them.
Settle(rto) ==
  /\ pc = "reconcile" /\ settled # <<>>
  /\ st' = settle(st, Head(settled).sel, Head(settled).outcome, rto, settled_at)
  /\ settled' = Tail(settled)
  /\ UNCHANGED <<active, index, settled_at, wave, next_start, lingering, pc, now, scheduled,
                 recorded, ended>>

Ended == done(st) /\ active = <<>>

-----------------------------------------------------------------------------
(* Admission. *)

\* A wave within the window and the admissions; cancelled responses are not
\* reserved in a connect scan, so their count is not read.
Select(rtos) ==
  /\ pc = "reconcile" /\ settled = <<>> /\ ~Ended /\ now < operation_end
  /\ LET room == AtLeast(AtMost(window(st), max_in_flight) - Len(active), 0)
         chosen == select(st, now, operation_end, room, rtos)
     IN st' = [chosen.st EXCEPT !.canceled = 0] /\ wave' = chosen.selections
  /\ pc' = "admit"
  /\ UNCHANGED <<active, index, settled, settled_at, next_start, lingering, now, scheduled,
                 recorded, ended>>

\* The host's time box ended before its connect could start.
AdmitOmitted(rto) ==
  /\ pc = "admit" /\ wave # <<>>
  /\ LET sel == Head(wave) IN
     /\ now >= sel.host_deadline
     /\ st' = [settle(mark_incomplete(st, sel.host), sel, "Omitted", rto, now) EXCEPT !.canceled = 0]
     /\ ended' = [ended EXCEPT ![<<sel.slot, sel.endpoint>>] = "Omitted"]
  /\ wave' = Tail(wave)
  /\ UNCHANGED <<active, index, settled, settled_at, next_start, lingering, pc, now, scheduled,
                 recorded>>

\* Controller::host_gap_ready.
host_gap_ready(h) == h.last = None \/ h.last + h.min_gap <= now

\* ConnectBudget::active: live connects and cancelled ones still on a worker.
Held == Len(active) + lingering

\* The rest of the wave waits: for the rate limit, for the host's gap, or for an
\* admission to come free.
AdmitLater ==
  /\ pc = "admit" /\ wave # <<>>
  /\ LET sel == Head(wave) IN
     /\ now < sel.host_deadline
     /\ now < next_start \/ ~host_gap_ready(st.hosts[sel.host]) \/ Held >= capacity
  /\ wave' = <<>>
  /\ UNCHANGED <<st, active, index, settled, settled_at, next_start, lingering, pc, now, scheduled,
                 recorded, ended>>

\* budget.start: the connect is admitted and its attempt number used up at once.
Admit ==
  /\ pc = "admit" /\ wave # <<>>
  /\ LET sel == Head(wave)
         timeout == AtMost(sel.timeout, sel.host_deadline - now)
         limited == [sel EXCEPT !.host_limited = @ \/ timeout < sel.timeout]
     IN /\ now < sel.host_deadline
        /\ now >= next_start /\ host_gap_ready(st.hosts[sel.host]) /\ Held < capacity
        /\ st' = commit_attempt(admitted(st, limited), limited, now)
        /\ active' = Append(active, [sel |-> limited, started |-> now, timeout |-> timeout])
  /\ wave' = Tail(wave)
  /\ next_start' = now + delay
  /\ scheduled' = scheduled + 1
  /\ UNCHANGED <<index, settled, settled_at, lingering, pc, now, recorded, ended>>

\* The wave is dealt with; the thread sleeps and begins another round.
Again ==
  /\ pc = "admit" /\ wave = <<>> /\ ~Ended
  /\ pc' = "settle" /\ index' = 1
  /\ UNCHANGED <<st, active, settled, settled_at, wave, next_start, lingering, now, scheduled,
                 recorded, ended>>

\* Either check for the end of the stage.
Done ==
  /\ \/ pc = "reconcile" /\ settled = <<>>
     \/ pc = "admit" /\ wave = <<>>
  /\ Ended
  /\ pc' = "done"
  /\ UNCHANGED <<st, active, index, settled, settled_at, wave, next_start, lingering, now,
                 scheduled, recorded, ended>>

-----------------------------------------------------------------------------
(* Failures end the scan, and every pending connect is dropped. *)

\* record: the evidence budget is exceeded; or emit: the consumer fails after the
\* probe was counted.  The entry was taken out of `active` before, and its connect
\* has ended or was cancelled.
RecordFails(outcome) ==
  /\ pc = "settle" /\ index \in DOMAIN active /\ now < operation_end
  /\ Noted(active[index], outcome)
  /\ recorded' \in {recorded, recorded + 1}
  /\ pc' = "failed" /\ active' = <<>>
  /\ lingering' \in {Held - 1, Held}
  /\ UNCHANGED <<index, settled_at, wave, next_start, now, scheduled, ended>>

\* The operation's deadline, a poll, the authorizer, a start that fails for another
\* reason than capacity, or the clock.
Fail ==
  /\ \/ pc \notin {"done", "failed"} /\ now >= operation_end
     \/ pc = "settle" /\ index \in DOMAIN active
     \/ pc = "admit"
  /\ pc' = "failed" /\ active' = <<>>
  /\ lingering' = Held
  /\ UNCHANGED <<st, index, settled, settled_at, wave, next_start, now, scheduled, recorded, ended>>

\* The worker of a cancelled connect returns and releases its lease.
WorkerReturns ==
  /\ lingering > 0
  /\ lingering' = lingering - 1
  /\ UNCHANGED <<st, active, index, settled, settled_at, wave, next_start, pc, now, scheduled,
                 recorded, ended>>

Tick ==
  /\ pc \notin {"done", "failed"} /\ now < operation_end
  /\ now' = now + 1
  /\ UNCHANGED <<st, active, index, settled, settled_at, wave, next_start, lingering, pc, scheduled,
                 recorded, ended>>

Step ==
  \/ \E outcome \in {"Reply", "Silent", "Aborted", "Omitted"} :
       SettleFinished(outcome) \/ RecordFails(outcome)
  \/ \E outcome \in {"Aborted", "Omitted"} : SettleExpired(outcome)
  \/ SettleLater \/ Reconcile
  \/ \E rto \in Timeouts : Settle(rto) \/ AdmitOmitted(rto)
  \/ \E rtos \in [Hosts -> Timeouts] : Select(rtos)
  \/ AdmitLater \/ Admit \/ Again \/ Done \/ Fail

ScanNext == Step \/ WorkerReturns \/ Tick

ScanSpec == ScanInit /\ [][ScanNext]_scanVars
-----------------------------------------------------------------------------
OpenEndpoints(i) == {e \in Endpoints : ~st.slots[i].endpoints[e].finished}

\* active and the outcomes not yet reconciled: attempts the controller knows as pending.
Known == {active[k].sel : k \in DOMAIN active} \cup {settled[k].sel : k \in DOMAIN settled}

\* The loop's positions and counters stay in range.
ScanTypeOK ==
  /\ pc \in {"settle", "reconcile", "admit", "done", "failed"}
  /\ index \in 1 .. max_in_flight + 1 /\ lingering \in 0 .. capacity
  /\ now \in 0 .. operation_end /\ next_start \in 0 .. operation_end + delay
  /\ st.unfinished \in 0 .. Cardinality(Hosts) * Cardinality(Endpoints)

\* Controller::settle: "halved" makes the losses of one wave halve the window once,
\* however their settlements are spread over rounds.  run_stage_adaptive: the window bounds
\* what is in flight, and an admission never exceeds it nor the connect budget held by
\* live and cancelled connects together.
HalvesOnce ==
  /\ st'.window < st.window =>
       Head(settled).outcome = "Silent" /\ Head(settled).sel.cohort \notin st.halved
  /\ st'.window \in min_window .. max_in_flight
  /\ Len(active') > Len(active) => Len(active') <= window(st) /\ Held' <= capacity

HalvedOncePerCohort == [][HalvesOnce]_scanVars

\* Unless the scan fails, every connect that was scheduled is recorded exactly once, no
\* unfinished endpoint is lost between ready, delayed, wave, active and settled, and the
\* record of a cohort goes with its last member.  A host not reported incomplete had each
\* endpoint ended by what its connect saw.
EveryConnectRecorded ==
  /\ ScanTypeOK
  /\ pc # "failed" =>
       /\ scheduled = recorded + Len(active)
       /\ \A i \in DOMAIN st.slots : \A e \in OpenEndpoints(i) :
            Cardinality({x \in {"ready"} : e \in st.slots[i].ready}
                          \cup {d \in st.slots[i].delayed : d[2] = e}
                          \cup {sel \in Known : sel.slot = i /\ sel.endpoint = e}) = 1
       /\ st.halved \subseteq DOMAIN st.cohort_members
       /\ \A c \in DOMAIN st.cohort_members :
            st.cohort_members[c] = Cardinality({sel \in Known : sel.cohort = c})
  /\ \A x \in DOMAIN ended :
       LET s == st.slots[x[1]]
           endpoint == s.endpoints[x[2]] IN
       /\ endpoint.finished /\ ~endpoint.pending
       /\ ended[x] = "Omitted" \/ (ended[x] \in {"None", "Silent"} /\ endpoint.sent < max_attempts)
       => st.hosts[s.host].incomplete
=============================================================================
