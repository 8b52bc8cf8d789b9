------------------------- MODULE AdaptiveController -------------------------
(***************************************************************************)
(* The adaptive scan scheduler as pure operators on its state: which probe *)
(* may run when, how the window moves, and what a settled attempt leaves.  *)
(* packetcraftr/src/scan/adaptive/{controller,controller/settlement,work}. *)
(*                                                                         *)
(* `st` is Controller and Work in one record.  The round-trip estimator is *)
(* a choice of a timeout within the clamp, made by the caller.  A counter  *)
(* that is only compared with a threshold stops there.  Cohort numbers are *)
(* only compared for equality, so a number no live cohort uses is reused.  *)
(***************************************************************************)
EXTENDS Integers, Sequences, FiniteSets, FiniteSetsExt, SequencesExt, TLC

CONSTANTS
  min_window, initial_window, max_in_flight,
  host_timeout, retry_backoff, max_backoff,
  max_attempts,
  Endpoints,              \* endpoint indices of every slot
  Responders,             \* addresses control replies may come from
  INFERENCE_MIN_COMPLETED, INFERENCE_MIN_CONTROL, INFERENCE_MIN_LOSSES

\* Adaptive::validate, with the code's bounds on the attempts of a request.
AdaptiveAssumption ==
  /\ 1 <= min_window /\ min_window <= initial_window /\ initial_window <= max_in_flight
  /\ host_timeout > 0 /\ 0 < retry_backoff /\ retry_backoff <= max_backoff
  /\ max_attempts \in Nat \ {0}

None == -1    \* Option::None for an instant

AtMost(x, y) == IF x < y THEN x ELSE y
AtLeast(x, y) == IF x > y THEN x ELSE y

\* Adaptive::retry_delay.
retry_delay(next_attempt) == AtMost(retry_backoff * 2^(next_attempt - 2), max_backoff)

\* Controller::host_index: a host no stage has seen before.
Host0 == [first |-> None, last |-> None, uncommitted |-> 0, min_gap |-> 0,
          completed |-> 0, control |-> [r \in Responders |-> 0], losses |-> 0, pending_losses |-> 0,
          condition_raised |-> FALSE, incomplete |-> FALSE]

\* Controller::new.
Controller0(H) ==
  [hosts |-> [h \in H |-> Host0], window |-> initial_window, successes |-> 0,
   halved |-> {}, cohort_members |-> [c \in {} |-> 0], defer |-> FALSE]

\* Controller::window.
window(st) == AtMost(st.window, max_in_flight)

mark_incomplete(st, h) == [st EXCEPT !.hosts[h].incomplete = TRUE]

-----------------------------------------------------------------------------
(* Work: which slots may run now, and when the others must be looked at.   *)

\* When the host's pacing gap after its last send ends; None before a send.
gap_end(h) == IF h.last = None THEN None ELSE h.last + h.min_gap

\* Controller::refresh_slot, first part: every index entry of the slot is removed.
unindexed(st, i) ==
  [st EXCEPT !.runnable = @ \ {i},
             !.wakes = @ \ {<<st.slots[i].wake, i>>},
             !.expirations = @ \ {<<st.slots[i].expiration, i>>},
             !.slots[i].wake = None, !.slots[i].expiration = None]

\* Delayed retries must wake even while later first attempts are ready.
retry_times(s, gap) == {AtLeast(d[1], gap) : d \in s.delayed}

\* A paced host sends one attempt at a time.
paced_out(h) == h.min_gap > 0 /\ h.uncommitted > 0

\* Controller::refresh_slot: one slot's entries in the runnable, wake and
\* expiration indexes are replaced by what its state calls for now.
refresh_slot(st, i, now) ==
  LET s == st.slots[i]
      h == st.hosts[s.host]
      expiration == h.first + host_timeout
      expiring == IF h.first = None THEN unindexed(st, i)
                  ELSE [unindexed(st, i) EXCEPT !.expirations = @ \cup {<<expiration, i>>},
                                                !.slots[i].expiration = expiration]
      ready_time == IF s.ready = {} THEN {} ELSE {IF h.last = None THEN now ELSE gap_end(h)}
      wakes == {t \in ready_time : t > now} \cup retry_times(s, gap_end(h))
      running == [expiring EXCEPT !.runnable = @ \cup {j \in {i} : \E t \in ready_time : t <= now}]
  IN IF s.unfinished = 0 THEN unindexed(st, i)
     ELSE IF paced_out(h) THEN expiring
     ELSE IF wakes = {} THEN running
     ELSE [running EXCEPT !.wakes = @ \cup {<<Min(wakes), i>>}, !.slots[i].wake = Min(wakes)]

RefreshAll(st, slots, now) == FoldSet(LAMBDA i, acc : refresh_slot(acc, i, now), st, slots)

\* Controller::open_stage: every endpoint of every target is ready.
open_stage(st, targets, now) ==
  LET fresh == [h \in Endpoints |-> [sent |-> 0, pending |-> FALSE, finished |-> FALSE]]
      slot(h) == [host |-> h, endpoints |-> fresh, ready |-> Endpoints, delayed |-> {},
                  unfinished |-> Cardinality(Endpoints), wake |-> None, expiration |-> None]
      work == [slots |-> [i \in 0 .. Len(targets) - 1 |-> slot(targets[i + 1])],
               cursor |-> 0, runnable |-> {}, wakes |-> {}, expirations |-> {},
               unfinished |-> Len(targets) * Cardinality(Endpoints), canceled |-> 0]
  IN RefreshAll(work @@ st, 0 .. Len(targets) - 1, now)

done(st) == st.unfinished = 0

-----------------------------------------------------------------------------
\* Attempts of these endpoints no provider has started.
Unsent(s, es) == FoldSet(LAMBDA e, sum : sum + max_attempts - s.endpoints[e].sent, 0, es)

\* Mutant of cut_short: a host whose last endpoint is in flight is not cut short.
cut_short_loosely(h, s) == [h EXCEPT !.incomplete = @ \/ s.ready # {} \/ s.delayed # {}]

\* Controller::expire: a host with work left is incomplete.
cut_short(h, s) == [h EXCEPT !.incomplete = @ \/ s.unfinished > 0]

\* Controller::expire, one due expiration: what the slot has left is cancelled.
expire_slot(st, i, now) ==
  LET s == st.slots[i]
      live == {e \in Endpoints : ~s.endpoints[e].finished}
      closed == [s EXCEPT !.expiration = None, !.unfinished = 0, !.ready = {}, !.delayed = {},
                          !.endpoints = [e \in Endpoints |-> [@[e] EXCEPT !.finished = TRUE]]]
  IN refresh_slot([st EXCEPT !.expirations = @ \ {<<s.expiration, i>>},
                             !.slots[i] = closed,
                             !.unfinished = @ - s.unfinished,
                             !.canceled = @ + Unsent(s, live),
                             !.hosts[s.host] = cut_short(@, s)], i, now)

\* Controller::expire, one due wake: due retries become ready.
wake_slot(st, i, now) ==
  LET s == st.slots[i]
      due == {d \in s.delayed : d[1] <= now}
  IN refresh_slot([st EXCEPT !.wakes = @ \ {<<s.wake, i>>},
                             !.slots[i].wake = None,
                             !.slots[i].delayed = @ \ due,
                             !.slots[i].ready = @ \cup {d[2] : d \in due}], i, now)

\* Controller::expire.  No refresh leaves an entry that is due again, so each
\* due slot is taken once.
expire(st, now) ==
  LET Due(index) == {x[2] : x \in {y \in index : y[1] <= now}}
      expired == FoldSet(LAMBDA i, acc : expire_slot(acc, i, now), st, Due(st.expirations))
  IN FoldSet(LAMBDA i, acc : wake_slot(acc, i, now), expired, Due(expired.wakes))

\* A number no live cohort uses, in place of the ever growing counter.
fresh_cohort(st) ==
  Min((0 .. Cardinality(DOMAIN st.cohort_members \cup st.halved))
        \ (DOMAIN st.cohort_members \cup st.halved))

\* The first runnable slot from the cursor on, or else the first of all.
next_slot(st) ==
  LET ahead == {i \in st.runnable : i >= st.cursor}
  IN IF ahead = {} THEN Min(st.runnable) ELSE Min(ahead)

\* Controller::select, one turn of the loop.  The popped endpoint and the slots
\* taken out of `runnable` are kept in held and suppressed to be put back.
select_one(acc, now, operation_end, rtos) ==
  LET st == acc.st
      i == next_slot(st)
      s == st.slots[i]
      h == st.hosts[s.host]
      moved == [st EXCEPT !.cursor = (i + 1) % Cardinality(DOMAIN st.slots)]
      e == Min(s.ready)
      last == s.ready = {e} \/ h.min_gap > 0
      popped == [moved EXCEPT !.slots[i].ready = @ \ {e},
                              !.runnable = IF last THEN @ \ {i} ELSE @]
      taken == [acc EXCEPT !.st = popped, !.held = @ \cup {<<i, e>>},
                           !.suppressed = IF last THEN @ \cup {i} ELSE @]
      host_deadline == AtMost((IF h.first = None THEN now ELSE h.first) + host_timeout, operation_end)
      timeout == AtMost(rtos[s.host], host_deadline - now)
  IN IF s.ready = {} THEN [acc EXCEPT !.st = [moved EXCEPT !.runnable = @ \ {i}]]
     ELSE IF host_deadline <= now
     THEN [taken EXCEPT !.st = [mark_incomplete(popped, s.host) EXCEPT !.runnable = @ \ {i}],
                        !.suppressed = @ \cup {i}]
     ELSE [taken EXCEPT !.selections = Append(@,
             [slot |-> i, endpoint |-> e, host |-> s.host, attempt |-> s.endpoints[e].sent + 1,
              timeout |-> timeout, host_deadline |-> host_deadline, cohort |-> acc.cohort,
              host_limited |-> timeout < rtos[s.host], selected_at |-> now])]

\* Controller::select: a provisional wave of at most `capacity` attempts.
select(st, now, operation_end, capacity, rtos) ==
  LET expired == expire(st, now)
      turns == [k \in 1 .. Cardinality(DOMAIN st.slots) * (Cardinality(Endpoints) + 1) |-> k]
      turn(acc, k) == IF Len(acc.selections) >= capacity \/ acc.st.runnable = {} THEN acc
                      ELSE select_one(acc, now, operation_end, rtos)
      acc == FoldLeft(turn, [st |-> expired, cohort |-> fresh_cohort(st), held |-> {},
                             suppressed |-> {}, selections |-> <<>>], turns)
      restored == [acc.st EXCEPT
                     !.slots = [i \in DOMAIN @ |-> [@[i] EXCEPT
                                  !.ready = @ \cup {x[2] : x \in {y \in acc.held : y[1] = i}}]],
                     !.runnable = @ \cup acc.suppressed]
  IN [st |-> restored, selections |-> acc.selections]

-----------------------------------------------------------------------------
(* Admission, commitment and settlement of one selection.                  *)

Started(h, now) == [h EXCEPT !.first = IF @ = None THEN now ELSE @]

\* Controller::admitted: the attempt leaves the ready index and joins its cohort.
admitted(st, sel) ==
  LET count == IF sel.cohort \in DOMAIN st.cohort_members THEN st.cohort_members[sel.cohort] ELSE 0
  IN refresh_slot(
       [st EXCEPT !.slots[sel.slot].endpoints[sel.endpoint].pending = TRUE,
                  !.slots[sel.slot].ready = @ \ {sel.endpoint},
                  !.cohort_members = (sel.cohort :> count + 1) @@ @,
                  !.hosts[sel.host] = [Started(@, sel.selected_at) EXCEPT !.uncommitted = @ + 1]],
       sel.slot, sel.selected_at)

\* Controller::commit_attempt: the attempt number is used, the host is paced from now.
commit_attempt(st, sel, now) ==
  refresh_slot(
    [st EXCEPT !.slots[sel.slot].endpoints[sel.endpoint].sent = sel.attempt,
               !.hosts[sel.host] = [Started(@, now) EXCEPT !.uncommitted = AtLeast(@ - 1, 0),
                                                           !.last = now]],
    sel.slot, now)

Silences == {"Silent", "UnqualifiedSilence"}
Replies == {"Reply"} \cup Responders    \* a control reply is named by its responder
Outcomes == Silences \cup Replies \cup {"Aborted", "Omitted"}

\* A loss halves the window, never below the minimum.
halve(st) == [st EXCEPT !.window = AtLeast(@ \div 2, min_window), !.successes = 0]

\* Mutant of lost: every loss of a cohort halves the window.
lost_each(st, sel) == halve([st EXCEPT !.halved = @ \cup {sel.cohort}])

\* Controller::settle, Silent: the window is halved once for a cohort.
lost(st, sel) ==
  IF sel.cohort \in st.halved THEN st
  ELSE halve([st EXCEPT !.halved = @ \cup {sel.cohort}])

\* Controller::settle, Reply: a window's worth of replies opens the window by one.
replied(st) ==
  IF st.successes + 1 >= window(st)
  THEN [st EXCEPT !.window = AtMost(@ + 1, max_in_flight), !.successes = 0]
  ELSE [st EXCEPT !.successes = @ + 1]

\* Controller::check_conditions: enough replies of one control responder beside
\* losses pace the host by its timeout from then on.
check_conditions(h, rto) ==
  IF h.condition_raised \/ h.completed < INFERENCE_MIN_COMPLETED \/ h.losses < INFERENCE_MIN_LOSSES
       \/ \A r \in Responders : h.control[r] < INFERENCE_MIN_CONTROL
  THEN h
  ELSE [h EXCEPT !.condition_raised = TRUE,
                 !.min_gap = AtMost(AtLeast(rto, retry_backoff), max_backoff)]

\* Controller::settle, the counters of the host.
counted(h, sel, outcome, uncommitted) ==
  [h EXCEPT !.uncommitted = AtLeast(@ - uncommitted, 0),
            !.completed = IF outcome = "Omitted" THEN @ ELSE AtMost(@ + 1, INFERENCE_MIN_COMPLETED),
            !.control = [r \in Responders |-> IF r = outcome
                                              THEN AtMost(@[r] + 1, INFERENCE_MIN_CONTROL) ELSE @[r]],
            !.losses = IF outcome = "Silent" THEN AtMost(@ + 1, INFERENCE_MIN_LOSSES) ELSE @,
            !.pending_losses = IF outcome = "UnqualifiedSilence"
                               THEN AtMost(@ + 1, INFERENCE_MIN_LOSSES) ELSE @,
            !.incomplete = @ \/ (outcome \in Silences /\ sel.host_limited)]

\* Controller::settle, the window.
adjusted(st, sel, outcome) ==
  CASE outcome \in Replies -> replied(st)
    [] outcome = "Silent" -> lost(st, sel)
    [] OTHER -> st

\* Controller::settle, the slot: a silent attempt short of the last is delayed
\* for its retry unless its host expired meanwhile; any other ends the endpoint.
rescheduled(s, sel, outcome, now) ==
  LET was_finished == s.endpoints[sel.endpoint].finished
      retried == outcome \in Silences /\ sel.attempt < max_attempts
  IN CASE retried /\ ~was_finished ->
            [s EXCEPT !.delayed = @ \cup {<<now + retry_delay(sel.attempt + 1), sel.endpoint>>}]
       [] ~retried /\ ~was_finished ->
            [s EXCEPT !.endpoints[sel.endpoint].finished = TRUE, !.unfinished = @ - 1]
       [] OTHER -> s

\* Controller::settle: the last member takes its cohort's records with it.
left_cohort(st, cohort) ==
  IF cohort \notin DOMAIN st.cohort_members THEN st
  ELSE IF st.cohort_members[cohort] > 1 THEN [st EXCEPT !.cohort_members[cohort] = @ - 1]
  ELSE [st EXCEPT !.cohort_members = [c \in DOMAIN @ \ {cohort} |-> @[c]],
                  !.halved = @ \ {cohort}]

\* Controller::settle.
settle(st, sel, outcome, rto, now) ==
  LET s == st.slots[sel.slot]
      endpoint == s.endpoints[sel.endpoint]
      uncommitted == IF endpoint.pending /\ endpoint.sent < sel.attempt THEN 1 ELSE 0
      idle == [s EXCEPT !.endpoints[sel.endpoint].pending = FALSE, !.ready = @ \ {sel.endpoint}]
      slot == rescheduled(idle, sel, outcome, now)
      unused == IF outcome \in {"Aborted", "Omitted"} /\ ~endpoint.finished
                THEN max_attempts - endpoint.sent ELSE 0
      host == counted(st.hosts[s.host], sel, outcome, uncommitted)
      scored == adjusted([st EXCEPT !.slots[sel.slot] = slot,
                                    !.unfinished = @ - (s.unfinished - slot.unfinished),
                                    !.canceled = @ + unused,
                                    !.hosts[s.host] = host], sel, outcome)
      left == IF endpoint.pending THEN left_cohort(scored, sel.cohort) ELSE scored
      checked == IF left.defer THEN left
                 ELSE [left EXCEPT !.hosts[s.host] = check_conditions(@, rto)]
  IN refresh_slot(checked, sel.slot, now)

\* Controller::qualify_pending, one host: the stage's silence counts as loss
\* only if the capture was complete; otherwise the host is incomplete.
qualify_host(h, permits, rto) ==
  check_conditions(
    [h EXCEPT !.losses = IF permits THEN AtMost(@ + h.pending_losses, INFERENCE_MIN_LOSSES) ELSE @,
              !.incomplete = @ \/ (h.pending_losses > 0 /\ ~permits),
              !.pending_losses = 0], rto)

\* Controller::qualify_pending.
qualify_pending(st, permits, rtos) ==
  LET lossy == permits /\ \E h \in DOMAIN st.hosts : st.hosts[h].pending_losses > 0
      qualified == [st EXCEPT !.defer = FALSE,
                      !.hosts = [h \in DOMAIN @ |-> qualify_host(@[h], permits, rtos[h])]]
  IN IF lossy THEN halve(qualified) ELSE qualified

=============================================================================
