----------------------------- MODULE TcpConnect -----------------------------
(***************************************************************************)
(* A bounded TCP connect: the budget it is leased from, the worker that    *)
(* calls the provider, and the caller that polls, cancels or drops it.     *)
(* packetcraftr-netio/src/tcp/connect.rs and Connection in tcp.rs.         *)
(*                                                                         *)
(* The worker pool is used through what WorkerPool shows of it: an admitted*)
(* job runs, its admission is settled, then its outcome is published.  The *)
(* provider is external: it may return, fail or panic at any time.         *)
(***************************************************************************)
EXTENDS Integers, FiniteSets

CONSTANTS
  Attempts,
  capacity,                  \* ConnectBudget::capacity
  MAX_PENDING_CONNECTIONS    \* the pool's connect admissions

ConnectAssumption ==
  IsFiniteSet(Attempts) /\ capacity \in Nat /\ MAX_PENDING_CONNECTIONS \in Nat

VARIABLES
  active,       \* BudgetState::active
  caller,       \* [pc, seen]: where ConnectBudget::start is, and the value it loaded
  handle,       \* the PendingConnect: None, Running, Complete, Failed or Dropped
  lease,        \* owners of the Arc<Lease>: the job's guard, the connection
  permit,       \* owners of the pool admission: the job, the socket
  worker,       \* the job
  cancelled, attempted,      \* CancelState
  expired,      \* the attempt's detached deadline has passed
  stream,       \* "None", "open" or "closed"
  outcome,      \* ConnectOutcome: what was attempted, whether it is a connection
  at,           \* where the outcome is: the worker, the task's slot, the caller
  called,       \* history: the provider was called
  answer        \* history: the last answer of cancel()

connVars == <<active, caller, handle, lease, permit, worker, cancelled, attempted, expired,
              stream, outcome, at, called, answer>>

NoOutcome == [attempted |-> FALSE, result |-> "None"]
Results == {"None", "Connection", "Cancelled", "Expired", "Failed", "Panicked"}

ConnectInit ==
  /\ active = 0
  /\ caller = [a \in Attempts |-> [pc |-> "idle", seen |-> 0]]
  /\ handle = [a \in Attempts |-> "None"]
  /\ lease = [a \in Attempts |-> {}] /\ permit = [a \in Attempts |-> {}]
  /\ worker = [a \in Attempts |-> "None"]
  /\ cancelled = {} /\ attempted = {} /\ expired = {}
  /\ stream = [a \in Attempts |-> "None"]
  /\ outcome = [a \in Attempts |-> NoOutcome]
  /\ at = [a \in Attempts |-> "None"]
  /\ called = {} /\ answer = [a \in Attempts |-> "None"]

-----------------------------------------------------------------------------
(* ConnectBudget::start. *)

\* ConnectBudget::lease, the load.
Load(a) ==
  /\ caller[a].pc = "idle"
  /\ caller' = [caller EXCEPT ![a] = [pc |-> "loaded", seen |-> active]]
  /\ UNCHANGED <<active, handle, lease, permit, worker, cancelled, attempted, expired, stream,
                 outcome, at, called, answer>>

\* ConnectBudget::lease: no capacity left.
LeaseRefused(a) ==
  /\ caller[a].pc = "loaded" /\ caller[a].seen >= capacity
  /\ caller' = [caller EXCEPT ![a].pc = "refused"]
  /\ UNCHANGED <<active, handle, lease, permit, worker, cancelled, attempted, expired, stream,
                 outcome, at, called, answer>>

\* Mutant of CompareExchange: a plain store of the value loaded plus one.
StoreBlindly(a) ==
  /\ caller[a].pc = "loaded" /\ caller[a].seen < capacity
  /\ active' = caller[a].seen + 1
  /\ lease' = [lease EXCEPT ![a] = {"guard"}]
  /\ caller' = [caller EXCEPT ![a].pc = "leased"]
  /\ UNCHANGED <<handle, permit, worker, cancelled, attempted, expired, stream, outcome, at,
                 called, answer>>

\* ConnectBudget::lease, compare_exchange_weak: a stale value, or a spurious
\* failure, only refreshes what was seen.
CompareExchange(a) ==
  /\ caller[a].pc = "loaded" /\ caller[a].seen < capacity
  /\ \/ /\ active = caller[a].seen
        /\ active' = active + 1
        /\ lease' = [lease EXCEPT ![a] = {"guard"}]
        /\ caller' = [caller EXCEPT ![a].pc = "leased"]
     \/ /\ caller' = [caller EXCEPT ![a].seen = active]
        /\ UNCHANGED <<active, lease>>
  /\ UNCHANGED <<handle, permit, worker, cancelled, attempted, expired, stream, outcome, at,
                 called, answer>>

Admissions == {a \in Attempts : permit[a] # {}}

\* Drops owners of an attempt's lease; the last one gives it back to the budget.
Released(a, owners) ==
  /\ lease' = [lease EXCEPT ![a] = @ \ owners]
  /\ active' = IF lease[a] # {} /\ lease[a] \ owners = {} THEN active - 1 ELSE active

\* start_on: the pool refuses, the deadline has passed or dispatch fails; the job
\* and with it the lease are dropped.
StartFails(a) ==
  /\ caller[a].pc = "leased"
  /\ Released(a, {"guard"})
  /\ caller' = [caller EXCEPT ![a].pc = "refused"]
  /\ UNCHANGED <<handle, permit, worker, cancelled, attempted, expired, stream, outcome, at,
                 called, answer>>

\* start_on: admitted and dispatched.
Start(a) ==
  /\ caller[a].pc = "leased" /\ Cardinality(Admissions) < MAX_PENDING_CONNECTIONS
  /\ permit' = [permit EXCEPT ![a] = {"job"}]
  /\ worker' = [worker EXCEPT ![a] = "queued"]
  /\ handle' = [handle EXCEPT ![a] = "Running"]
  /\ at' = [at EXCEPT ![a] = "worker"]
  /\ caller' = [caller EXCEPT ![a].pc = "started"]
  /\ UNCHANGED <<active, lease, cancelled, attempted, expired, stream, outcome, called, answer>>

-----------------------------------------------------------------------------
(* The job on the worker. *)

Ended(a, tried, result) == outcome' = [outcome EXCEPT ![a] = [attempted |-> tried, result |-> result]]

\* Under the cancel lock: a cancelled or expired attempt never calls the provider.
Begin(a) ==
  /\ worker[a] = "queued"
  /\ IF a \in cancelled \cup expired
       THEN /\ Ended(a, FALSE, IF a \in cancelled THEN "Cancelled" ELSE "Expired")
            /\ worker' = [worker EXCEPT ![a] = "ended"]
            /\ UNCHANGED <<attempted, called>>
       ELSE /\ attempted' = attempted \cup {a} /\ called' = called \cup {a}
            /\ worker' = [worker EXCEPT ![a] = "calling"]
            /\ UNCHANGED outcome
  /\ UNCHANGED <<active, caller, handle, lease, permit, cancelled, expired, stream, at, answer>>

\* provider.connect returns a stream.
ProviderConnects(a) ==
  /\ worker[a] = "calling"
  /\ stream' = [stream EXCEPT ![a] = "open"]
  /\ worker' = [worker EXCEPT ![a] = "connected"]
  /\ UNCHANGED <<active, caller, handle, lease, permit, cancelled, attempted, expired, outcome,
                 at, called, answer>>

\* provider.connect fails or panics; the job's captures unwind with it.
ProviderFails(a) ==
  /\ worker[a] = "calling"
  /\ \E result \in {"Failed", "Panicked"} : Ended(a, TRUE, result)
  /\ worker' = [worker EXCEPT ![a] = "ended"]
  /\ UNCHANGED <<active, caller, handle, lease, permit, cancelled, attempted, expired, stream,
                 at, called, answer>>

\* Mutant of Check: a stream that came after cancellation is published.
CheckExpiredOnly(a) ==
  /\ worker[a] = "connected"
  /\ IF a \in expired
       THEN /\ Ended(a, TRUE, "Expired")
            /\ stream' = [stream EXCEPT ![a] = "closed"]
            /\ UNCHANGED <<lease, permit>>
       ELSE /\ Ended(a, TRUE, "Connection")
            /\ lease' = [lease EXCEPT ![a] = @ \cup {"connection"}]
            /\ permit' = [permit EXCEPT ![a] = @ \cup {"socket"}]
            /\ UNCHANGED stream
  /\ worker' = [worker EXCEPT ![a] = "ended"]
  /\ UNCHANGED <<active, caller, handle, cancelled, attempted, expired, at, called, answer>>

\* Under the cancel lock: a late stream is closed, a timely one becomes a
\* connection that owns the socket permit and its share of the lease.
Check(a) ==
  /\ worker[a] = "connected"
  /\ IF a \in cancelled \cup expired
       THEN /\ Ended(a, TRUE, IF a \in cancelled THEN "Cancelled" ELSE "Expired")
            /\ stream' = [stream EXCEPT ![a] = "closed"]
            /\ UNCHANGED <<lease, permit>>
       ELSE /\ Ended(a, TRUE, "Connection")
            /\ lease' = [lease EXCEPT ![a] = @ \cup {"connection"}]
            /\ permit' = [permit EXCEPT ![a] = @ \cup {"socket"}]
            /\ UNCHANGED stream
  /\ worker' = [worker EXCEPT ![a] = "ended"]
  /\ UNCHANGED <<active, caller, handle, cancelled, attempted, expired, at, called, answer>>

\* drop(lease_guard).
DropGuard(a) ==
  /\ worker[a] = "ended"
  /\ Released(a, {"guard"})
  /\ worker' = [worker EXCEPT ![a] = "settling"]
  /\ UNCHANGED <<caller, handle, permit, cancelled, attempted, expired, stream, outcome, at,
                 called, answer>>

\* The pool settles the job's admission, keeping a socket's.
Settle(a) ==
  /\ worker[a] = "settling"
  /\ permit' = [permit EXCEPT ![a] = @ \ {"job"}]
  /\ worker' = [worker EXCEPT ![a] = "publishing"]
  /\ UNCHANGED <<active, caller, handle, lease, cancelled, attempted, expired, stream, outcome,
                 at, called, answer>>

\* Dropping a connection: the stream closes, then permit and lease are released.
Closed(a) ==
  /\ stream' = [stream EXCEPT ![a] = IF @ = "open" THEN "closed" ELSE @]
  /\ permit' = [permit EXCEPT ![a] = @ \ {"socket"}]
  /\ Released(a, {"connection"})

\* Done::publish; without a handle the outcome is destroyed on the worker.
Publish(a) ==
  /\ worker[a] = "publishing"
  /\ worker' = [worker EXCEPT ![a] = "done"]
  /\ IF handle[a] = "Dropped"
       THEN at' = [at EXCEPT ![a] = "gone"] /\ Closed(a)
       ELSE at' = [at EXCEPT ![a] = "slot"] /\ UNCHANGED <<active, lease, permit, stream>>
  /\ UNCHANGED <<caller, handle, cancelled, attempted, expired, outcome, called, answer>>

-----------------------------------------------------------------------------
(* The caller with a PendingConnect. *)

\* PendingConnect::poll, also the end of wait().
Poll(a) ==
  /\ handle[a] = "Running" /\ at[a] = "slot"
  /\ at' = [at EXCEPT ![a] = "caller"]
  /\ handle' = [handle EXCEPT ![a] = IF outcome[a].result = "Panicked" THEN "Failed" ELSE "Complete"]
  /\ UNCHANGED <<active, caller, lease, permit, worker, cancelled, attempted, expired, stream,
                 outcome, called, answer>>

\* PendingConnect::cancel.
Cancel(a) ==
  /\ handle[a] \in {"Running", "Complete", "Failed"} /\ a \notin cancelled
  /\ cancelled' = cancelled \cup {a}
  /\ answer' = [answer EXCEPT ![a] = IF a \in attempted THEN "attempted" ELSE "unattempted"]
  /\ UNCHANGED <<active, caller, handle, lease, permit, worker, attempted, expired, stream,
                 outcome, at, called>>

\* PendingConnect::drop cancels; an outcome still in the slot goes with it.
Drop(a) ==
  /\ handle[a] \in {"Running", "Complete", "Failed"}
  /\ handle' = [handle EXCEPT ![a] = "Dropped"]
  /\ cancelled' = cancelled \cup {a}
  /\ IF at[a] = "slot"
       THEN at' = [at EXCEPT ![a] = "gone"] /\ Closed(a)
       ELSE UNCHANGED <<active, at, lease, permit, stream>>
  /\ UNCHANGED <<caller, worker, attempted, expired, outcome, called, answer>>

\* The caller drops the connection it took.
DropConnection(a) ==
  /\ at[a] = "caller"
  /\ at' = [at EXCEPT ![a] = "gone"]
  /\ Closed(a)
  /\ UNCHANGED <<caller, handle, worker, cancelled, attempted, expired, outcome, called, answer>>

\* The deadline passes.
Expire(a) ==
  /\ worker[a] \in {"queued", "calling", "connected"} /\ a \notin expired
  /\ expired' = expired \cup {a}
  /\ UNCHANGED <<active, caller, handle, lease, permit, worker, cancelled, attempted, stream,
                 outcome, at, called, answer>>

WorkerStep(a) ==
  \/ Begin(a) \/ ProviderConnects(a) \/ ProviderFails(a) \/ Check(a)
  \/ DropGuard(a) \/ Settle(a) \/ Publish(a)

CallerStep(a) ==
  \/ Load(a) \/ LeaseRefused(a) \/ CompareExchange(a) \/ StartFails(a) \/ Start(a)
  \/ Poll(a) \/ Cancel(a) \/ Drop(a) \/ DropConnection(a)

ConnectNext == \E a \in Attempts : WorkerStep(a) \/ CallerStep(a) \/ Expire(a)

ConnectSpec == ConnectInit /\ [][ConnectNext]_connVars

\* Workers run, and a provider call returns: its deadline is enforced by the
\* provider.  Nothing is assumed of the caller.
ConnectFairSpec == ConnectSpec /\ \A a \in Attempts : WF_connVars(WorkerStep(a))
-----------------------------------------------------------------------------
\* Every variable stays within its type and `active` within the budget's range.
ConnectTypeOK ==
  /\ active \in 0 .. capacity
  /\ \A a \in Attempts :
       /\ caller[a].pc \in {"idle", "loaded", "leased", "started", "refused"}
       /\ caller[a].seen \in 0 .. capacity
       /\ handle[a] \in {"None", "Running", "Complete", "Failed", "Dropped"}
       /\ lease[a] \subseteq {"guard", "connection"} /\ permit[a] \subseteq {"job", "socket"}
       /\ worker[a] \in {"None", "queued", "calling", "connected", "ended", "settling",
                         "publishing", "done"}
       /\ stream[a] \in {"None", "open", "closed"}
       /\ outcome[a] \in [attempted : BOOLEAN, result : Results]
       /\ at[a] \in {"None", "worker", "slot", "caller", "gone"}
       /\ answer[a] \in {"None", "attempted", "unattempted"}
  /\ cancelled \subseteq Attempts /\ attempted \subseteq Attempts
  /\ expired \subseteq Attempts /\ called \subseteq Attempts

\* PendingConnect::cancel: after it answers that nothing was attempted the provider
\* is never called, and an outcome says attempted exactly if the provider was called.
CancelHonest ==
  \A a \in Attempts :
    /\ answer[a] # "None" => (answer[a] = "attempted" <=> a \in called)
    /\ outcome[a].result # "None" => (outcome[a].attempted <=> a \in called)

\* "The socket closes before admission releases": an open stream keeps the job or socket
\* admission and the lease, wherever it is and whoever gave up on it, and has an owner that
\* will close it: the running job, the slot of a task somebody holds, or the caller that
\* took it.  ConnectBudget's `active` counts exactly the attempts that hold a lease.
OpenStreamsCharged ==
  /\ ConnectTypeOK
  /\ active = Cardinality({a \in Attempts : lease[a] # {}})
  /\ \A a \in Attempts : stream[a] = "open" =>
       /\ permit[a] # {} /\ lease[a] # {}
       /\ \/ worker[a] \in {"connected", "ended", "settling", "publishing"}
          \/ at[a] = "slot" /\ handle[a] = "Running"
          \/ at[a] = "caller"

\* "A provider may return after cancellation or expiry": no stream becomes a
\* connection once cancel() or drop has returned.
ConnectsOnlyLive ==
  \A a \in cancelled : outcome'[a].result = "Connection" => outcome[a].result = "Connection"

\* The same of every step: what a provider returns too late is never published as a connection.
NoLateConnection == [][ConnectsOnlyLive]_connVars

\* "Dropping it cancels unstarted work" and a running worker keeps its permit only
\* through cleanup: a dropped attempt gives back admission, lease and socket.
Abandoned(a) == handle[a] = "Dropped" /\ at[a] # "caller"
Settled(a) == permit[a] = {} /\ lease[a] = {} /\ stream[a] # "open"
DroppedAttemptsEnd == \A a \in Attempts : Abandoned(a) ~> Settled(a)

\* What a connect tells its caller is true and what it leaves open is paid for.
ConnectHonest == CancelHonest /\ OpenStreamsCharged

-----------------------------------------------------------------------------
(* The inductive invariant of ConnectHonest. *)

ConnectDomains ==
  /\ caller \in [Attempts -> [pc : {"idle", "loaded", "leased", "started", "refused"},
                              seen : 0 .. capacity]]
  /\ handle \in [Attempts -> {"None", "Running", "Complete", "Failed", "Dropped"}]
  /\ lease \in [Attempts -> SUBSET {"guard", "connection"}]
  /\ permit \in [Attempts -> SUBSET {"job", "socket"}]
  /\ worker \in [Attempts -> {"None", "queued", "calling", "connected", "ended", "settling",
                              "publishing", "done"}]
  /\ stream \in [Attempts -> {"None", "open", "closed"}]
  /\ outcome \in [Attempts -> [attempted : BOOLEAN, result : Results]]
  /\ at \in [Attempts -> {"None", "worker", "slot", "caller", "gone"}]
  /\ answer \in [Attempts -> {"None", "attempted", "unattempted"}]
  /\ cancelled \subseteq Attempts /\ attempted \subseteq Attempts
  /\ expired \subseteq Attempts /\ called \subseteq Attempts

\* What the job has done by each of its steps.
JobFollows(a) ==
  /\ caller[a].pc = "started" <=> worker[a] # "None"
  /\ worker[a] \in {"None", "queued", "calling", "connected"} =>
       /\ outcome[a].result = "None" /\ stream[a] = (IF worker[a] = "connected" THEN "open" ELSE "None")
       /\ a \in called <=> worker[a] \in {"calling", "connected"}
       /\ lease[a] = (IF worker[a] # "None" \/ caller[a].pc = "leased" THEN {"guard"} ELSE {})
       /\ permit[a] = (IF worker[a] # "None" THEN {"job"} ELSE {})
  /\ worker[a] \in {"ended", "settling", "publishing", "done"} =>
       /\ outcome[a].result # "None"
       /\ outcome[a].attempted <=> a \in called
       /\ "guard" \in lease[a] <=> worker[a] = "ended"
       /\ "job" \in permit[a] <=> worker[a] \in {"ended", "settling"}
       /\ "connection" \in lease[a] <=> stream[a] = "open"
       /\ "socket" \in permit[a] <=> stream[a] = "open"

\* Who has the outcome, and what the caller knows of it.
OutcomeFollows(a) ==
  /\ at[a] = "None" <=> worker[a] = "None"
  /\ at[a] = "worker" <=> worker[a] \notin {"None", "done"}
  /\ at[a] = "slot" => handle[a] = "Running"
  /\ at[a] = "gone" => stream[a] # "open"
  /\ handle[a] = "None" <=> worker[a] = "None"
  /\ handle[a] \in {"Complete", "Failed"} => at[a] \in {"caller", "gone"}
  /\ a \in attempted <=> a \in called
  /\ a \in cancelled => handle[a] # "None"
  /\ answer[a] # "None" => a \in cancelled /\ (answer[a] = "attempted" <=> a \in called)

ConnectInv ==
  /\ active \in 0 .. capacity /\ ConnectDomains
  /\ active = Cardinality({a \in Attempts : lease[a] # {}})
  /\ \A a \in Attempts : JobFollows(a) /\ OutcomeFollows(a)
=============================================================================
