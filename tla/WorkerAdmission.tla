--------------------------- MODULE WorkerAdmission ---------------------------
(***************************************************************************)
(* Root, TCP data, execution and socket accounting of the native worker    *)
(* pool: packetcraftr-netio/src/workers/admission.rs.                       *)
(*                                                                         *)
(* A grant is one admitted job.  Its charges sit in up to four accounts    *)
(* and move as its phase bits change.  The grant itself is an Arc shared   *)
(* by RootLease clones (the permit travelling with the job, the capture    *)
(* session's lease, the socket); the charge goes back when the last clone  *)
(* is gone.  Every phase transition happens under the pool's state lock,   *)
(* so each is one action; the last clone's destructor takes that lock only *)
(* after the reference count reached zero, so it is an action of its own.  *)
(***************************************************************************)
EXTENDS Integers, FiniteSets

CONSTANTS
  Grants,      \* identities of the grants ever admitted
  capacity,    \* Pool::capacity
  USizeMax,    \* usize::MAX, where the rejection counters saturate
  MaxLeases    \* bound: plain RootLease and SocketPermit clones of one grant

ASSUME CapacityAssumption == capacity \in Nat \ {0}
ASSUME USizeMaxAssumption == USizeMax \in Nat
ASSUME MaxLeasesAssumption == MaxLeases \in Nat \ {0}

Accounts == {"all", "tcp", "execution", "sockets"}
Class == {"Native", "TcpConnect"}
\* The four phase bits, and FRESH for an identity admit_class has not granted yet.
Phase == {"EXECUTING", "SOCKET", "RETAINED", "RELEASED", "FRESH"}

\* A quarter of the root slots, and at least one of several, is kept for control work.
data_capacity ==
  LET reserve == IF capacity \div 4 = 0 /\ capacity > 1 THEN 1 ELSE capacity \div 4
  IN  capacity - reserve

VARIABLES
  active, rejected, retained,  \* Counters, per account
  class,                       \* RetentionMarker::class
  phase,                       \* RetentionMarker::phase, as the set of its bits
  permits,                     \* grants whose Permit (later Job::permit) is alive
  reserved,                    \* grants whose SocketReservation is alive
  leases                       \* the other clones: RootLeases and SocketPermits

admissionVars == <<active, rejected, retained, class, phase, permits, reserved, leases>>

-----------------------------------------------------------------------------
\* The Arc's strong count is zero.
Unowned(g) == g \notin permits \cup reserved /\ leases[g] = 0

Live(g) == phase[g] \cap {"FRESH", "RELEASED"} = {}

counters(c) == {"all"} \cup (IF c = "TcpConnect" THEN {"tcp"} ELSE {})

Charges(g) ==
  counters(class[g])
    \cup (IF "EXECUTING" \in phase[g] THEN {"execution"} ELSE {})
    \cup (IF "SOCKET" \in phase[g] THEN {"sockets"} ELSE {})

Add(f, S, d) == [a \in Accounts |-> IF a \in S THEN f[a] + d ELSE f[a]]

saturating_add(f, S) ==
  [a \in Accounts |-> IF a \in S /\ f[a] < USizeMax THEN f[a] + 1 ELSE f[a]]

\* Mutants of refused: an off-by-one, and a connect that skips the data allocation.
refused_late(c) ==
  \/ active["all"] > capacity
  \/ c = "TcpConnect" /\ active["tcp"] > data_capacity

refused_at_root(c) == active["all"] >= capacity /\ c \in Class

refused(c) ==
  \/ active["all"] >= capacity
  \/ c = "TcpConnect" /\ active["tcp"] >= data_capacity

AdmissionInit ==
  /\ active = [a \in Accounts |-> 0]
  /\ rejected = [a \in Accounts |-> 0]
  /\ retained = [a \in Accounts |-> 0]
  /\ class = [g \in Grants |-> "Native"]
  /\ phase = [g \in Grants |-> {"FRESH"}]
  /\ permits = {}
  /\ reserved = {}
  /\ leases = [g \in Grants |-> 0]

-----------------------------------------------------------------------------
\* admit_class, granted: one charge in every account of the class and one execution.
Admit(g, c) ==
  /\ "FRESH" \in phase[g]
  /\ ~refused(c)
  /\ active' = Add(active, counters(c) \cup {"execution"}, 1)
  /\ class' = [class EXCEPT ![g] = c]
  /\ phase' = [phase EXCEPT ![g] = {"EXECUTING"}]
  /\ permits' = permits \cup {g}
  /\ UNCHANGED <<rejected, retained, reserved, leases>>

\* admit_class, refused: nothing is charged, every account of the class counts it.
Refuse(c) ==
  /\ refused(c)
  /\ rejected' = saturating_add(rejected, counters(c) \cup {"execution"})
  /\ UNCHANGED <<active, retained, class, phase, permits, reserved, leases>>

\* Permit::lease.
Lease(g) ==
  /\ g \in permits
  /\ leases[g] < MaxLeases
  /\ leases' = [leases EXCEPT ![g] = @ + 1]
  /\ UNCHANGED <<active, rejected, retained, class, phase, permits, reserved>>

\* ConnectPermit::into_parts: the only socket promotion right of a connect grant.
\* It consumes the ConnectPermit, so it happens at most once and before any socket.
IntoParts(g) ==
  /\ g \in permits \ reserved
  /\ class[g] = "TcpConnect"
  /\ "SOCKET" \notin phase[g]
  /\ reserved' = reserved \cup {g}
  /\ UNCHANGED <<active, rejected, retained, class, phase, permits, leases>>

\* RetentionMarker::mark_retained, callable at any time after admission: a marker
\* holds no lease and outlives the grant.
MarkRetained(g) ==
  /\ "FRESH" \notin phase[g]
  /\ IF phase[g] \cap {"RETAINED", "RELEASED"} = {}
       THEN /\ phase' = [phase EXCEPT ![g] = @ \cup {"RETAINED"}]
            /\ retained' = Add(retained, Charges(g), 1)
       ELSE UNCHANGED <<phase, retained>>
  /\ UNCHANGED <<active, rejected, class, permits, reserved, leases>>

\* Mutant of IntoSocket: promotion forgets that the grant is already retained.
IntoSocketUnretained(g) ==
  /\ g \in reserved
  /\ reserved' = reserved \ {g}
  /\ leases' = [leases EXCEPT ![g] = @ + 1]
  /\ phase' = [phase EXCEPT ![g] = @ \cup {"SOCKET"}]
  /\ active' = Add(active, {"sockets"}, 1)
  /\ UNCHANGED <<rejected, retained, class, permits>>

\* SocketReservation::into_socket: the reservation's lease becomes the SocketPermit's.
IntoSocket(g) ==
  /\ g \in reserved
  /\ reserved' = reserved \ {g}
  /\ leases' = [leases EXCEPT ![g] = @ + 1]
  /\ phase' = [phase EXCEPT ![g] = @ \cup {"SOCKET"}]
  /\ active' = Add(active, {"sockets"}, 1)
  /\ retained' = IF "RETAINED" \in phase[g] THEN Add(retained, {"sockets"}, 1) ELSE retained
  /\ UNCHANGED <<rejected, class, permits>>

\* RetentionMarker::finish_execution.
FinishExecution(g) ==
  IF "EXECUTING" \in phase[g]
    THEN /\ active' = Add(active, {"execution"}, -1)
         /\ retained' = IF "RETAINED" \in phase[g]
                          THEN Add(retained, {"execution"}, -1) ELSE retained
         /\ phase' = [phase EXCEPT ![g] = @ \ {"EXECUTING"}]
    ELSE UNCHANGED <<active, retained, phase>>

\* RetentionMarker::release, finish_execution included; a second call is a no-op.
Release(g) ==
  IF "RELEASED" \in phase[g]
    THEN UNCHANGED <<active, retained, phase>>
    ELSE /\ active' = Add(active, Charges(g), -1)
         /\ retained' = IF "RETAINED" \in phase[g]
                          THEN Add(retained, Charges(g), -1) ELSE retained
         /\ phase' = [phase EXCEPT ![g] = {"RELEASED"}]

\* Pool::finish_admission: the worker hands in the job's permit.  Arc::into_inner
\* and the release it allows share one critical section.
FinishAdmission(g) ==
  /\ g \in permits
  /\ permits' = permits \ {g}
  /\ IF g \notin reserved /\ leases[g] = 0 THEN Release(g) ELSE FinishExecution(g)
  /\ UNCHANGED <<rejected, class, reserved, leases>>

\* Clones dropped anywhere else: the permit of a job that was never dispatched, an
\* unpromoted reservation, a plain lease or a socket.  Only the count moves.
DropPermit(g) ==
  /\ g \in permits
  /\ permits' = permits \ {g}
  /\ UNCHANGED <<active, rejected, retained, class, phase, reserved, leases>>

DropReservation(g) ==
  /\ g \in reserved
  /\ reserved' = reserved \ {g}
  /\ UNCHANGED <<active, rejected, retained, class, phase, permits, leases>>

DropLease(g) ==
  /\ leases[g] > 0
  /\ leases' = [leases EXCEPT ![g] = @ - 1]
  /\ UNCHANGED <<active, rejected, retained, class, phase, permits, reserved>>

\* Grant::drop, run by whoever dropped the last clone.
DropGrant(g) ==
  /\ Unowned(g)
  /\ Live(g)
  /\ Release(g)
  /\ UNCHANGED <<rejected, class, permits, reserved, leases>>

AdmissionNext ==
  \/ \E c \in Class : Refuse(c) \/ \E g \in Grants : Admit(g, c)
  \/ \E g \in Grants :
       \/ Lease(g) \/ IntoParts(g) \/ MarkRetained(g) \/ IntoSocket(g)
       \/ FinishAdmission(g)
       \/ DropPermit(g) \/ DropReservation(g) \/ DropLease(g) \/ DropGrant(g)

AdmissionSpec == AdmissionInit /\ [][AdmissionNext]_admissionVars

-----------------------------------------------------------------------------
\* Type invariant.  The counters are usize: `active -= 1` never underflows.
AdmissionTypeOK ==
  /\ active \in [Accounts -> Nat]
  /\ rejected \in [Accounts -> 0 .. USizeMax]
  /\ retained \in [Accounts -> Nat]
  /\ class \in [Grants -> Class]
  /\ phase \in [Grants -> SUBSET Phase]
  /\ permits \subseteq Grants
  /\ reserved \subseteq Grants
  /\ leases \in [Grants -> Nat]

ChargedGrants(a) == {g \in Grants : Live(g) /\ a \in Charges(g)}
RetainedGrants(a) == {g \in ChargedGrants(a) : "RETAINED" \in phase[g]}

\* The four accounts are exact in every state: each counts precisely the live grants
\* that carry its charge, and its retained column precisely those marked retained,
\* whatever order finish_execution, into_socket, mark_retained and the last drop take.
ChargesBalance ==
  \A a \in Accounts :
    /\ active[a] = Cardinality(ChargedGrants(a))
    /\ retained[a] = Cardinality(RetainedGrants(a))

\* The root never exceeds its capacity, TCP never its data allocation, and every
\* socket is also charged to the TCP allocation and to the root ("Every socket is
\* also charged once to the aggregate native root").
CapacityRespected ==
  /\ active["all"] <= capacity
  /\ active["tcp"] <= data_capacity
  /\ ChargedGrants("sockets") \subseteq ChargedGrants("tcp")
  /\ active["execution"] <= active["all"]

\* data_capacity keeps a control slot: TCP jobs and sockets alone can never make
\* admit() refuse native control work on a pool of more than one slot.
ControlReserve ==
  capacity > 1 /\ (\A g \in Grants : Live(g) => class[g] = "TcpConnect") => ~refused("Native")

\* Pool admission as a whole: the counters are exactly the charges of the live grants, within
\* their limits, with the control slot kept.
LedgerExact == ChargesBalance /\ CapacityRespected /\ ControlReserve

\* A grant that somebody still owns is never released, and a released one owns nothing:
\* the charge of a running job or an open socket cannot be handed to somebody else.
OwnedGrantsStayCharged ==
  \A g \in Grants : ~Unowned(g) => Live(g)

-----------------------------------------------------------------------------
\* The abstract promise, with the live grants as those handed out.
Control ==
  INSTANCE AdmissionControl
    WITH data <- data_capacity,
         out <- {g \in Grants : Live(g)},
         tcp <- {g \in Grants : Live(g) /\ class[g] = "TcpConnect"},
         returned <- {g \in Grants : "RELEASED" \in phase[g]}

\* The counting pool implements the abstract admission control: its decisions, made
\* from counters that trail the real owners, are the ones the sets would make.
ImplementsControl == Control!ControlSpec
=============================================================================
