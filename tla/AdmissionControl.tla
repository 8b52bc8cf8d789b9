-------------------------- MODULE AdmissionControl --------------------------
(***************************************************************************)
(* What the native worker pool promises its callers about admission,       *)
(* without counters, phases or leases: at most `capacity` grants are out at *)
(* once, at most `data` of them for TCP, a grant is handed out once and    *)
(* returned once, and refusal is the only answer to an exhausted pool.     *)
(***************************************************************************)
EXTENDS Integers, FiniteSets

CONSTANTS Grants, capacity, data

VARIABLES
  out,       \* grants handed out and not returned
  tcp,       \* those of them for TCP connections
  returned   \* grants that were returned

controlVars == <<out, tcp, returned>>

ControlInit == out = {} /\ tcp = {} /\ returned = {}

Grant(g) ==
  /\ g \notin out \cup returned
  /\ Cardinality(out) < capacity
  /\ out' = out \cup {g}
  /\ UNCHANGED <<tcp, returned>>

GrantTcp(g) ==
  /\ g \notin out \cup returned
  /\ Cardinality(out) < capacity /\ Cardinality(tcp) < data
  /\ out' = out \cup {g}
  /\ tcp' = tcp \cup {g}
  /\ UNCHANGED returned

Return(g) ==
  /\ g \in out
  /\ out' = out \ {g}
  /\ tcp' = tcp \ {g}
  /\ returned' = returned \cup {g}

ControlNext == \E g \in Grants : Grant(g) \/ GrantTcp(g) \/ Return(g)

ControlSpec == ControlInit /\ [][ControlNext]_controlVars
=============================================================================
