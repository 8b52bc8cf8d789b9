-------------------------- MODULE SchedulingProofs --------------------------
(***************************************************************************)
(* What is shared is shared exactly: the worker pool's accounting is exact *)
(* and bounded for every capacity and any set of grants, and a capture     *)
(* group closes as a whole, spends its limits and serves its members in    *)
(* turn for any number of them.                                            *)
(***************************************************************************)
EXTENDS WorkerAdmission, CaptureGroup, FiniteSetTheorems, WellFoundedInduction, TLAPS

Carries(g, a) == Live(g) /\ a \in Charges(g)
Keeps(g, a) == Carries(g, a) /\ "RETAINED" \in phase[g]

\* What the phase bits of one grant may be, and who may own it.
PhaseOK ==
  \A g \in Grants :
    /\ "FRESH" \in phase[g] => phase[g] = {"FRESH"} /\ Unowned(g)
    /\ "RELEASED" \in phase[g] => phase[g] = {"RELEASED"} /\ Unowned(g)
    /\ g \in reserved => class[g] = "TcpConnect" /\ "SOCKET" \notin phase[g]
    /\ "SOCKET" \in phase[g] => class[g] = "TcpConnect"

FiniteCharges == IsFiniteSet(ChargedGrants("all"))

\* The inductive invariant.
AdmissionInv ==
  /\ AdmissionTypeOK
  /\ PhaseOK
  /\ FiniteCharges
  /\ ChargesBalance
  /\ active["all"] <= capacity
  /\ active["tcp"] <= data_capacity

-----------------------------------------------------------------------------
\* The data allocation is a proper part of a pool of several slots.
LEMMA DataCapacity ==
  /\ data_capacity \in Nat
  /\ data_capacity <= capacity
  /\ capacity > 1 => data_capacity < capacity
  BY CapacityAssumption DEF data_capacity

\* Every account's charged grants are among the root's, hence finitely many.
LEMMA ChargedFinite ==
  ASSUME FiniteCharges
  PROVE  \A a \in Accounts :
           /\ IsFiniteSet(ChargedGrants(a))
           /\ IsFiniteSet(RetainedGrants(a))
           /\ ChargedGrants(a) \subseteq ChargedGrants("all")
<1> TAKE a \in Accounts
<1>1. ChargedGrants(a) \subseteq ChargedGrants("all")
  BY DEF ChargedGrants, Charges, counters
<1>2. RetainedGrants(a) \subseteq ChargedGrants("all")
  BY <1>1 DEF RetainedGrants
<1> QED
  BY <1>1, <1>2, FS_Subset DEF FiniteCharges

\* Counting one element more or less.
LEMMA CountOne ==
  ASSUME NEW S, NEW x, IsFiniteSet(S)
  PROVE  /\ IsFiniteSet(S \cup {x}) /\ IsFiniteSet(S \ {x})
         /\ Cardinality(S) \in Nat
         /\ Cardinality(S \cup {x}) = IF x \in S THEN Cardinality(S) ELSE Cardinality(S) + 1
         /\ Cardinality(S \ {x}) = IF x \in S THEN Cardinality(S) - 1 ELSE Cardinality(S)
  BY FS_AddElement, FS_RemoveElement, FS_CardinalityType

One(b) == IF b THEN 1 ELSE 0

\* A step that touches one grant keeps the accounts exact if each account moves by
\* exactly the charge that grant gained or lost.
LEMMA Recount ==
  ASSUME AdmissionInv,
         NEW g \in Grants,
         \A h \in Grants \ {g} : phase'[h] = phase[h] /\ class'[h] = class[h],
         active' \in [Accounts -> Int],
         retained' \in [Accounts -> Int],
         \A a \in Accounts : active'[a] = active[a] + One(Carries(g, a)') - One(Carries(g, a)),
         \A a \in Accounts : retained'[a] = retained[a] + One(Keeps(g, a)') - One(Keeps(g, a))
  PROVE  /\ FiniteCharges'
         /\ ChargesBalance'
         /\ active' \in [Accounts -> Nat]
         /\ retained' \in [Accounts -> Nat]
<1>1. \A h \in Grants \ {g}, a \in Accounts :
         /\ Carries(h, a)' <=> Carries(h, a)
         /\ Keeps(h, a)' <=> Keeps(h, a)
  BY DEF Carries, Keeps, Live, Charges
<1>2. \A a \in Accounts :
         /\ ChargedGrants(a) = {h \in Grants : Carries(h, a)}
         /\ RetainedGrants(a) = {h \in Grants : Keeps(h, a)}
         /\ ChargedGrants(a)' = {h \in Grants : Carries(h, a)'}
         /\ RetainedGrants(a)' = {h \in Grants : Keeps(h, a)'}
  BY DEF ChargedGrants, RetainedGrants, Carries, Keeps
<1>3. ASSUME NEW a \in Accounts
      PROVE  /\ IsFiniteSet(ChargedGrants(a)')
             /\ active'[a] = Cardinality(ChargedGrants(a)')
             /\ active'[a] \in Nat
  <2> DEFINE S == ChargedGrants(a)
  <2>1. IsFiniteSet(S) /\ active[a] = Cardinality(S)
    BY ChargedFinite DEF AdmissionInv, ChargesBalance
  <2>2. g \in S <=> Carries(g, a)
    BY <1>2
  <2>3. S' = IF Carries(g, a)' THEN S \cup {g} ELSE S \ {g}
    BY <1>1, <1>2
  <2>4. active'[a] = active[a] + One(Carries(g, a)') - One(Carries(g, a))
    OBVIOUS
  <2> HIDE DEF S
  <2>5. /\ IsFiniteSet(S \cup {g}) /\ IsFiniteSet(S \ {g})
        /\ Cardinality(S) \in Nat
        /\ Cardinality(S \cup {g}) = IF g \in S THEN Cardinality(S) ELSE Cardinality(S) + 1
        /\ Cardinality(S \ {g}) = IF g \in S THEN Cardinality(S) - 1 ELSE Cardinality(S)
    BY <2>1, CountOne
  <2>6. Cardinality(S') \in Nat /\ IsFiniteSet(S')
    BY <2>3, <2>5, FS_CardinalityType
  <2>7. active'[a] = Cardinality(S')
    <3>1. CASE Carries(g, a)' /\ Carries(g, a)
      BY <3>1, <2>1, <2>2, <2>3, <2>4, <2>5 DEF One
    <3>2. CASE Carries(g, a)' /\ ~Carries(g, a)
      BY <3>2, <2>1, <2>2, <2>3, <2>4, <2>5 DEF One
    <3>3. CASE ~(Carries(g, a)') /\ Carries(g, a)
      BY <3>3, <2>1, <2>2, <2>3, <2>4, <2>5 DEF One
    <3>4. CASE ~(Carries(g, a)') /\ ~Carries(g, a)
      BY <3>4, <2>1, <2>2, <2>3, <2>4, <2>5 DEF One
    <3> QED
      BY <3>1, <3>2, <3>3, <3>4
  <2> QED
    BY <2>6, <2>7 DEF S
<1>4. ASSUME NEW a \in Accounts
      PROVE  /\ retained'[a] = Cardinality(RetainedGrants(a)')
             /\ retained'[a] \in Nat
  <2> DEFINE S == RetainedGrants(a)
  <2>1. IsFiniteSet(S) /\ retained[a] = Cardinality(S)
    BY ChargedFinite DEF AdmissionInv, ChargesBalance
  <2>2. g \in S <=> Keeps(g, a)
    BY <1>2
  <2>3. S' = IF Keeps(g, a)' THEN S \cup {g} ELSE S \ {g}
    BY <1>1, <1>2
  <2>4. retained'[a] = retained[a] + One(Keeps(g, a)') - One(Keeps(g, a))
    OBVIOUS
  <2> HIDE DEF S
  <2>5. /\ IsFiniteSet(S \cup {g}) /\ IsFiniteSet(S \ {g})
        /\ Cardinality(S) \in Nat
        /\ Cardinality(S \cup {g}) = IF g \in S THEN Cardinality(S) ELSE Cardinality(S) + 1
        /\ Cardinality(S \ {g}) = IF g \in S THEN Cardinality(S) - 1 ELSE Cardinality(S)
    BY <2>1, CountOne
  <2>6. Cardinality(S') \in Nat
    BY <2>3, <2>5, FS_CardinalityType
  <2>7. retained'[a] = Cardinality(S')
    <3>1. CASE Keeps(g, a)' /\ Keeps(g, a)
      BY <3>1, <2>1, <2>2, <2>3, <2>4, <2>5 DEF One
    <3>2. CASE Keeps(g, a)' /\ ~Keeps(g, a)
      BY <3>2, <2>1, <2>2, <2>3, <2>4, <2>5 DEF One
    <3>3. CASE ~(Keeps(g, a)') /\ Keeps(g, a)
      BY <3>3, <2>1, <2>2, <2>3, <2>4, <2>5 DEF One
    <3>4. CASE ~(Keeps(g, a)') /\ ~Keeps(g, a)
      BY <3>4, <2>1, <2>2, <2>3, <2>4, <2>5 DEF One
    <3> QED
      BY <3>1, <3>2, <3>3, <3>4
  <2> QED
    BY <2>6, <2>7 DEF S
<1> QED
  BY <1>3, <1>4 DEF FiniteCharges, ChargesBalance, Accounts

-----------------------------------------------------------------------------
USE DEF One

\* Adding to a set of accounts.
LEMMA AddType ==
  ASSUME NEW f \in [Accounts -> Nat], NEW S, NEW d \in Int
  PROVE  /\ Add(f, S, d) \in [Accounts -> Int]
         /\ \A a \in Accounts : Add(f, S, d)[a] = f[a] + IF a \in S THEN d ELSE 0
  BY DEF Add

\* release takes every charge of the grant out of every account, once.
LEMMA ReleaseCounts ==
  ASSUME AdmissionInv, NEW g \in Grants, Live(g), Release(g), class' = class
  PROVE  /\ FiniteCharges' /\ ChargesBalance'
         /\ active' \in [Accounts -> Nat] /\ retained' \in [Accounts -> Nat]
         /\ phase' = [phase EXCEPT ![g] = {"RELEASED"}]
         /\ active'["all"] <= active["all"] /\ active'["tcp"] <= active["tcp"]
<1> USE DEF AdmissionInv, AdmissionTypeOK
<1>1. /\ active' = Add(active, Charges(g), -1)
      /\ retained' = IF "RETAINED" \in phase[g] THEN Add(retained, Charges(g), -1) ELSE retained
      /\ phase' = [phase EXCEPT ![g] = {"RELEASED"}]
  BY DEF Release, Live
<1>2. \A h \in Grants \ {g} : phase'[h] = phase[h] /\ class'[h] = class[h]
  BY <1>1
<1>3. \A a \in Accounts : ~(Carries(g, a)') /\ ~(Keeps(g, a)')
  BY <1>1 DEF Carries, Keeps, Live
<1>4. \A a \in Accounts : /\ Carries(g, a) <=> a \in Charges(g)
                          /\ Keeps(g, a) <=> a \in Charges(g) /\ "RETAINED" \in phase[g]
  BY DEF Carries, Keeps
<1>5. active' \in [Accounts -> Int] /\ retained' \in [Accounts -> Int]
  BY <1>1, AddType
<1>6. \A a \in Accounts : active'[a] = active[a] + One(Carries(g, a)') - One(Carries(g, a))
  BY <1>1, <1>3, <1>4, AddType
<1>7. \A a \in Accounts : retained'[a] = retained[a] + One(Keeps(g, a)') - One(Keeps(g, a))
  BY <1>1, <1>3, <1>4, AddType
<1>8. active'["all"] <= active["all"] /\ active'["tcp"] <= active["tcp"]
  BY <1>3, <1>6 DEF Accounts
<1> QED
  BY <1>1, <1>2, <1>5, <1>6, <1>7, <1>8, Recount

\* finish_execution takes only the execution charge.
LEMMA FinishExecutionCounts ==
  ASSUME AdmissionInv, NEW g \in Grants, Live(g), FinishExecution(g), class' = class
  PROVE  /\ FiniteCharges' /\ ChargesBalance'
         /\ active' \in [Accounts -> Nat] /\ retained' \in [Accounts -> Nat]
         /\ phase' = [phase EXCEPT ![g] = @ \ {"EXECUTING"}]
         /\ active'["all"] <= active["all"] /\ active'["tcp"] <= active["tcp"]
<1> USE DEF AdmissionInv, AdmissionTypeOK
<1>1. CASE "EXECUTING" \in phase[g]
  <2>1. /\ active' = Add(active, {"execution"}, -1)
        /\ retained' = IF "RETAINED" \in phase[g] THEN Add(retained, {"execution"}, -1) ELSE retained
        /\ phase' = [phase EXCEPT ![g] = @ \ {"EXECUTING"}]
    BY <1>1 DEF FinishExecution
  <2>2. \A h \in Grants \ {g} : phase'[h] = phase[h] /\ class'[h] = class[h]
    BY <2>1
  <2>3. \A a \in Accounts : Carries(g, a) <=> (a = "execution" \/ Carries(g, a)')
    BY <1>1, <2>1 DEF Carries, Live, Charges, counters, Accounts
  <2>4. ~(Carries(g, "execution")')
    BY <2>1 DEF Carries, Charges, counters
  <2>5. \A a \in Accounts : /\ Keeps(g, a) <=> Carries(g, a) /\ "RETAINED" \in phase[g]
                            /\ Keeps(g, a)' <=> Carries(g, a)' /\ "RETAINED" \in phase[g]
    BY <2>1 DEF Keeps
  <2>6. active' \in [Accounts -> Int] /\ retained' \in [Accounts -> Int]
    BY <2>1, AddType
  <2>7. \A a \in Accounts : active'[a] = active[a] + One(Carries(g, a)') - One(Carries(g, a))
    BY <2>1, <2>3, <2>4, AddType
  <2>8. \A a \in Accounts : retained'[a] = retained[a] + One(Keeps(g, a)') - One(Keeps(g, a))
    BY <2>1, <2>3, <2>4, <2>5, AddType
  <2>9. active'["all"] = active["all"] /\ active'["tcp"] = active["tcp"]
    BY <2>1, AddType DEF Accounts
  <2> QED
    BY <2>1, <2>2, <2>6, <2>7, <2>8, <2>9, Recount DEF Accounts
<1>2. CASE "EXECUTING" \notin phase[g]
  BY <1>2, DataCapacity DEF FinishExecution, FiniteCharges, ChargesBalance, ChargedGrants, RetainedGrants,
        Live, Charges, Accounts
<1> QED
  BY <1>1, <1>2

\* Steps that change no phase, class, active or retained entry leave the accounts alone.
LEMMA UncountedStep ==
  ASSUME AdmissionInv, UNCHANGED <<active, retained, class, phase>>
  PROVE  FiniteCharges' /\ ChargesBalance'
  BY DEF AdmissionInv, FiniteCharges, ChargesBalance, ChargedGrants, RetainedGrants,
         Live, Charges, Accounts

\* Every step of the pool's admission keeps the invariant.
LEMMA AdmissionStep ==
  ASSUME AdmissionInv, [AdmissionNext]_admissionVars
  PROVE  AdmissionInv'
<1> USE DEF AdmissionInv, AdmissionTypeOK
<1>1. ASSUME NEW c \in Class, Refuse(c)
      PROVE  AdmissionInv'
  <2>1. rejected' \in [Accounts -> 0 .. USizeMax]
    BY <1>1, USizeMaxAssumption DEF Refuse, saturating_add
  <2>2. FiniteCharges' /\ ChargesBalance'
    BY <1>1, UncountedStep DEF Refuse
  <2> QED
    BY <1>1, <2>1, <2>2 DEF Refuse, PhaseOK, Unowned
<1>2. ASSUME NEW c \in Class, NEW g \in Grants, Admit(g, c)
      PROVE  AdmissionInv'
  <2>1. /\ phase' = [phase EXCEPT ![g] = {"EXECUTING"}] /\ phase[g] = {"FRESH"}
        /\ class' = [class EXCEPT ![g] = c]
        /\ active' = Add(active, counters(c) \cup {"execution"}, 1)
        /\ retained' = retained /\ rejected' = rejected
        /\ permits' = permits \cup {g} /\ reserved' = reserved /\ leases' = leases
        /\ g \notin permits /\ g \notin reserved
    BY <1>2 DEF Admit, PhaseOK, Unowned
  <2>2. \A h \in Grants \ {g} : phase'[h] = phase[h] /\ class'[h] = class[h]
    BY <2>1
  <2>3. \A a \in Accounts : /\ Carries(g, a)' <=> a \in counters(c) \cup {"execution"}
                            /\ ~Carries(g, a) /\ ~Keeps(g, a) /\ ~(Keeps(g, a)')
    BY <2>1 DEF Carries, Keeps, Live, Charges, counters, Accounts
  <2>4. active' \in [Accounts -> Int] /\ retained' \in [Accounts -> Int]
    BY <2>1, AddType
  <2>5. \A a \in Accounts : active'[a] = active[a] + One(Carries(g, a)') - One(Carries(g, a))
    BY <2>1, <2>3, AddType
  <2>6. \A a \in Accounts : retained'[a] = retained[a] + One(Keeps(g, a)') - One(Keeps(g, a))
    BY <2>1, <2>3
  <2>7. /\ FiniteCharges' /\ ChargesBalance'
        /\ active' \in [Accounts -> Nat] /\ retained' \in [Accounts -> Nat]
    BY <2>2, <2>4, <2>5, <2>6, Recount
  <2>8. active'["all"] <= capacity /\ active'["tcp"] <= data_capacity
    <3>1. active["all"] < capacity /\ (c = "TcpConnect" => active["tcp"] < data_capacity)
      BY <1>2, CapacityAssumption, DataCapacity DEF Admit, refused, Accounts
    <3>2. /\ active'["all"] = active["all"] + 1
          /\ active'["tcp"] = active["tcp"] + IF c = "TcpConnect" THEN 1 ELSE 0
      BY <2>1, AddType DEF counters, Accounts
    <3> QED
      BY <3>1, <3>2, CapacityAssumption, DataCapacity DEF Accounts
  <2>9. PhaseOK'
    BY <2>1, <2>2 DEF PhaseOK, Unowned
  <2> QED
    BY <2>1, <2>7, <2>8, <2>9 DEF Class, Phase
<1>3. ASSUME NEW g \in Grants, Lease(g)
      PROVE  AdmissionInv'
  <2>1. FiniteCharges' /\ ChargesBalance'
    BY <1>3, UncountedStep DEF Lease
  <2> QED
    BY <1>3, <2>1 DEF Lease, PhaseOK, Unowned
<1>4. ASSUME NEW g \in Grants, IntoParts(g)
      PROVE  AdmissionInv'
  <2>1. FiniteCharges' /\ ChargesBalance'
    BY <1>4, UncountedStep DEF IntoParts
  <2> QED
    BY <1>4, <2>1 DEF IntoParts, PhaseOK, Unowned
<1>5. ASSUME NEW g \in Grants, MarkRetained(g)
      PROVE  AdmissionInv'
  <2>1. CASE phase[g] \cap {"RETAINED", "RELEASED"} = {}
    <3>1. /\ phase' = [phase EXCEPT ![g] = @ \cup {"RETAINED"}]
          /\ retained' = Add(retained, Charges(g), 1)
          /\ active' = active /\ class' = class /\ rejected' = rejected
          /\ permits' = permits /\ reserved' = reserved /\ leases' = leases
          /\ Live(g) /\ "RETAINED" \notin phase[g]
      BY <1>5, <2>1 DEF MarkRetained, Live
    <3>2. \A h \in Grants \ {g} : phase'[h] = phase[h] /\ class'[h] = class[h]
      BY <3>1
    <3>3. \A a \in Accounts : /\ Carries(g, a)' <=> a \in Charges(g)
                              /\ Carries(g, a) <=> a \in Charges(g)
                              /\ Keeps(g, a)' <=> a \in Charges(g)
                              /\ ~Keeps(g, a)
      BY <3>1 DEF Carries, Keeps, Live, Charges
    <3>4. active' \in [Accounts -> Int] /\ retained' \in [Accounts -> Int]
      BY <3>1, AddType
    <3>5. \A a \in Accounts : active'[a] = active[a] + One(Carries(g, a)') - One(Carries(g, a))
      BY <3>1, <3>3
    <3>6. \A a \in Accounts : retained'[a] = retained[a] + One(Keeps(g, a)') - One(Keeps(g, a))
      BY <3>1, <3>3, AddType
    <3>7. /\ FiniteCharges' /\ ChargesBalance'
          /\ active' \in [Accounts -> Nat] /\ retained' \in [Accounts -> Nat]
      BY <3>2, <3>4, <3>5, <3>6, Recount
    <3>8. PhaseOK'
      BY <3>1 DEF PhaseOK, Unowned, Live
    <3> QED
      BY <3>1, <3>7, <3>8 DEF Phase
  <2>2. CASE phase[g] \cap {"RETAINED", "RELEASED"} # {}
    <3>1. UNCHANGED admissionVars
      BY <1>5, <2>2 DEF MarkRetained, admissionVars
    <3>2. FiniteCharges' /\ ChargesBalance'
      BY <3>1, UncountedStep DEF admissionVars
    <3> QED
      BY <3>1, <3>2 DEF admissionVars, PhaseOK, Unowned
  <2> QED
    BY <2>1, <2>2
<1>6. ASSUME NEW g \in Grants, IntoSocket(g)
      PROVE  AdmissionInv'
  <2>1. /\ phase' = [phase EXCEPT ![g] = @ \cup {"SOCKET"}]
        /\ active' = Add(active, {"sockets"}, 1)
        /\ retained' = IF "RETAINED" \in phase[g] THEN Add(retained, {"sockets"}, 1) ELSE retained
        /\ class' = class /\ rejected' = rejected
        /\ permits' = permits /\ reserved' = reserved \ {g}
        /\ leases' = [leases EXCEPT ![g] = @ + 1]
        /\ Live(g) /\ "SOCKET" \notin phase[g] /\ class[g] = "TcpConnect"
    BY <1>6 DEF IntoSocket, PhaseOK, Unowned, Live
  <2>2. \A h \in Grants \ {g} : phase'[h] = phase[h] /\ class'[h] = class[h]
    BY <2>1
  <2>3. /\ \A a \in Accounts : Carries(g, a)' <=> (a = "sockets" \/ Carries(g, a))
        /\ ~Carries(g, "sockets")
    BY <2>1 DEF Carries, Live, Charges, counters, Accounts
  <2>4. \A a \in Accounts : /\ Keeps(g, a) <=> Carries(g, a) /\ "RETAINED" \in phase[g]
                            /\ Keeps(g, a)' <=> Carries(g, a)' /\ "RETAINED" \in phase[g]
    BY <2>1 DEF Keeps
  <2>5. active' \in [Accounts -> Int] /\ retained' \in [Accounts -> Int]
    BY <2>1, AddType
  <2>6. \A a \in Accounts : active'[a] = active[a] + One(Carries(g, a)') - One(Carries(g, a))
    BY <2>1, <2>3, AddType
  <2>7. \A a \in Accounts : retained'[a] = retained[a] + One(Keeps(g, a)') - One(Keeps(g, a))
    BY <2>1, <2>3, <2>4, AddType
  <2>8. /\ FiniteCharges' /\ ChargesBalance'
        /\ active' \in [Accounts -> Nat] /\ retained' \in [Accounts -> Nat]
    BY <2>2, <2>5, <2>6, <2>7, Recount
  <2>9. active'["all"] = active["all"] /\ active'["tcp"] = active["tcp"]
    BY <2>1, AddType DEF Accounts
  <2>10. PhaseOK'
    BY <2>1 DEF PhaseOK, Unowned, Live
  <2> QED
    BY <2>1, <2>8, <2>9, <2>10 DEF Phase
<1>7. ASSUME NEW g \in Grants, FinishAdmission(g)
      PROVE  AdmissionInv'
  <2>1. Live(g)
    BY <1>7 DEF FinishAdmission, PhaseOK, Unowned, Live
  <2>2. /\ permits' = permits \ {g} /\ reserved' = reserved /\ leases' = leases
        /\ rejected' = rejected /\ class' = class
    BY <1>7 DEF FinishAdmission
  <2>3. CASE g \notin reserved /\ leases[g] = 0
    <3>1. Release(g)
      BY <1>7, <2>3 DEF FinishAdmission
    <3>2. /\ FiniteCharges' /\ ChargesBalance'
          /\ active' \in [Accounts -> Nat] /\ retained' \in [Accounts -> Nat]
          /\ phase' = [phase EXCEPT ![g] = {"RELEASED"}]
          /\ active'["all"] <= active["all"] /\ active'["tcp"] <= active["tcp"]
      BY <2>1, <2>2, <3>1, ReleaseCounts
    <3>3. PhaseOK'
      BY <2>2, <2>3, <3>2 DEF PhaseOK, Unowned
    <3> QED
      BY <2>2, <3>2, <3>3, CapacityAssumption, DataCapacity DEF Phase, Accounts
  <2>4. CASE ~(g \notin reserved /\ leases[g] = 0)
    <3>1. FinishExecution(g)
      BY <1>7, <2>4 DEF FinishAdmission
    <3>2. /\ FiniteCharges' /\ ChargesBalance'
          /\ active' \in [Accounts -> Nat] /\ retained' \in [Accounts -> Nat]
          /\ phase' = [phase EXCEPT ![g] = @ \ {"EXECUTING"}]
          /\ active'["all"] <= active["all"] /\ active'["tcp"] <= active["tcp"]
      BY <2>1, <2>2, <3>1, FinishExecutionCounts
    <3>3. PhaseOK'
      BY <2>1, <2>2, <2>4, <3>2 DEF PhaseOK, Unowned, Live
    <3> QED
      BY <2>2, <3>2, <3>3, CapacityAssumption, DataCapacity DEF Phase, Accounts
  <2> QED
    BY <2>3, <2>4
<1>8. ASSUME NEW g \in Grants, DropPermit(g) \/ DropReservation(g) \/ DropLease(g)
      PROVE  AdmissionInv'
  <2>1. FiniteCharges' /\ ChargesBalance'
    BY <1>8, UncountedStep DEF DropPermit, DropReservation, DropLease
  <2>2. leases' \in [Grants -> Nat]
    BY <1>8 DEF DropPermit, DropReservation, DropLease
  <2>3. PhaseOK'
    BY <1>8 DEF DropPermit, DropReservation, DropLease, PhaseOK, Unowned
  <2> QED
    BY <1>8, <2>1, <2>2, <2>3 DEF DropPermit, DropReservation, DropLease
<1>9. ASSUME NEW g \in Grants, DropGrant(g)
      PROVE  AdmissionInv'
  <2>1. /\ permits' = permits /\ reserved' = reserved /\ leases' = leases
        /\ rejected' = rejected /\ class' = class
        /\ Live(g) /\ Unowned(g) /\ Release(g)
    BY <1>9 DEF DropGrant
  <2>2. /\ FiniteCharges' /\ ChargesBalance'
        /\ active' \in [Accounts -> Nat] /\ retained' \in [Accounts -> Nat]
        /\ phase' = [phase EXCEPT ![g] = {"RELEASED"}]
        /\ active'["all"] <= active["all"] /\ active'["tcp"] <= active["tcp"]
    BY <2>1, ReleaseCounts
  <2>3. PhaseOK'
    BY <2>1, <2>2 DEF PhaseOK, Unowned
  <2> QED
    BY <2>1, <2>2, <2>3, CapacityAssumption, DataCapacity DEF Phase, Accounts
<1>10. CASE UNCHANGED admissionVars
  <2>1. FiniteCharges' /\ ChargesBalance'
    BY <1>10, UncountedStep DEF admissionVars
  <2> QED
    BY <1>10, <2>1 DEF admissionVars, PhaseOK, Unowned
<1> QED
  BY <1>1, <1>2, <1>3, <1>4, <1>5, <1>6, <1>7, <1>8, <1>9, <1>10 DEF AdmissionNext

\* The invariant holds in the empty pool.
LEMMA AdmissionStart == AdmissionInit => AdmissionInv
<1> SUFFICES ASSUME AdmissionInit PROVE AdmissionInv
  OBVIOUS
<1>1. \A a \in Accounts : ChargedGrants(a) = {} /\ RetainedGrants(a) = {}
  BY DEF AdmissionInit, ChargedGrants, RetainedGrants, Live
<1>2. FiniteCharges /\ ChargesBalance
  BY <1>1, FS_EmptySet DEF AdmissionInit, FiniteCharges, ChargesBalance, Accounts
<1>3. PhaseOK
  BY DEF AdmissionInit, PhaseOK, Unowned
<1>4. AdmissionTypeOK
  BY USizeMaxAssumption DEF AdmissionInit, AdmissionTypeOK, Class, Phase
<1> QED
  BY <1>2, <1>3, <1>4, CapacityAssumption, DataCapacity DEF AdmissionInv, AdmissionInit, Accounts

\* The pool's accounting keeps its inductive invariant in every reachable state.
THEOREM AdmissionInvariance == AdmissionSpec => []AdmissionInv
  BY AdmissionStart, AdmissionStep, PTL DEF AdmissionSpec

-----------------------------------------------------------------------------
\* The root never exceeds its capacity, TCP never its data allocation, every socket is
\* also charged to both, and no more work executes than the root admitted.
THEOREM CapacityTheorem == AdmissionSpec => []CapacityRespected
<1>1. AdmissionInv => CapacityRespected
  <2> SUFFICES ASSUME AdmissionInv PROVE CapacityRespected
    OBVIOUS
  <2>1. ChargedGrants("sockets") \subseteq ChargedGrants("tcp")
    BY DEF AdmissionInv, PhaseOK, ChargedGrants, Charges, counters
  <2>2. Cardinality(ChargedGrants("execution")) <= Cardinality(ChargedGrants("all"))
    <3>1. /\ IsFiniteSet(ChargedGrants("all"))
          /\ ChargedGrants("execution") \subseteq ChargedGrants("all")
      BY ChargedFinite DEF AdmissionInv, Accounts
    <3> QED
      BY <3>1, FS_Subset
  <2>3. active["execution"] <= active["all"]
    BY <2>2 DEF AdmissionInv, ChargesBalance, Accounts
  <2> QED
    BY <2>1, <2>3 DEF CapacityRespected, AdmissionInv
<1> QED
  BY <1>1, AdmissionInvariance, PTL

\* The four accounts count exactly the live grants that carry their charge.
THEOREM BalanceTheorem == AdmissionSpec => []ChargesBalance
<1>1. AdmissionInv => ChargesBalance
  BY DEF AdmissionInv
<1> QED
  BY <1>1, AdmissionInvariance, PTL

\* The counters stay natural numbers: no decrement of the code underflows.
THEOREM TypeTheorem == AdmissionSpec => []AdmissionTypeOK
<1>1. AdmissionInv => AdmissionTypeOK
  BY DEF AdmissionInv
<1> QED
  BY <1>1, AdmissionInvariance, PTL

\* A grant somebody still owns keeps its charge.
THEOREM OwnershipTheorem == AdmissionSpec => []OwnedGrantsStayCharged
<1>1. AdmissionInv => OwnedGrantsStayCharged
  BY DEF AdmissionInv, PhaseOK, OwnedGrantsStayCharged, Live
<1> QED
  BY <1>1, AdmissionInvariance, PTL

\* TCP work alone never exhausts a pool of more than one slot.
THEOREM ReserveTheorem == AdmissionSpec => []ControlReserve
<1>1. AdmissionInv => ControlReserve
  <2> SUFFICES ASSUME AdmissionInv, capacity > 1,
                      \A g \in Grants : Live(g) => class[g] = "TcpConnect"
               PROVE  ~refused("Native")
    BY DEF ControlReserve
  <2>1. ChargedGrants("all") = ChargedGrants("tcp")
    BY DEF ChargedGrants, Charges, counters
  <2>2. active["all"] = active["tcp"]
    BY <2>1 DEF AdmissionInv, ChargesBalance, Accounts
  <2>3. active["all"] < capacity
    BY <2>2, DataCapacity, CapacityAssumption DEF AdmissionInv, AdmissionTypeOK, Accounts
  <2> QED
    BY <2>3, CapacityAssumption DEF refused, AdmissionInv, AdmissionTypeOK, Accounts
<1> QED
  BY <1>1, AdmissionInvariance, PTL

\* For every capacity and number of grants the four counters of pool admission are exactly the
\* charges of the live grants, within their limits, with the control slot kept.
THEOREM LedgerTheorem == AdmissionSpec => []LedgerExact
<1>1. ChargesBalance /\ CapacityRespected /\ ControlReserve => LedgerExact
  BY DEF LedgerExact
<1> QED
  BY <1>1, BalanceTheorem, CapacityTheorem, ReserveTheorem, PTL

-----------------------------------------------------------------------------
\* The instance counts with the same Cardinality.
LEMMA SameCardinality ==
  ASSUME NEW S
  PROVE  Control!Cardinality(S) = Cardinality(S)
  BY DEF Control!Cardinality, Cardinality, Control!IsFiniteSet, IsFiniteSet

\* The counted sets are the abstract ones.
LEMMA AbstractCounts ==
  ASSUME AdmissionInv
  PROVE  /\ ChargedGrants("all") = {g \in Grants : Live(g)}
         /\ ChargedGrants("tcp") = {g \in Grants : Live(g) /\ class[g] = "TcpConnect"}
         /\ Cardinality({g \in Grants : Live(g)}) = active["all"]
         /\ Cardinality({g \in Grants : Live(g) /\ class[g] = "TcpConnect"}) = active["tcp"]
<1>1. ChargedGrants("all") = {g \in Grants : Live(g)}
  BY DEF ChargedGrants, Charges, counters
<1>2. ChargedGrants("tcp") = {g \in Grants : Live(g) /\ class[g] = "TcpConnect"}
  BY DEF ChargedGrants, Charges, counters, AdmissionInv, AdmissionTypeOK, Class
<1> QED
  BY <1>1, <1>2 DEF AdmissionInv, ChargesBalance, Accounts

\* A step that leaves phase and class alone, or only moves bits of a live grant, is
\* invisible to the abstract control.
LEMMA InvisibleStep ==
  ASSUME AdmissionInv, class' = class,
         \A g \in Grants : /\ Live(g)' <=> Live(g)
                           /\ "RELEASED" \in phase'[g] <=> "RELEASED" \in phase[g]
  PROVE  UNCHANGED Control!controlVars
  BY DEF Control!controlVars

\* Releasing the last owner's charge is the abstract return.
LEMMA ReleaseReturns ==
  ASSUME AdmissionInv, NEW g \in Grants, Live(g),
         phase' = [phase EXCEPT ![g] = {"RELEASED"}], class' = class
  PROVE  Control!Return(g)
<1>1. \A h \in Grants \ {g} : (Live(h)' <=> Live(h)) /\ phase'[h] = phase[h]
  BY DEF AdmissionInv, AdmissionTypeOK, Live
<1>2. ~(Live(g)') /\ "RELEASED" \in phase'[g]
  BY DEF AdmissionInv, AdmissionTypeOK, Live
<1> QED
  BY <1>1, <1>2 DEF Control!Return

\* Every step of the pool is a step of the abstract control or invisible to it.
LEMMA ControlStep ==
  ASSUME AdmissionInv, [AdmissionNext]_admissionVars
  PROVE  [Control!ControlNext]_(Control!controlVars)
<1> USE DEF AdmissionInv, AdmissionTypeOK
<1>1. ASSUME NEW c \in Class, NEW g \in Grants, Admit(g, c)
      PROVE  Control!ControlNext
  <2>1. /\ phase' = [phase EXCEPT ![g] = {"EXECUTING"}] /\ phase[g] = {"FRESH"}
        /\ class' = [class EXCEPT ![g] = c] /\ ~refused(c)
    BY <1>1 DEF Admit, PhaseOK
  <2>2. /\ Live(g)' /\ ~Live(g)
        /\ "RELEASED" \notin phase'[g] /\ "RELEASED" \notin phase[g]
        /\ \A h \in Grants \ {g} : (Live(h)' <=> Live(h)) /\ phase'[h] = phase[h] /\ class'[h] = class[h]
        /\ class'[g] = c
    BY <2>1 DEF Live
  <2>3. active["all"] < capacity /\ (c = "TcpConnect" => active["tcp"] < data_capacity)
    BY <2>1, CapacityAssumption, DataCapacity DEF refused, Accounts
  <2>6. /\ Cardinality({h \in Grants : Live(h)}) < capacity
        /\ c = "TcpConnect" =>
             Cardinality({h \in Grants : Live(h) /\ class[h] = "TcpConnect"}) < data_capacity
    BY <2>3, AbstractCounts
  <2>7. {h \in Grants : Live(h)'} = {h \in Grants : Live(h)} \cup {g}
    BY <2>2
  <2>8. /\ {h \in Grants : Live(h)' /\ class'[h] = "TcpConnect"}
             = {h \in Grants : Live(h) /\ class[h] = "TcpConnect"}
               \cup (IF c = "TcpConnect" THEN {g} ELSE {})
        /\ {h \in Grants : "RELEASED" \in phase'[h]} = {h \in Grants : "RELEASED" \in phase[h]}
    BY <2>2
  <2>4. CASE c = "Native"
    <3>1. Control!Grant(g)
      BY <2>2, <2>3, <2>4, <2>6, <2>7, <2>8, SameCardinality DEF Control!Grant
    <3> QED
      BY <3>1 DEF Control!ControlNext
  <2>5. CASE c = "TcpConnect"
    <3>1. Control!GrantTcp(g)
      BY <2>2, <2>3, <2>5, <2>6, <2>7, <2>8, SameCardinality DEF Control!GrantTcp
    <3> QED
      BY <3>1 DEF Control!ControlNext
  <2> QED
    BY <2>4, <2>5 DEF Class
<1>2. ASSUME NEW c \in Class, Refuse(c)
      PROVE  UNCHANGED Control!controlVars
  BY <1>2, InvisibleStep DEF Refuse, Live
<1>3. ASSUME NEW g \in Grants,
             Lease(g) \/ IntoParts(g) \/ DropPermit(g) \/ DropReservation(g) \/ DropLease(g)
      PROVE  UNCHANGED Control!controlVars
  BY <1>3, InvisibleStep DEF Lease, IntoParts, DropPermit, DropReservation, DropLease, Live
<1>4. ASSUME NEW g \in Grants, MarkRetained(g)
      PROVE  UNCHANGED Control!controlVars
  BY <1>4, InvisibleStep DEF MarkRetained, Live
<1>5. ASSUME NEW g \in Grants, IntoSocket(g)
      PROVE  UNCHANGED Control!controlVars
  BY <1>5, InvisibleStep DEF IntoSocket, Live
<1>6. ASSUME NEW g \in Grants, FinishAdmission(g)
      PROVE  [Control!ControlNext]_(Control!controlVars)
  <2>1. Live(g) /\ class' = class
    BY <1>6 DEF FinishAdmission, PhaseOK, Unowned, Live
  <2>2. CASE Release(g)
    <3>1. Control!Return(g)
      BY <2>1, <2>2, ReleaseReturns DEF Release, Live
    <3> QED
      BY <3>1 DEF Control!ControlNext
  <2>3. CASE FinishExecution(g)
    BY <2>1, <2>3, InvisibleStep DEF FinishExecution, Live
  <2> QED
    BY <1>6, <2>2, <2>3 DEF FinishAdmission
<1>7. ASSUME NEW g \in Grants, DropGrant(g)
      PROVE  Control!ControlNext
  <2>1. Control!Return(g)
    BY <1>7, ReleaseReturns DEF DropGrant, Release, Live
  <2> QED
    BY <2>1 DEF Control!ControlNext
<1>8. CASE UNCHANGED admissionVars
  BY <1>8, InvisibleStep DEF admissionVars, Live
<1> QED
  BY <1>1, <1>2, <1>3, <1>4, <1>5, <1>6, <1>7, <1>8 DEF AdmissionNext

\* The pool implements the abstract admission control, for every capacity.
THEOREM ControlRefinement == AdmissionSpec => ImplementsControl
<1>1. AdmissionInit => Control!ControlInit
  BY DEF AdmissionInit, Control!ControlInit, Live
<1> QED
  BY <1>1, ControlStep, AdmissionInvariance, PTL DEF AdmissionSpec, ImplementsControl, Control!ControlSpec

-----------------------------------------------------------------------------
(* The shares of a capture group. *)

\* The induction principle: a set of naturals has a least element.
LEMMA LeastNatural ==
  ASSUME NEW T, T \subseteq Nat, T # {}
  PROVE  \E x \in T : \A y \in T : x <= y
<1>1. PICK x \in T : \A y \in T : ~(<<y, x>> \in OpToRel(<, Nat))
  BY Zenon, NatLessThanWellFounded, WFMin
<1>2. \A y \in T : ~(y < x)
  BY Zenon, <1>1 DEF OpToRel
<1> QED BY <1>2

LEMMA Divided ==
  ASSUME NEW c \in Nat \ {0}, NEW total \in Nat
  PROVE  \E q \in Nat, r \in 0 .. c - 1 : q = total \div c /\ r = total % c /\ total = c * q + r
OBVIOUS

\* The first n members together have their n quotients and what the remainder gives them.
LEMMA SpentShares ==
  ASSUME count \in Nat \ {0}, NEW total \in Nat
  PROVE  spent(total)[count] = total
<1> DEFINE c == count
           q == total \div count
           r == total % count
           Upto(n) == n * q + IF n < r THEN n ELSE r
           part(i) == q + IF i < r THEN 1 ELSE 0
           Eq(g) == g = [n \in 0 .. c |-> IF n = 0 THEN 0 ELSE g[n - 1] + part(n - 1)]
           f == [n \in 0 .. c |-> Upto(n)]
           s == spent(total)
<1>1. c \in Nat \ {0} /\ q \in Nat /\ r \in 0 .. c - 1 /\ total = c * q + r
  <2>1. PICK a \in Nat, b \in 0 .. c - 1 : a = total \div c /\ b = total % c /\ total = c * a + b
    BY Zenon, Divided
  <2> QED BY Zenon, <2>1
<1>2. s = CHOOSE g : Eq(g)
  BY Zenon DEF spent, share
<1> HIDE DEF c, q, r, s
<1>3. Upto(0) = 0 /\ Upto(c) = total
  BY <1>1
<1>4. ASSUME NEW n \in 1 .. c PROVE Upto(n) = Upto(n - 1) + part(n - 1) /\ Upto(n) \in Nat
  <2>1. n \in Nat /\ n - 1 \in Nat /\ n = (n - 1) + 1
    BY <1>1
  <2>2. n * q = (n - 1) * q + q /\ n * q \in Nat
    BY <1>1, <2>1
  <2> QED BY <1>1, <2>1, <2>2
<1>5. Eq(f)
  <2>1. ASSUME NEW n \in 0 .. c PROVE f[n] = IF n = 0 THEN 0 ELSE f[n - 1] + part(n - 1)
    <3>1. CASE n = 0
      BY Zenon, <1>3, <3>1
    <3>2. CASE n # 0
      <4>1. n \in 1 .. c /\ n - 1 \in 0 .. c
        BY <1>1, <3>2
      <4> QED BY Zenon, <1>4, <3>2, <4>1
    <3> QED BY Zenon, <3>1, <3>2
  <2> QED BY Zenon, <2>1
<1>6. Eq(s)
  <2> HIDE DEF Eq
  <2> QED BY Zenon, <1>2, <1>5
<1>7. \A n \in 0 .. c : s[n] = IF n = 0 THEN 0 ELSE s[n - 1] + part(n - 1)
  <2> HIDE DEF part
  <2> QED BY Zenon, <1>6
<1> DEFINE T == {n \in 0 .. c : s[n] # Upto(n)}
<1> HIDE DEF Upto, part
<1>8. T = {}
  <2>1. SUFFICES ASSUME T # {} PROVE FALSE
    OBVIOUS
  <2>2. T \subseteq Nat
    BY <1>1
  <2> HIDE DEF T
  <2>3. PICK m \in T : \A y \in T : m <= y
    BY Zenon, <2>1, <2>2, LeastNatural
  <2>4. m \in 0 .. c /\ s[m] # Upto(m)
    BY Zenon, <2>3 DEF T
  <2>5. m # 0
    BY Zenon, <1>3, <1>7, <2>4
  <2>6. m \in 1 .. c /\ m - 1 \in 0 .. c /\ ~(m <= m - 1)
    BY <1>1, <2>4, <2>5
  <2>7. s[m - 1] = Upto(m - 1)
    BY Zenon, <2>3, <2>6 DEF T
  <2> QED BY Zenon, <1>4, <1>7, <2>4, <2>5, <2>6, <2>7
<1>9. c \in 0 .. c
  BY <1>1
<1>10. s[c] = total
  BY Zenon, <1>3, <1>8, <1>9
<1> QED BY Zenon, <1>10 DEF s, c

\* Every member gets at least the quotient.
LEMMA ShareAtLeast ==
  ASSUME count \in Nat \ {0}, NEW total \in Nat, NEW i \in Nat
  PROVE  share(total, i) >= total \div count /\ (total >= count => share(total, i) >= 1)
<1> DEFINE q == total \div count
           r == total % count
<1>1. q \in Nat /\ r \in 0 .. count - 1 /\ total = count * q + r
  <2>1. PICK a \in Nat, b \in 0 .. count - 1 : a = total \div count /\ b = total % count /\ total = count * a + b
    BY Zenon, Divided
  <2> QED BY Zenon, <2>1
<1>2. share(total, i) = q + IF i < r THEN 1 ELSE 0
  BY Zenon DEF share
<1> HIDE DEF q, r
<1>3. share(total, i) >= q
  BY <1>1, <1>2
<1>4. ASSUME total >= count PROVE q # 0
  <2>1. SUFFICES ASSUME q = 0 PROVE FALSE
    OBVIOUS
  <2> QED BY <1>1, <1>4, <2>1
<1>5. total >= count => share(total, i) >= 1
  BY <1>1, <1>2, <1>4
<1> QED BY Zenon, <1>3, <1>5 DEF q

LEMMA RequestTyped ==
  ASSUME SourcesAssumption, RequestValid
  PROVE  /\ count \in Nat \ {0} /\ limits.max_frames \in Nat /\ limits.max_bytes \in Nat
         /\ limits.snap_length \in Nat
         /\ limits.max_frames >= count /\ limits.max_bytes \div count >= limits.snap_length
<1>1. limits.max_frames \in FrameLimits /\ limits.max_bytes \in ByteLimits /\ limits.snap_length \in SnapLengths
  BY DEF RequestValid
<1>2. count \in Nat \ {0}
  BY DEF SourcesAssumption, RequestValid
<1>3. limits.max_frames >= count /\ limits.max_bytes \div count >= limits.snap_length
  BY Zenon DEF RequestValid, validate
<1> QED BY Zenon, <1>1, <1>2, <1>3 DEF SourcesAssumption

\* GroupRequest::partition spends the shared limits exactly and leaves room for everybody.
LEMMA PartitionFair ==
  ASSUME SourcesAssumption, RequestValid
  PROVE  /\ spent(limits.max_frames)[count] = limits.max_frames
         /\ spent(limits.max_bytes)[count] = limits.max_bytes
         /\ \A m \in Members :
              share(limits.max_frames, m) >= 1 /\ share(limits.max_bytes, m) >= limits.snap_length
<1>1. /\ count \in Nat \ {0} /\ limits.max_frames \in Nat /\ limits.max_bytes \in Nat
      /\ limits.snap_length \in Nat
      /\ limits.max_frames >= count /\ limits.max_bytes \div count >= limits.snap_length
  BY Zenon, RequestTyped
<1>2. ASSUME NEW m \in Members
      PROVE  share(limits.max_frames, m) >= 1 /\ share(limits.max_bytes, m) >= limits.snap_length
  <2> DEFINE q == limits.max_bytes \div count
             b == share(limits.max_bytes, m)
             l == limits.snap_length
  <2>1. m \in Nat
    BY <1>1 DEF Members
  <2>2. share(limits.max_frames, m) >= 1 /\ b >= q
    BY Zenon, <1>1, <2>1, ShareAtLeast
  <2>3. q \in Nat /\ b \in Nat
    <3>1. q \in Nat
      BY Zenon, <1>1, Divided
    <3>2. b = q + IF m < limits.max_bytes % count THEN 1 ELSE 0
      BY Zenon DEF share
    <3> HIDE DEF q, b
    <3> QED BY <3>1, <3>2
  <2>4. q >= l /\ l \in Nat
    BY Zenon, <1>1
  <2> HIDE DEF q, b, l
  <2>5. b >= l
    BY <2>2, <2>3, <2>4
  <2> QED BY Zenon, <2>2, <2>5 DEF b, l
<1> QED BY Zenon, <1>1, <1>2, SpentShares

-----------------------------------------------------------------------------
(* The calls of a capture group. *)

GroupTypes ==
  /\ count \in Nat \ {0} /\ lifecycle \in {"New", "Armed", "Ready", "Closed"}
  /\ armed \in 0 .. count /\ step \in 0 .. count
  /\ call \in {"idle", "arm", "ready", "receive", "stop_only", "stopping", "joining"}
  /\ sources_ready \subseteq Armed /\ stop_attempted \subseteq Armed /\ stop_failed \subseteq Armed
  /\ shutdown_attempted \subseteq Armed /\ shutdown_confirmed \subseteq Armed

GroupControl ==
  /\ GroupTypes /\ CallInv
  /\ lifecycle = "Ready" => sources_ready = Members
  /\ call = "idle" /\ lifecycle = "Closed" => stop_attempted = Armed
  /\ shutdown_attempted # {} => stop_attempted = Armed
  /\ shutdown_confirmed \cap stop_failed = {}
  /\ stop_failed \subseteq stop_attempted /\ shutdown_confirmed \subseteq shutdown_attempted

\* The members do not change in a step, and only arming adds a source.
LEMMA RequestKept ==
  ASSUME [GroupNext]_groupVars
  PROVE  limits' = limits /\ count' = count /\ Members' = Members
<1> USE DEF requestVars
<1>1. ASSUME ArmGroup PROVE limits' = limits /\ count' = count
  BY Zenon, <1>1 DEF ArmGroup, Call
<1>2. ASSUME WaitReady PROVE limits' = limits /\ count' = count
  BY Zenon, <1>2 DEF WaitReady, Call
<1>3. ASSUME Receive PROVE limits' = limits /\ count' = count
  BY Zenon, <1>3 DEF Receive, Call
<1>4. ASSUME StopGroup PROVE limits' = limits /\ count' = count
  BY Zenon, <1>4 DEF StopGroup
<1>5. ASSUME Shutdown PROVE limits' = limits /\ count' = count
  BY Zenon, <1>5 DEF Shutdown
<1>6. ASSUME ArmSource PROVE limits' = limits /\ count' = count
  BY Zenon, <1>6 DEF ArmSource
<1>7. ASSUME ArmDone PROVE limits' = limits /\ count' = count
  BY Zenon, <1>7 DEF ArmDone
<1>8. ASSUME ReadySource PROVE limits' = limits /\ count' = count
  BY Zenon, <1>8 DEF ReadySource
<1>9. ASSUME ReadyDone PROVE limits' = limits /\ count' = count
  BY Zenon, <1>9 DEF ReadyDone
<1>10. ASSUME CallFails PROVE limits' = limits /\ count' = count
  BY Zenon, <1>10 DEF CallFails
<1>11. ASSUME PollRecord PROVE limits' = limits /\ count' = count
  BY Zenon, <1>11 DEF PollRecord
<1>12. ASSUME PollEmpty PROVE limits' = limits /\ count' = count
  BY Zenon, <1>12 DEF PollEmpty
<1>13. ASSUME ReceiveNone PROVE limits' = limits /\ count' = count
  BY Zenon, <1>13 DEF ReceiveNone
<1>14. ASSUME StopSource PROVE limits' = limits /\ count' = count
  BY Zenon, <1>14 DEF StopSource
<1>15. ASSUME StopDone PROVE limits' = limits /\ count' = count
  BY Zenon, <1>15 DEF StopDone
<1>16. ASSUME JoinSource PROVE limits' = limits /\ count' = count
  BY Zenon, <1>16 DEF JoinSource
<1>17. ASSUME JoinDone PROVE limits' = limits /\ count' = count
  BY Zenon, <1>17 DEF JoinDone
<1>18. ASSUME NEW m \in Members, Capture(m) PROVE limits' = limits /\ count' = count
  BY Zenon, <1>18 DEF Capture
<1>19. ASSUME UNCHANGED groupVars PROVE limits' = limits /\ count' = count
  BY Zenon, <1>19 DEF groupVars
<1>20. limits' = limits /\ count' = count
  BY Zenon, <1>1, <1>2, <1>3, <1>4, <1>5, <1>6, <1>7, <1>8, <1>9, <1>10, <1>11, <1>12, <1>13, <1>14, <1>15, <1>16, <1>17, <1>18, <1>19 DEF GroupNext, Begin, Continue
<1> QED BY Zenon, <1>20 DEF Members

\* The lifecycle, the call and its step after a step that leaves the members alone.
Kept(l, c, s) ==
  /\ l \in {"New", "Armed", "Ready", "Closed"} /\ s \in 0 .. count
  /\ c \in {"idle", "arm", "ready", "receive", "stop_only", "stopping", "joining"}
  /\ l = "New" => c = "idle" /\ armed = 0
  /\ c \in {"stop_only", "stopping", "joining"} => l = "Closed"
  /\ l = "Closed" => c \in {"idle", "stop_only", "stopping", "joining"}
  /\ c = "arm" => l = "Armed"
  /\ c = "ready" => l = "Armed" /\ s = 0
  /\ c = "receive" => l = "Ready"
  /\ l \in {"Armed", "Ready"} /\ c # "arm" => armed = count
  /\ c # "idle" => s <= armed
  /\ c \in {"stop_only", "stopping"} => s = 0
  /\ c = "joining" => stop_attempted = Armed
  /\ l = "Ready" => sources_ready = Members
  /\ c = "idle" /\ l = "Closed" => stop_attempted = Armed
  /\ lifecycle = "Closed" => l = "Closed"

LEMMA CallKept ==
  ASSUME GroupControl, UNCHANGED <<count, armed, memberVars>>, Kept(lifecycle', call', step')
  PROVE  GroupControl'
<1>0. UNCHANGED <<count, armed, sources_ready, stop_attempted, stop_failed, shutdown_attempted, shutdown_confirmed>>
      /\ Armed' = Armed /\ Members' = Members
  BY Zenon DEF memberVars, Armed, Members
<1>1. GroupTypes'
  BY Zenon, <1>0 DEF GroupControl, GroupTypes, Kept
<1>2. 0 .. 0 - 1 = {}
  OBVIOUS
<1>3. /\ call' = "ready" => 0 .. step' - 1 \subseteq sources_ready
      /\ call' \in {"stop_only", "stopping"} => 0 .. step' - 1 \subseteq stop_attempted
  BY Zenon, <1>2 DEF Kept
<1>4. shutdown_attempted # {} => lifecycle' = "Closed"
  BY Zenon DEF Kept, GroupControl, CallInv
<1>5. CallInv'
  BY Zenon, <1>0, <1>3, <1>4 DEF CallInv, Kept
<1> QED BY Zenon, <1>0, <1>1, <1>5 DEF GroupControl, Kept

LEMMA GroupControlStep ==
  ASSUME GroupControl, [GroupNext]_groupVars PROVE GroupControl'
<1> DEFINE same == <<count, armed, memberVars>>
<1>21. /\ count \in Nat \ {0} /\ lifecycle \in {"New", "Armed", "Ready", "Closed"}
       /\ armed \in 0 .. count /\ step \in 0 .. count
       /\ call \in {"idle", "arm", "ready", "receive", "stop_only", "stopping", "joining"}
  BY Zenon DEF GroupControl, GroupTypes
<1>22. /\ sources_ready \subseteq Armed /\ stop_attempted \subseteq Armed /\ stop_failed \subseteq Armed
       /\ shutdown_attempted \subseteq Armed /\ shutdown_confirmed \subseteq Armed
       /\ shutdown_confirmed \cap stop_failed = {}
       /\ stop_failed \subseteq stop_attempted /\ shutdown_confirmed \subseteq shutdown_attempted
  BY Zenon DEF GroupControl, GroupTypes
<1>23. /\ lifecycle = "New" => call = "idle" /\ armed = 0
       /\ call \in {"stop_only", "stopping", "joining"} => lifecycle = "Closed"
       /\ lifecycle = "Closed" => call \in {"idle", "stop_only", "stopping", "joining"}
       /\ call = "arm" => lifecycle = "Armed"
       /\ call = "ready" => lifecycle = "Armed"
       /\ call = "receive" => lifecycle = "Ready"
       /\ lifecycle \in {"Armed", "Ready"} /\ call # "arm" => armed = count
       /\ call # "idle" => step <= armed
       /\ call = "joining" => stop_attempted = Armed
       /\ lifecycle = "Ready" => sources_ready = Members
       /\ call = "idle" /\ lifecycle = "Closed" => stop_attempted = Armed
  BY Zenon DEF GroupControl, CallInv
<1>24. /\ call = "ready" => 0 .. step - 1 \subseteq sources_ready
       /\ call \in {"stop_only", "stopping"} => 0 .. step - 1 \subseteq stop_attempted
       /\ shutdown_attempted # {} => stop_attempted = Armed /\ lifecycle = "Closed"
  BY Zenon DEF GroupControl, CallInv
<1>1. CASE ArmGroup
  <2>1. UNCHANGED same
    BY Zenon, <1>1 DEF ArmGroup, Call, requestVars
  <2>2. Kept(lifecycle', call', step')
    BY <1>1, <1>21, <1>23 DEF ArmGroup, Call, Enter, Fail, Kept
  <2> QED BY Zenon, <2>1, <2>2, CallKept
<1>2. CASE WaitReady
  <2>1. UNCHANGED same
    BY Zenon, <1>2 DEF WaitReady, Call, requestVars
  <2>2. Kept(lifecycle', call', step')
    BY <1>2, <1>21, <1>23 DEF WaitReady, Call, Enter, Fail, Kept
  <2> QED BY Zenon, <2>1, <2>2, CallKept
<1>3. CASE Receive
  <2>1. UNCHANGED same
    BY Zenon, <1>3 DEF Receive, Call, requestVars
  <2>2. Kept(lifecycle', call', step')
    BY <1>3, <1>21, <1>23 DEF Receive, Call, Enter, Fail, Kept
  <2> QED BY Zenon, <2>1, <2>2, CallKept
<1>4. CASE StopGroup
  <2>1. UNCHANGED same
    BY Zenon, <1>4 DEF StopGroup, requestVars
  <2>2. Kept(lifecycle', call', step')
    BY <1>4, <1>21, <1>23 DEF StopGroup, Enter, Kept
  <2> QED BY Zenon, <2>1, <2>2, CallKept
<1>5. CASE Shutdown
  <2>1. UNCHANGED same
    BY Zenon, <1>5 DEF Shutdown, requestVars
  <2>2. Kept(lifecycle', call', step')
    BY <1>5, <1>21, <1>23 DEF Shutdown, Fail, Kept
  <2> QED BY Zenon, <2>1, <2>2, CallKept
<1>6. CASE ArmSource
  <2>1. /\ call = "arm" /\ armed < count /\ armed' = armed + 1 /\ UNCHANGED <<count, memberVars>>
        /\ \/ call' = "stopping" /\ step' = 0 /\ lifecycle' = "Closed"
           \/ UNCHANGED <<call, step, lifecycle>>
    BY Zenon, <1>6 DEF ArmSource, Fail, requestVars
  <2>2. Armed \subseteq Armed' /\ armed' \in 0 .. count /\ Members' = Members /\ armed <= armed'
    BY <1>21, <2>1 DEF Armed, Members
  <2>3. lifecycle = "Armed" /\ shutdown_attempted = {} /\ step <= armed'
    BY <1>21, <1>23, <1>24, <2>1, <2>2
  <2>4. UNCHANGED <<count, sources_ready, stop_attempted, stop_failed, shutdown_attempted, shutdown_confirmed>>
    BY Zenon, <2>1 DEF memberVars
  <2>5. GroupTypes'
    <3>1. 0 \in 0 .. count
      BY <1>21
    <3>2. step' \in 0 .. count' /\ lifecycle' \in {"New", "Armed", "Ready", "Closed"}
          /\ call' \in {"idle", "arm", "ready", "receive", "stop_only", "stopping", "joining"}
      BY Zenon, <1>21, <2>1, <2>4, <3>1
    <3> QED BY Zenon, <1>21, <1>22, <2>2, <2>4, <3>2 DEF GroupTypes
  <2>6. CallInv'
    <3>1. 0 .. step' - 1 = {} \/ call' = "arm"
      BY <2>1
    <3>2. 0 <= armed'
      BY <1>21, <2>2
    <3> QED BY <2>1, <2>3, <2>4, <3>1, <3>2 DEF CallInv
  <2> QED BY <1>22, <2>1, <2>3, <2>4, <2>5, <2>6 DEF GroupControl
<1>7. CASE ArmDone
  <2>1. UNCHANGED same
    BY Zenon, <1>7 DEF ArmDone, requestVars
  <2>2. Kept(lifecycle', call', step')
    BY <1>7, <1>21, <1>23 DEF ArmDone, Leave, Kept
  <2> QED BY Zenon, <2>1, <2>2, CallKept
<1>8. CASE ReadySource
  <2>1. /\ call = "ready" /\ step < armed /\ sources_ready' = sources_ready \cup {step} /\ step' = step + 1
        /\ UNCHANGED <<count, lifecycle, armed, stop_attempted, stop_failed, shutdown_attempted, shutdown_confirmed, call>>
    BY Zenon, <1>8 DEF ReadySource, requestVars
  <2>2. lifecycle = "Armed" /\ 0 .. step - 1 \subseteq sources_ready /\ shutdown_attempted = {} /\ armed = count
    BY <1>23, <1>24, <2>1
  <2>3. /\ sources_ready' \subseteq Armed /\ 0 .. step' - 1 \subseteq sources_ready'
        /\ step' \in 0 .. count /\ step' <= armed
    BY <1>21, <1>22, <2>1, <2>2 DEF Armed
  <2>4. Armed' = Armed /\ Members' = Members
    BY Zenon, <2>1 DEF Armed, Members
  <2>5. GroupTypes'
    BY Zenon, <1>21, <1>22, <2>1, <2>3, <2>4 DEF GroupTypes
  <2>6. CallInv'
    BY <2>1, <2>2, <2>3 DEF CallInv
  <2> QED BY <1>22, <2>1, <2>2, <2>5, <2>6 DEF GroupControl
<1>9. CASE ReadyDone
  <2>1. UNCHANGED same
    BY Zenon, <1>9 DEF ReadyDone, requestVars
  <2>3. sources_ready = Members
    <3>1. call = "ready" /\ step = armed
      BY Zenon, <1>9 DEF ReadyDone
    <3>2. armed = count /\ 0 .. step - 1 \subseteq sources_ready
      BY <1>23, <1>24, <3>1
    <3> QED BY Zenon, <1>22, <3>1, <3>2 DEF Armed, Members
  <2>2. Kept(lifecycle', call', step')
    BY <1>9, <1>21, <1>23, <2>3 DEF ReadyDone, Leave, Kept
  <2> QED BY Zenon, <2>1, <2>2, CallKept
<1>10. CASE CallFails
  <2>1. UNCHANGED same
    BY Zenon, <1>10 DEF CallFails, requestVars
  <2>2. Kept(lifecycle', call', step')
    BY <1>10, <1>21, <1>23 DEF CallFails, Fail, Kept
  <2> QED BY Zenon, <2>1, <2>2, CallKept
<1>11. CASE PollRecord
  <2>1. UNCHANGED same
    BY Zenon, <1>11 DEF PollRecord, requestVars
  <2>2. Kept(lifecycle', call', step')
    BY <1>11, <1>21, <1>23 DEF PollRecord, Leave, Kept
  <2> QED BY Zenon, <2>1, <2>2, CallKept
<1>12. CASE PollEmpty
  <2>1. UNCHANGED same
    BY Zenon, <1>12 DEF PollEmpty, requestVars
  <2>2. Kept(lifecycle', call', step')
    BY <1>12, <1>21, <1>23 DEF PollEmpty, Kept
  <2> QED BY Zenon, <2>1, <2>2, CallKept
<1>13. CASE ReceiveNone
  <2>1. UNCHANGED same
    BY Zenon, <1>13 DEF ReceiveNone, requestVars
  <2>2. Kept(lifecycle', call', step')
    BY <1>13, <1>21, <1>23 DEF ReceiveNone, Leave, Kept
  <2> QED BY Zenon, <2>1, <2>2, CallKept
<1>14. CASE StopSource
  <2>1. /\ call \in {"stop_only", "stopping"} /\ step < armed /\ step' = step + 1
        /\ UNCHANGED <<count, lifecycle, armed, sources_ready, shutdown_attempted, shutdown_confirmed, call>>
    BY Zenon, <1>14 DEF StopSource, requestVars
  <2>2. lifecycle = "Closed" /\ 0 .. step - 1 \subseteq stop_attempted /\ Armed' = Armed /\ Members' = Members
    BY <1>23, <1>24, <2>1 DEF Armed, Members
  <2>3. step \in Armed /\ step' \in 0 .. count /\ step' <= armed /\ 0 .. step' - 1 = (0 .. step - 1) \cup {step}
    BY <1>21, <2>1 DEF Armed
  <2>4. /\ stop_attempted' = stop_attempted \cup {step} /\ stop_failed' \subseteq stop_failed \cup {step}
        /\ step \in stop_attempted => stop_failed' = stop_failed
    BY Zenon, <1>14 DEF StopSource
  <2>5. shutdown_attempted # {} => stop_attempted' = Armed /\ stop_failed' = stop_failed
    BY Zenon, <1>24, <2>3, <2>4
  <2>6. /\ stop_attempted' \subseteq Armed /\ stop_failed' \subseteq stop_attempted' /\ stop_failed' \subseteq Armed
        /\ 0 .. step' - 1 \subseteq stop_attempted'
    BY Zenon, <1>22, <2>2, <2>3, <2>4
  <2>7. shutdown_confirmed \cap stop_failed' = {}
    BY Zenon, <1>22, <2>5
  <2>8. GroupTypes'
    BY Zenon, <1>21, <1>22, <2>1, <2>2, <2>3, <2>6 DEF GroupTypes
  <2>9. CallInv'
    BY <2>1, <2>2, <2>3, <2>6 DEF CallInv
  <2>10. call' # "idle" /\ lifecycle' # "Ready"
    BY <2>1, <2>2
  <2> QED BY Zenon, <1>22, <2>1, <2>2, <2>5, <2>6, <2>7, <2>8, <2>9, <2>10 DEF GroupControl
<1>15. CASE StopDone
  <2>1. UNCHANGED same
    BY Zenon, <1>15 DEF StopDone, requestVars
  <2>3. stop_attempted = Armed
    <3>1. call \in {"stop_only", "stopping"} /\ step = armed
      BY Zenon, <1>15 DEF StopDone
    <3> QED BY Zenon, <1>22, <1>24, <3>1 DEF Armed
  <2>2. Kept(lifecycle', call', step')
    BY <1>15, <1>21, <1>23, <2>3 DEF StopDone, Leave, Kept
  <2> QED BY Zenon, <2>1, <2>2, CallKept
<1>16. CASE JoinSource
  <2>1. /\ call = "joining" /\ step < armed /\ step' = step + 1
        /\ UNCHANGED <<count, lifecycle, armed, sources_ready, stop_attempted, stop_failed, call>>
    BY Zenon, <1>16 DEF JoinSource, requestVars
  <2>2. lifecycle = "Closed" /\ stop_attempted = Armed /\ Armed' = Armed /\ Members' = Members
    BY <1>23, <2>1 DEF Armed, Members
  <2>3. step \in Armed /\ step' \in 0 .. count /\ step' <= armed
    BY <1>21, <2>1 DEF Armed
  <2>4. /\ shutdown_attempted' = shutdown_attempted \cup {step}
        /\ shutdown_confirmed' \subseteq shutdown_confirmed \cup ({step} \ stop_failed)
    BY <1>16 DEF JoinSource
  <2>5. /\ shutdown_attempted' \subseteq Armed /\ shutdown_confirmed' \subseteq shutdown_attempted'
        /\ shutdown_confirmed' \cap stop_failed = {} /\ shutdown_confirmed' \subseteq Armed
    BY Zenon, <1>22, <2>3, <2>4
  <2>6. GroupTypes'
    BY Zenon, <1>21, <1>22, <2>1, <2>2, <2>3, <2>5 DEF GroupTypes
  <2>7. CallInv'
    BY <2>1, <2>2, <2>3 DEF CallInv
  <2>8. call' # "idle" /\ lifecycle' # "Ready"
    BY <2>1, <2>2
  <2> QED BY Zenon, <1>22, <2>1, <2>2, <2>5, <2>6, <2>7, <2>8 DEF GroupControl
<1>17. CASE JoinDone
  <2>1. UNCHANGED same
    BY Zenon, <1>17 DEF JoinDone, requestVars
  <2>2. Kept(lifecycle', call', step')
    BY <1>17, <1>21, <1>23 DEF JoinDone, Leave, Kept
  <2> QED BY Zenon, <2>1, <2>2, CallKept
<1>18. CASE \E m \in Members : Capture(m)
  <2>1. UNCHANGED <<count, lifecycle, armed, memberVars, call, step>>
    BY Zenon, <1>18 DEF Capture, requestVars
  <2> QED BY Zenon, <2>1 DEF GroupControl, GroupTypes, CallInv, memberVars, Armed, Members
<1>19. CASE UNCHANGED groupVars
  <2>1. UNCHANGED <<count, lifecycle, armed, memberVars, call, step>>
    BY Zenon, <1>19 DEF groupVars, requestVars
  <2> QED BY Zenon, <2>1 DEF GroupControl, GroupTypes, CallInv, memberVars, Armed, Members
<1> QED BY Zenon, <1>1, <1>2, <1>3, <1>4, <1>5, <1>6, <1>7, <1>8, <1>9, <1>10, <1>11, <1>12, <1>13, <1>14, <1>15, <1>16, <1>17, <1>18, <1>19 DEF GroupNext, Begin, Continue

-----------------------------------------------------------------------------
(* What a capture group reports of its cleanup. *)

Unconfirmed == (shutdown_attempted \ shutdown_confirmed) \ stop_failed

Reported == cleanup \in Nat /\ Cardinality(stop_failed) + Cardinality(Unconfirmed) <= cleanup

LEMMA OneMore ==
  ASSUME NEW S, IsFiniteSet(S), NEW x, NEW R, R \subseteq S \cup {x}
  PROVE  IsFiniteSet(R) /\ Cardinality(S) \in Nat /\ Cardinality(R) \in Nat /\ Cardinality(R) <= Cardinality(S) + 1
<1> DEFINE Q == S \cup {x}
           a == Cardinality(S)
           b == Cardinality(Q)
           c == Cardinality(R)
<1>1. IsFiniteSet(Q) /\ b = (IF x \in S THEN a ELSE a + 1)
  BY Zenon, FS_AddElement
<1>2. IsFiniteSet(R) /\ c <= b
  BY Zenon, <1>1, FS_Subset
<1>3. a \in Nat /\ b \in Nat /\ c \in Nat
  BY Zenon, <1>1, <1>2, FS_CardinalityType
<1> HIDE DEF a, b, c
<1>4. c <= a + 1
  BY <1>1, <1>2, <1>3
<1> QED BY Zenon, <1>2, <1>3, <1>4 DEF a, c

LEMMA GroupFinite ==
  ASSUME GroupControl
  PROVE  /\ IsFiniteSet(stop_failed) /\ IsFiniteSet(Unconfirmed) /\ IsFiniteSet(shutdown_attempted \ shutdown_confirmed)
         /\ Cardinality(stop_failed) \in Nat /\ Cardinality(Unconfirmed) \in Nat
<1>1. IsFiniteSet(Armed)
  <2>1. 0 \in Int /\ armed - 1 \in Int
    BY DEF GroupControl, GroupTypes
  <2> QED BY Zenon, <2>1, FS_Interval DEF Armed
<1>2. /\ stop_failed \subseteq Armed /\ Unconfirmed \subseteq Armed
      /\ shutdown_attempted \ shutdown_confirmed \subseteq Armed
  BY Zenon DEF GroupControl, GroupTypes, Unconfirmed
<1> QED BY Zenon, <1>1, <1>2, FS_Subset, FS_CardinalityType

LEMMA ReportedStep ==
  ASSUME GroupControl, Reported, [GroupNext]_groupVars PROVE Reported'
<1> DEFINE reports == <<stop_failed, shutdown_attempted, shutdown_confirmed, cleanup>>
           f == Cardinality(stop_failed)
           u == Cardinality(Unconfirmed)
<1>0. /\ IsFiniteSet(stop_failed) /\ IsFiniteSet(Unconfirmed) /\ f \in Nat /\ u \in Nat
      /\ cleanup \in Nat /\ f + u <= cleanup
  BY Zenon, GroupFinite DEF Reported
<1>1. ASSUME ArmGroup PROVE UNCHANGED reports
  BY Zenon, <1>1 DEF ArmGroup, Call, memberVars
<1>2. ASSUME WaitReady PROVE UNCHANGED reports
  BY Zenon, <1>2 DEF WaitReady, Call, memberVars
<1>3. ASSUME Receive PROVE UNCHANGED reports
  BY Zenon, <1>3 DEF Receive, Call, memberVars
<1>4. ASSUME StopGroup PROVE UNCHANGED reports
  BY Zenon, <1>4 DEF StopGroup, memberVars
<1>5. ASSUME Shutdown PROVE UNCHANGED reports
  BY Zenon, <1>5 DEF Shutdown, memberVars
<1>6. ASSUME ArmSource PROVE UNCHANGED reports
  BY Zenon, <1>6 DEF ArmSource, memberVars
<1>7. ASSUME ArmDone PROVE UNCHANGED reports
  BY Zenon, <1>7 DEF ArmDone, memberVars
<1>8. ASSUME ReadySource PROVE UNCHANGED reports
  BY Zenon, <1>8 DEF ReadySource, memberVars
<1>9. ASSUME ReadyDone PROVE UNCHANGED reports
  BY Zenon, <1>9 DEF ReadyDone, memberVars
<1>10. ASSUME CallFails PROVE UNCHANGED reports
  BY Zenon, <1>10 DEF CallFails, memberVars
<1>11. ASSUME PollRecord PROVE UNCHANGED reports
  BY Zenon, <1>11 DEF PollRecord, memberVars
<1>12. ASSUME PollEmpty PROVE UNCHANGED reports
  BY Zenon, <1>12 DEF PollEmpty, memberVars
<1>13. ASSUME ReceiveNone PROVE UNCHANGED reports
  BY Zenon, <1>13 DEF ReceiveNone, memberVars
<1>14. ASSUME StopDone PROVE UNCHANGED reports
  BY Zenon, <1>14 DEF StopDone, memberVars
<1>15. ASSUME JoinDone PROVE UNCHANGED reports
  BY Zenon, <1>15 DEF JoinDone, memberVars
<1>16. ASSUME NEW m \in Members, Capture(m) PROVE UNCHANGED reports
  BY Zenon, <1>16 DEF Capture, memberVars
<1>17. ASSUME UNCHANGED groupVars PROVE UNCHANGED reports
  BY Zenon, <1>17 DEF groupVars, memberVars
<1>18. ASSUME UNCHANGED reports PROVE Reported'
  BY Zenon, <1>18 DEF Reported, Unconfirmed
<1>19. CASE StopSource
  <2>1. /\ \/ UNCHANGED <<stop_failed, cleanup>>
           \/ stop_failed' = stop_failed \cup {step} /\ cleanup' = cleanup + 1
        /\ UNCHANGED <<shutdown_attempted, shutdown_confirmed>>
    BY Zenon, <1>19 DEF StopSource
  <2>2. CASE UNCHANGED <<stop_failed, cleanup>>
    BY Zenon, <2>1, <2>2, <1>18
  <2>3. CASE stop_failed' = stop_failed \cup {step} /\ cleanup' = cleanup + 1
    <3> DEFINE f2 == Cardinality(stop_failed')
               u2 == Cardinality(Unconfirmed')
    <3>1. f2 \in Nat /\ f2 <= f + 1
      BY Zenon, <1>0, <2>3, OneMore
    <3>2. Unconfirmed' \subseteq Unconfirmed
      BY Zenon, <2>1, <2>3 DEF Unconfirmed
    <3>3. u2 \in Nat /\ u2 <= u
      BY Zenon, <1>0, <3>2, FS_Subset, FS_CardinalityType
    <3> HIDE DEF f, u, f2, u2
    <3>4. f2 + u2 <= cleanup' /\ cleanup' \in Nat
      BY <1>0, <2>3, <3>1, <3>3
    <3> QED BY Zenon, <3>4 DEF Reported, f2, u2
  <2> QED BY Zenon, <2>1, <2>2, <2>3
<1>20. CASE JoinSource
  <2>0. stop_failed' = stop_failed
    BY Zenon, <1>20 DEF JoinSource
  <2>1. CASE step \in shutdown_attempted
    <3>1. UNCHANGED reports
      BY Zenon, <1>20, <2>1 DEF JoinSource
    <3> QED BY Zenon, <3>1, <1>18
  <2>2. CASE step \notin shutdown_attempted
    <3>1. PICK join_failed \in 0 .. 1, statistics_invalid \in 0 .. 1 :
             /\ cleanup' = cleanup + join_failed + statistics_invalid
             /\ shutdown_confirmed' =
                  IF join_failed = 0 /\ step \notin stop_failed
                  THEN shutdown_confirmed \cup {step} ELSE shutdown_confirmed
             /\ shutdown_attempted' = shutdown_attempted \cup {step}
      BY Zenon, <1>20, <2>2 DEF JoinSource
    <3> DEFINE u2 == Cardinality(Unconfirmed')
    <3>2. u2 \in Nat /\ u2 <= u + join_failed
      <4>1. CASE join_failed = 0
        <5>1. Unconfirmed' \subseteq Unconfirmed
          BY <2>0, <3>1, <4>1 DEF Unconfirmed
        <5>2. u2 \in Nat /\ u2 <= u
          BY Zenon, <1>0, <5>1, FS_Subset, FS_CardinalityType
        <5> HIDE DEF u, u2
        <5> QED BY <1>0, <4>1, <5>2
      <4>2. CASE join_failed = 1
        <5>1. Unconfirmed' \subseteq Unconfirmed \cup {step}
          BY <2>0, <3>1 DEF Unconfirmed
        <5>2. u2 \in Nat /\ u2 <= u + 1
          BY Zenon, <1>0, <5>1, OneMore
        <5> QED BY Zenon, <4>2, <5>2
      <4> QED BY <3>1, <4>1, <4>2
    <3> HIDE DEF f, u, u2
    <3>3. f + u2 <= cleanup' /\ cleanup' \in Nat
      BY <1>0, <3>1, <3>2
    <3> QED BY Zenon, <2>0, <3>3 DEF Reported, f, u2
  <2> QED BY Zenon, <2>1, <2>2
<1> HIDE DEF reports
<1> QED BY Zenon, <1>1, <1>2, <1>3, <1>4, <1>5, <1>6, <1>7, <1>8, <1>9, <1>10, <1>11, <1>12, <1>13, <1>14, <1>15, <1>16, <1>17, <1>18, <1>19, <1>20 DEF GroupNext, Begin, Continue

\* Each member whose end is not confirmed was reported.
LEMMA ReportedAll ==
  ASSUME GroupControl, Reported
  PROVE  Cardinality(shutdown_attempted \ shutdown_confirmed) <= cleanup
<1> DEFINE D == shutdown_attempted \ shutdown_confirmed
           a == Cardinality(D)
           f == Cardinality(stop_failed)
           u == Cardinality(Unconfirmed)
           b == Cardinality(stop_failed \cup Unconfirmed)
           i == Cardinality(stop_failed \cap Unconfirmed)
<1>1. /\ IsFiniteSet(stop_failed) /\ IsFiniteSet(Unconfirmed) /\ f \in Nat /\ u \in Nat
      /\ cleanup \in Nat /\ f + u <= cleanup
  BY Zenon, GroupFinite DEF Reported
<1>2. IsFiniteSet(stop_failed \cup Unconfirmed) /\ b = f + u - i
  BY Zenon, <1>1, FS_Union
<1>3. D \subseteq stop_failed \cup Unconfirmed /\ stop_failed \cap Unconfirmed \subseteq stop_failed
  BY Zenon DEF Unconfirmed
<1>4. IsFiniteSet(D) /\ a <= b /\ a \in Nat /\ i \in Nat /\ b \in Nat
  BY Zenon, <1>1, <1>2, <1>3, FS_Subset, FS_CardinalityType
<1> HIDE DEF a, f, u, b, i
<1>5. a <= cleanup
  BY <1>1, <1>2, <1>4
<1> QED BY Zenon, <1>5 DEF a

-----------------------------------------------------------------------------
(* The rotation of a capture group. *)

LEMMA Turn ==
  ASSUME NEW c \in Nat \ {0}, NEW k \in 0 .. c - 1, NEW m \in 0 .. c - 1
  PROVE  LET next == (k + 1) % c IN
         /\ next \in 0 .. c - 1
         /\ (IF m >= next THEN m - next ELSE m + c - next) =
              IF m = k THEN c - 1 ELSE (IF m >= k THEN m - k ELSE m + c - k) - 1
<1>1. (k + 1) % c = IF k + 1 = c THEN 0 ELSE k + 1
  OBVIOUS
<1> DEFINE next == (k + 1) % c
<1>2. next = IF k + 1 = c THEN 0 ELSE k + 1
  BY <1>1
<1> HIDE DEF next
<1>3. next \in 0 .. c - 1
  BY <1>2
<1>4. (IF m >= next THEN m - next ELSE m + c - next) =
        IF m = k THEN c - 1 ELSE (IF m >= k THEN m - k ELSE m + c - k) - 1
  BY <1>2
<1> QED BY Zenon, <1>3, <1>4 DEF next

InTurn ==
  /\ cursor \in Members /\ pending \in [Members -> 0 .. MaxPending]
  /\ RotationInv

\* The cursor moves on: everybody comes one nearer and the member it was at goes last.
LEMMA Advanced ==
  ASSUME count \in Nat \ {0}, cursor \in Members, armed = count, Advance, count' = count, NEW m \in Members
  PROVE  /\ cursor' \in Members
         /\ distance(m) \in 0 .. count - 1
         /\ distance(m)' = IF m = cursor THEN count - 1 ELSE distance(m) - 1
<1> DEFINE next == (cursor + 1) % count
<1>1. cursor' = next
  BY Zenon DEF Advance
<1>2. cursor \in 0 .. count - 1 /\ m \in 0 .. count - 1
  BY Zenon DEF Members
<1>3. distance(m) = IF m >= cursor THEN m - cursor ELSE m + count - cursor
  BY Zenon DEF distance
<1>4. distance(m)' = IF m >= next THEN m - next ELSE m + count - next
  BY Zenon, <1>1 DEF distance
<1>5. /\ next \in 0 .. count - 1
      /\ (IF m >= next THEN m - next ELSE m + count - next) =
           IF m = cursor THEN count - 1 ELSE (IF m >= cursor THEN m - cursor ELSE m + count - cursor) - 1
  BY Zenon, <1>2, Turn
<1>6. distance(m) \in 0 .. count - 1
  BY <1>2, <1>3
<1> HIDE DEF next
<1> QED BY Zenon, <1>1, <1>3, <1>4, <1>5, <1>6 DEF Members

LEMMA RecordTurn ==
  ASSUME SourcesAssumption, GroupControl, InTurn, Members' = Members, count' = count, PollRecord
  PROVE  InTurn'
<1>1. /\ pending[cursor] > 0 /\ Advance /\ call = "receive"
      /\ pending' = [pending EXCEPT ![cursor] = @ - 1]
      /\ skipped' = [m \in Members |-> IF m # cursor /\ pending[m] > 0 THEN skipped[m] + 1 ELSE 0]
  BY Zenon DEF PollRecord
<1>2. count \in Nat \ {0} /\ armed = count
  BY <1>1 DEF GroupControl, GroupTypes, CallInv
<1>3. /\ cursor \in Members /\ pending \in [Members -> 0 .. MaxPending] /\ skipped \in [Members -> Nat]
      /\ \A m \in Members : skipped[m] + distance(m) <= count - 1 /\ (pending[m] = 0 => skipped[m] = 0)
  BY Zenon DEF InTurn, RotationInv
<1>4. cursor' \in Members
  BY Zenon, <1>1, <1>2, <1>3, Advanced
<1>5. pending' \in [Members -> 0 .. MaxPending]
  <2>1. pending[cursor] \in 0 .. MaxPending
    BY Zenon, <1>3
  <2>2. pending[cursor] - 1 \in 0 .. MaxPending
    BY <1>1, <2>1 DEF SourcesAssumption
  <2> QED BY Zenon, <1>1, <1>3, <2>2
<1>6. skipped' \in [Members -> Nat]
  <2>1. ASSUME NEW m \in Members
        PROVE  (IF m # cursor /\ pending[m] > 0 THEN skipped[m] + 1 ELSE 0) \in Nat
    <3>1. skipped[m] \in Nat
      BY Zenon, <1>3
    <3> QED BY <3>1
  <2> QED BY Zenon, <1>1, <2>1
<1>7. ASSUME NEW m \in Members
      PROVE  skipped'[m] + distance(m)' <= count - 1 /\ (pending'[m] = 0 => skipped'[m] = 0)
  <2> DEFINE s == skipped[m]
             d == distance(m)
             e == distance(m)'
             x == skipped'[m]
  <2>1. d \in 0 .. count - 1 /\ e = IF m = cursor THEN count - 1 ELSE d - 1
    BY Zenon, <1>1, <1>2, <1>3, Advanced
  <2>2. s \in Nat /\ s + d <= count - 1
    BY Zenon, <1>3
  <2>3. x = IF m # cursor /\ pending[m] > 0 THEN s + 1 ELSE 0
    BY Zenon, <1>1
  <2>4. m # cursor => pending'[m] = pending[m]
    BY Zenon, <1>1, <1>3
  <2>5. pending[m] \in 0 .. MaxPending
    BY Zenon, <1>3
  <2>6. pending'[m] = 0 => x = 0
    <3> HIDE DEF s, x
    <3> QED BY <2>3, <2>4, <2>5
  <2> HIDE DEF s, d, e, x
  <2>7. x + e <= count - 1
    BY <1>2, <2>1, <2>2, <2>3
  <2> QED BY Zenon, <2>6, <2>7 DEF x, e
<1> QED BY Zenon, <1>4, <1>5, <1>6, <1>7 DEF InTurn, RotationInv

LEMMA EmptyTurn ==
  ASSUME GroupControl, InTurn, Members' = Members, count' = count, PollEmpty
  PROVE  InTurn'
<1>1. pending[cursor] = 0 /\ Advance /\ call = "receive" /\ pending' = pending /\ skipped' = skipped
  BY Zenon DEF PollEmpty
<1>2. count \in Nat \ {0} /\ armed = count
  BY <1>1 DEF GroupControl, GroupTypes, CallInv
<1>3. /\ cursor \in Members /\ pending \in [Members -> 0 .. MaxPending] /\ skipped \in [Members -> Nat]
      /\ \A m \in Members : skipped[m] + distance(m) <= count - 1 /\ (pending[m] = 0 => skipped[m] = 0)
  BY Zenon DEF InTurn, RotationInv
<1>4. cursor' \in Members
  BY Zenon, <1>1, <1>2, <1>3, Advanced
<1>5. ASSUME NEW m \in Members PROVE skipped[m] + distance(m)' <= count - 1
  <2> DEFINE s == skipped[m]
             d == distance(m)
             e == distance(m)'
  <2>1. d \in 0 .. count - 1 /\ e = IF m = cursor THEN count - 1 ELSE d - 1
    BY Zenon, <1>1, <1>2, <1>3, Advanced
  <2>2. s \in Nat /\ s + d <= count - 1 /\ (m = cursor => s = 0)
    BY Zenon, <1>1, <1>3
  <2> HIDE DEF s, d, e
  <2>3. s + e <= count - 1
    BY <1>2, <2>1, <2>2
  <2> QED BY Zenon, <2>3 DEF s, e
<1> QED BY Zenon, <1>1, <1>3, <1>4, <1>5 DEF InTurn, RotationInv

LEMMA CaptureTurn ==
  ASSUME InTurn, SourcesAssumption, Members' = Members, count' = count, NEW i \in Members, Capture(i)
  PROVE  InTurn'
<1>1. /\ pending[i] < MaxPending /\ pending' = [pending EXCEPT ![i] = @ + 1]
      /\ UNCHANGED <<cursor, skipped>>
  BY Zenon DEF Capture
<1>2. /\ cursor \in Members /\ pending \in [Members -> 0 .. MaxPending] /\ skipped \in [Members -> Nat]
      /\ \A m \in Members : skipped[m] + distance(m) <= count - 1 /\ (pending[m] = 0 => skipped[m] = 0)
  BY Zenon DEF InTurn, RotationInv
<1>3. pending[i] \in 0 .. MaxPending
  BY Zenon, <1>2
<1>4. pending[i] + 1 \in 0 .. MaxPending /\ pending[i] + 1 # 0
  BY <1>1, <1>3 DEF SourcesAssumption
<1>5. pending' \in [Members -> 0 .. MaxPending]
  BY Zenon, <1>1, <1>2, <1>4
<1>6. \A m \in Members : distance(m)' = distance(m)
  BY Zenon, <1>1 DEF distance
<1>7. \A m \in Members : pending'[m] = 0 => skipped[m] = 0
  BY Zenon, <1>1, <1>2, <1>4
<1> QED BY Zenon, <1>1, <1>2, <1>5, <1>6, <1>7 DEF InTurn, RotationInv

LEMMA InTurnStep ==
  ASSUME SourcesAssumption, GroupControl, InTurn, [GroupNext]_groupVars PROVE InTurn'
<1>0. Members' = Members /\ count' = count
  BY Zenon, RequestKept
<1> DEFINE polled == <<cursor, pending, skipped>>
<1>1. ASSUME ArmGroup PROVE UNCHANGED polled
  BY Zenon, <1>1 DEF ArmGroup, Call
<1>2. ASSUME WaitReady PROVE UNCHANGED polled
  BY Zenon, <1>2 DEF WaitReady, Call
<1>3. ASSUME Receive PROVE UNCHANGED polled
  BY Zenon, <1>3 DEF Receive, Call
<1>4. ASSUME StopGroup PROVE UNCHANGED polled
  BY Zenon, <1>4 DEF StopGroup
<1>5. ASSUME Shutdown PROVE UNCHANGED polled
  BY Zenon, <1>5 DEF Shutdown
<1>6. ASSUME ArmSource PROVE UNCHANGED polled
  BY Zenon, <1>6 DEF ArmSource
<1>7. ASSUME ArmDone PROVE UNCHANGED polled
  BY Zenon, <1>7 DEF ArmDone
<1>8. ASSUME ReadySource PROVE UNCHANGED polled
  BY Zenon, <1>8 DEF ReadySource
<1>9. ASSUME ReadyDone PROVE UNCHANGED polled
  BY Zenon, <1>9 DEF ReadyDone
<1>10. ASSUME CallFails PROVE UNCHANGED polled
  BY Zenon, <1>10 DEF CallFails
<1>11. ASSUME ReceiveNone PROVE UNCHANGED polled
  BY Zenon, <1>11 DEF ReceiveNone
<1>12. ASSUME StopSource PROVE UNCHANGED polled
  BY Zenon, <1>12 DEF StopSource
<1>13. ASSUME StopDone PROVE UNCHANGED polled
  BY Zenon, <1>13 DEF StopDone
<1>14. ASSUME JoinSource PROVE UNCHANGED polled
  BY Zenon, <1>14 DEF JoinSource
<1>15. ASSUME JoinDone PROVE UNCHANGED polled
  BY Zenon, <1>15 DEF JoinDone
<1>16. ASSUME UNCHANGED groupVars PROVE UNCHANGED polled
  BY Zenon, <1>16 DEF groupVars
<1>17. ASSUME UNCHANGED polled PROVE InTurn'
  BY Zenon, <1>0, <1>17 DEF InTurn, RotationInv, distance
<1> HIDE DEF polled
<1> QED BY Zenon, <1>0, <1>1, <1>2, <1>3, <1>4, <1>5, <1>6, <1>7, <1>8, <1>9, <1>10, <1>11, <1>12, <1>13, <1>14, <1>15, <1>16, <1>17, RecordTurn, EmptyTurn, CaptureTurn DEF GroupNext, Begin, Continue

\* No member is passed over more often than there are others.
LEMMA SkippedBounded ==
  ASSUME GroupControl, InTurn, NEW m \in Members PROVE skipped[m] <= count - 1
<1> DEFINE s == skipped[m]
           d == distance(m)
<1>1. count \in Nat \ {0}
  BY Zenon DEF GroupControl, GroupTypes
<1>2. cursor \in 0 .. count - 1 /\ m \in 0 .. count - 1 /\ s \in Nat /\ s + d <= count - 1
  BY Zenon DEF InTurn, RotationInv, Members
<1>3. d = IF m >= cursor THEN m - cursor ELSE m + count - cursor
  BY Zenon DEF distance
<1> HIDE DEF s, d
<1>4. s <= count - 1
  BY <1>1, <1>2, <1>3
<1> QED BY Zenon, <1>4 DEF s

-----------------------------------------------------------------------------
(* The theorem on groups. *)

WellGrouped == RequestValid /\ GroupControl /\ Reported /\ InTurn

LEMMA WellGroupedHonest ==
  ASSUME SourcesAssumption, WellGrouped PROVE GroupHonest
<1>1. RequestValid /\ GroupControl /\ Reported /\ InTurn
  BY Zenon DEF WellGrouped
<1>2. GroupTypeOK
  BY Zenon, <1>1 DEF GroupTypeOK, GroupControl, GroupTypes, Reported, InTurn
<1>3. FailureStopsAll
  BY Zenon, <1>1, <1>2, ReportedAll DEF FailureStopsAll, GroupControl
<1>4. NoStarvation
  BY Zenon, <1>1, PartitionFair, SkippedBounded DEF NoStarvation
<1> QED BY Zenon, <1>3, <1>4 DEF GroupHonest

LEMMA WellGroupedInit ==
  ASSUME SourcesAssumption, GroupInit PROVE WellGrouped
<1>1. RequestValid
  BY Zenon DEF GroupInit, RequestValid
<1>2. count \in Nat \ {0}
  BY Zenon, <1>1, RequestTyped
<1>3. GroupControl
  BY <1>2 DEF GroupInit, GroupControl, GroupTypes, CallInv
<1>4. stop_failed = {} /\ Unconfirmed = {} /\ cleanup = 0
  BY Zenon DEF GroupInit, Unconfirmed
<1>5. Cardinality({}) = 0
  BY Zenon, FS_EmptySet
<1>6. Reported
  BY <1>4, <1>5 DEF Reported
<1>7. InTurn
  <2>1. cursor = 0 /\ pending = [m \in Members |-> 0] /\ skipped = [m \in Members |-> 0]
    BY Zenon DEF GroupInit
  <2>2. 0 \in Members /\ 0 \in 0 .. MaxPending /\ 0 \in Nat
    BY <1>2 DEF Members, SourcesAssumption
  <2>3. ASSUME NEW m \in Members PROVE 0 + distance(m) <= count - 1
    BY <1>2, <2>1 DEF distance, Members
  <2> QED BY Zenon, <2>1, <2>2, <2>3 DEF InTurn, RotationInv
<1> QED BY Zenon, <1>1, <1>3, <1>6, <1>7 DEF WellGrouped

LEMMA WellGroupedStep ==
  ASSUME SourcesAssumption, WellGrouped, [GroupNext]_groupVars PROVE WellGrouped'
<1>1. RequestValid'
  BY Zenon, RequestKept DEF WellGrouped, RequestValid, validate
<1> QED BY Zenon, <1>1, GroupControlStep, ReportedStep, InTurnStep DEF WellGrouped

\* A group closes as a whole and serves its members in turn, for any number of interfaces and any
\* limits that validate accepts: a failed call leaves no member running, every member is asked to
\* stop before the first is joined, an unconfirmed end was reported, partition spends exactly the
\* shared limits, and rotation passes nobody over more than count - 1 times (capture/group.rs).
THEOREM GroupTheorem == ASSUME SourcesAssumption PROVE GroupSpec => []GroupHonest
<1>1. GroupInit => WellGrouped
  BY Zenon, WellGroupedInit
<1>2. WellGrouped /\ [GroupNext]_groupVars => WellGrouped'
  BY Zenon, WellGroupedStep
<1>3. WellGrouped => GroupHonest
  BY Zenon, WellGroupedHonest
<1> QED BY <1>1, <1>2, <1>3, PTL DEF GroupSpec
=============================================================================
