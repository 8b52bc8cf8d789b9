----------------------------- MODULE CallProofs -----------------------------
(***************************************************************************)
(* Proofs about the calls that must return, for any number of attempts,    *)
(* lookups and octets and any limits.  Each theorem is about one           *)
(* component; the query is an instance with its own names, and a variable   *)
(* that it shares with another component is only the same name.            *)
(***************************************************************************)
EXTENDS TcpConnect, HostLookup, FiniteSetTheorems, TLAPS

CONSTANTS QueryLength, Declared, max_message_bytes, timeout, POLL_INTERVAL

VARIABLES now, phase, wait, taken, declared, read, ended, consumed, after, result

Query == INSTANCE DnsTcp

-----------------------------------------------------------------------------
(* HostLookup. *)

LEMMA LookupFinite ==
  ASSUME LookupAssumption
  PROVE  IsFiniteSet(Lookups) /\ MAX_PENDING_LOOKUPS \in Nat
BY DEF LookupAssumption

\* Which permits a lookup holds, and which of them are retained, after each step.
LEMMA LookupPermits ==
  ASSUME LookupTypes, \A l \in Lookups : PermitsFollow(l), RetainedExact,
         [LookupNext]_lookupVars
  PROVE  LookupTypes' /\ (\A l \in Lookups : PermitsFollow(l)') /\ RetainedExact'
<1> USE DEF LookupTypes, PermitsFollow, Holds, RetainedExact, Pools, Step, Returned, ReturnedBoth, Marked
<1> DEFINE Goal == /\ LookupTypes /\ (\A l \in Lookups : PermitsFollow(l))
                   /\ RetainedExact
<1>1. ASSUME NEW l \in Lookups, AdmitLookup(l) PROVE Goal'
  BY <1>1 DEF AdmitLookup
<1>2. ASSUME NEW l \in Lookups, AdmitRoot(l) PROVE Goal'
  BY <1>2 DEF AdmitRoot
<1>3. ASSUME NEW l \in Lookups, Dispatch(l) PROVE Goal'
  BY <1>3 DEF Dispatch
<1>4. ASSUME NEW l \in Lookups, Run(l) PROVE Goal'
  BY <1>4 DEF Run
<1>5. ASSUME NEW l \in Lookups, RunResolver(l) PROVE Goal'
  BY <1>5 DEF RunResolver
<1>6. ASSUME NEW l \in Lookups, DropLookup(l) PROVE Goal'
  BY <1>6 DEF DropLookup
<1>7. ASSUME NEW l \in Lookups, SettleLookup(l) PROVE Goal'
  BY <1>7 DEF SettleLookup
<1>8. ASSUME NEW l \in Lookups, PublishLookup(l) PROVE Goal'
  BY <1>8 DEF PublishLookup
<1>9. ASSUME NEW l \in Lookups, Finished(l) PROVE Goal'
  BY <1>9 DEF Finished
<1>10. ASSUME NEW l \in Lookups, Abandon(l) PROVE Goal'
  BY <1>10 DEF Abandon
<1>11. ASSUME NEW l \in Lookups, RetainLookup(l) PROVE Goal'
  BY <1>11 DEF RetainLookup
<1>12. ASSUME NEW l \in Lookups, ExpireLookup(l) PROVE Goal'
  BY <1>12 DEF ExpireLookup
<1>13. CASE Others
  BY <1>13 DEF Others
<1>14. CASE UNCHANGED lookupVars
  BY <1>14 DEF lookupVars
<1> QED
  BY Zenon, <1>1, <1>2, <1>3, <1>4, <1>5, <1>6, <1>7, <1>8, <1>9, <1>10, <1>11, <1>12, <1>13, <1>14
  DEF LookupNext

\* AdmitLookup is the only step that takes a permit of the lookup pool, below its limit.
LEMMA LookupsBounded ==
  ASSUME LookupAssumption, LookupTypes, [LookupNext]_lookupVars,
         Cardinality(held["lookup"]) <= MAX_PENDING_LOOKUPS
  PROVE  Cardinality(held'["lookup"]) <= MAX_PENDING_LOOKUPS
<1>1. held["lookup"] \subseteq Lookups /\ IsFiniteSet(held["lookup"])
  BY LookupFinite, FS_Subset DEF LookupTypes, Pools
<1>2. ASSUME NEW l \in Lookups, AdmitLookup(l), ~(l \in timed_out \/ Refused("lookup"))
      PROVE  Cardinality(held'["lookup"]) <= MAX_PENDING_LOOKUPS
  <2>1. held'["lookup"] = held["lookup"] \cup {l}
    BY <1>2 DEF AdmitLookup, LookupTypes, Pools
  <2>2. ~(Cardinality(held["lookup"]) >= MAX_PENDING_LOOKUPS)
    BY <1>2, LookupFinite DEF Refused
  <2>3. Cardinality(held["lookup"]) \in Nat
    BY <1>1, FS_CardinalityType
  <2>4. Cardinality(held["lookup"] \cup {l}) =
          IF l \in held["lookup"] THEN Cardinality(held["lookup"]) ELSE Cardinality(held["lookup"]) + 1
    BY Zenon, <1>1, FS_AddElement
  <2>5. Cardinality(held["lookup"] \cup {l}) \in Nat
    BY Zenon, <1>1, FS_AddElement, FS_CardinalityType
  <2> QED
    BY <2>1, <2>2, <2>3, <2>4, <2>5, LookupFinite
<1>3. ASSUME held'["lookup"] \subseteq held["lookup"]
      PROVE  Cardinality(held'["lookup"]) <= MAX_PENDING_LOOKUPS
  BY <1>1, <1>3, FS_Subset, FS_CardinalityType, LookupFinite
<1>4. ASSUME NEW l \in Lookups, AdmitLookup(l), l \in timed_out \/ Refused("lookup")
      PROVE  held'["lookup"] \subseteq held["lookup"]
  BY <1>4 DEF AdmitLookup
<1>5. ASSUME NEW l \in Lookups,
             \/ AdmitRoot(l) \/ Dispatch(l) \/ DropLookup(l) \/ SettleLookup(l)
      PROVE  held'["lookup"] \subseteq held["lookup"]
  BY <1>5 DEF AdmitRoot, Dispatch, DropLookup, SettleLookup, Returned,
              ReturnedBoth, LookupTypes, Pools
<1>6. ASSUME NEW l \in Lookups,
             \/ Run(l) \/ RunResolver(l) \/ PublishLookup(l)
             \/ Finished(l) \/ Abandon(l) \/ RetainLookup(l) \/ ExpireLookup(l)
      PROVE  held' = held
  BY <1>6 DEF Run, RunResolver, PublishLookup, Finished, Abandon,
              RetainLookup, ExpireLookup
<1>7. Others \/ UNCHANGED lookupVars => held' = held
  BY DEF Others, lookupVars
<1> QED
  BY <1>2, <1>3, <1>4, <1>5, <1>6, <1>7 DEF LookupNext

\* blocking_lookup_on never lets more than MAX_PENDING_LOOKUPS resolvers run, charges a
\* running one to both pools and gives everything back; what the pools report as retained is
\* exactly what nobody waits for.
THEOREM LookupTheorem ==
  ASSUME LookupAssumption
  PROVE  LookupSpec => []LookupHonest
<1>1. LookupInit => LookupInv
  <2> SUFFICES ASSUME LookupInit PROVE LookupInv
    OBVIOUS
  <2>1. Cardinality(held["lookup"]) <= MAX_PENDING_LOOKUPS
    BY LookupFinite, FS_EmptySet DEF LookupInit, Pools
  <2> QED
    BY <2>1 DEF LookupInit, LookupInv, LookupTypes, PermitsFollow, Holds, RetainedExact,
                Pools
<1>2. LookupInv /\ [LookupNext]_lookupVars => LookupInv'
  BY LookupPermits, LookupsBounded, LookupFinite DEF LookupInv
<1>3. LookupInv => LookupHonest
  BY DEF LookupInv, LookupTypes, PermitsFollow, Holds, Pools, LookupHonest, LookupCharged, Over
<1> QED
  BY <1>1, <1>2, <1>3, PTL DEF LookupSpec

-----------------------------------------------------------------------------
(* TcpConnect. *)

LEMMA ConnectFinite ==
  ASSUME ConnectAssumption
  PROVE  /\ IsFiniteSet(Attempts) /\ capacity \in Nat
BY DEF ConnectAssumption

\* The job's end is an outcome.
LEMMA EndedType ==
  ASSUME NEW a \in Attempts, NEW tried \in BOOLEAN, NEW ending \in Results,
         ConnectDomains, Ended(a, tried, ending)
  PROVE  outcome' \in [Attempts -> [attempted : BOOLEAN, result : Results]]
<1> DEFINE Outcomes == [attempted : BOOLEAN, result : Results]
<1>1. [attempted |-> tried, result |-> ending] \in Outcomes
  OBVIOUS
<1>2. outcome \in [Attempts -> Outcomes]
  BY DEF ConnectDomains
<1> HIDE DEF Outcomes
<1>3. outcome' \in [Attempts -> Outcomes]
  BY <1>1, <1>2 DEF Ended
<1> QED
  BY <1>3 DEF Outcomes

LEMMA CallerType ==
  ASSUME NEW a \in Attempts, NEW pc \in {"idle", "loaded", "leased", "started", "refused"},
         ConnectDomains, caller' = [caller EXCEPT ![a].pc = pc]
  PROVE  caller' \in [Attempts -> [pc : {"idle", "loaded", "leased", "started", "refused"},
                                   seen : 0 .. capacity]]
<1> DEFINE Pcs == {"idle", "loaded", "leased", "started", "refused"}
           Seen == 0 .. capacity
<1>1. caller \in [Attempts -> [pc : Pcs, seen : Seen]] /\ pc \in Pcs
  BY DEF ConnectDomains
<1> HIDE DEF Pcs, Seen
<1>2. caller' \in [Attempts -> [pc : Pcs, seen : Seen]]
  BY <1>1
<1> QED
  BY <1>2 DEF Pcs, Seen

\* Every step of an attempt keeps the variables in their domains.
LEMMA ConnectTypes ==
  ASSUME NEW a \in Attempts, ConnectDomains, active \in 0 .. capacity,
         WorkerStep(a) \/ CallerStep(a) \/ Expire(a)
  PROVE  ConnectDomains'
<1> USE DEF ConnectDomains, Results
<1>1. CASE Begin(a)
  <2>1. CASE a \in cancelled \cup expired
    <3>1. outcome' \in [Attempts -> [attempted : BOOLEAN, result : Results]]
      BY <1>1, <2>1, EndedType, Zenon DEF Begin
    <3> QED
      BY Zenon, <1>1, <2>1, <3>1 DEF Begin
  <2>2. CASE ~(a \in cancelled \cup expired)
    BY <1>1, <2>2 DEF Begin, Ended
  <2> QED
    BY <2>1, <2>2
<1>2. CASE ProviderConnects(a)
  BY <1>2 DEF ProviderConnects
<1>3. CASE ProviderFails(a)
  BY <1>3 DEF ProviderFails, Ended
<1>4. CASE Check(a)
  <2>1. CASE a \in cancelled \cup expired
    <3>1. outcome' \in [Attempts -> [attempted : BOOLEAN, result : Results]]
      BY <1>4, <2>1, EndedType, Zenon DEF Check
    <3>2. stream' \in [Attempts -> {"None", "open", "closed"}]
      BY <1>4, <2>1 DEF Check, Ended
    <3> QED
      BY <1>4, <2>1, <3>1, <3>2 DEF Check
  <2>2. CASE ~(a \in cancelled \cup expired)
    <3>1. outcome' \in [Attempts -> [attempted : BOOLEAN, result : Results]]
      BY <1>4, <2>2, EndedType, Zenon DEF Check
    <3>2. lease' \in [Attempts -> SUBSET {"guard", "connection"}]
      BY <1>4, <2>2 DEF Check, Ended
    <3>3. permit' \in [Attempts -> SUBSET {"job", "socket"}]
      BY <1>4, <2>2 DEF Check, Ended
    <3> QED
      BY <1>4, <2>2, <3>1, <3>2, <3>3 DEF Check
  <2> QED
    BY <2>1, <2>2
<1>5. CASE DropGuard(a)
  BY <1>5 DEF DropGuard, Released
<1>6. CASE Settle(a)
  BY <1>6 DEF Settle
<1>7. CASE Publish(a)
  <2>1. CASE handle[a] = "Dropped"
    <3>1. stream' \in [Attempts -> {"None", "open", "closed"}]
      BY <1>7, <2>1 DEF Publish, Closed, Released
    <3>2. permit' \in [Attempts -> SUBSET {"job", "socket"}]
      BY <1>7, <2>1 DEF Publish, Closed, Released
    <3>3. lease' \in [Attempts -> SUBSET {"guard", "connection"}]
      BY <1>7, <2>1 DEF Publish, Closed, Released
    <3> QED
      BY Zenon, <1>7, <2>1, <3>1, <3>2, <3>3 DEF Publish
  <2>2. CASE ~(handle[a] = "Dropped")
    BY <1>7, <2>2 DEF Publish, Closed, Released
  <2> QED
    BY <2>1, <2>2
<1>8. CASE Load(a)
  BY <1>8 DEF Load
<1>9. CASE LeaseRefused(a)
  BY <1>9 DEF LeaseRefused
<1>10. CASE CompareExchange(a)
  <2>1. CASE /\ lease' = [lease EXCEPT ![a] = {"guard"}]
             /\ caller' = [caller EXCEPT ![a].pc = "leased"]
    BY <1>10, <2>1 DEF CompareExchange
  <2>2. CASE caller' = [caller EXCEPT ![a].seen = active] /\ lease' = lease
    BY <1>10, <2>2 DEF CompareExchange
  <2> QED
    BY <1>10, <2>1, <2>2 DEF CompareExchange
<1>11. CASE StartFails(a)
  <2>1. caller' \in [Attempts -> [pc : {"idle", "loaded", "leased", "started", "refused"},
                                  seen : 0 .. capacity]]
    BY Zenon, <1>11, CallerType DEF StartFails
  <2>2. lease' \in [Attempts -> SUBSET {"guard", "connection"}]
    BY <1>11 DEF StartFails, Released
  <2> QED
    BY <1>11, <2>1, <2>2 DEF StartFails
<1>12. CASE Start(a)
  <2>1. caller' \in [Attempts -> [pc : {"idle", "loaded", "leased", "started", "refused"},
                                  seen : 0 .. capacity]]
    <3>1. caller' = [caller EXCEPT ![a].pc = "started"]
      BY <1>12 DEF Start
    <3> QED
      BY <3>1, CallerType
  <2>2. permit' \in [Attempts -> SUBSET {"job", "socket"}]
    BY <1>12 DEF Start
  <2> QED
    BY <1>12, <2>1, <2>2 DEF Start
<1>13. CASE Poll(a)
  BY <1>13 DEF Poll
<1>14. CASE Cancel(a)
  BY <1>14 DEF Cancel
<1>15. CASE Drop(a)
  <2>1. CASE at[a] = "slot"
    <3>1. stream' \in [Attempts -> {"None", "open", "closed"}]
      BY <1>15, <2>1 DEF Drop, Closed, Released
    <3>2. permit' \in [Attempts -> SUBSET {"job", "socket"}]
      BY <1>15, <2>1 DEF Drop, Closed, Released
    <3>3. lease' \in [Attempts -> SUBSET {"guard", "connection"}]
      BY <1>15, <2>1 DEF Drop, Closed, Released
    <3>4. /\ handle' \in [Attempts -> {"None", "Running", "Complete", "Failed", "Dropped"}]
          /\ at' \in [Attempts -> {"None", "worker", "slot", "caller", "gone"}]
      BY Zenon, <1>15, <2>1 DEF Drop
    <3> QED
      BY <1>15, <2>1, <3>1, <3>2, <3>3, <3>4 DEF Drop
  <2>2. CASE ~(at[a] = "slot")
    BY <1>15, <2>2 DEF Drop, Closed, Released
  <2> QED
    BY <2>1, <2>2
<1>16. CASE DropConnection(a)
  BY <1>16 DEF DropConnection, Closed, Released
<1>17. CASE Expire(a)
  BY <1>17 DEF Expire
<1> QED
  BY Zenon, <1>1, <1>2, <1>3, <1>4, <1>5, <1>6, <1>7, <1>8, <1>9, <1>10, <1>11, <1>12, <1>13, <1>14, <1>15, <1>16, <1>17
  DEF WorkerStep, CallerStep

\* A step of attempt a: what it holds goes on following from where its job and its outcome are.
LEMMA AttemptSteps ==
  ASSUME NEW a \in Attempts, ConnectDomains, active \in 0 .. capacity,
         JobFollows(a), OutcomeFollows(a),
         WorkerStep(a) \/ CallerStep(a) \/ Expire(a)
  PROVE  JobFollows(a)' /\ OutcomeFollows(a)'
<1> USE DEF ConnectDomains, JobFollows, OutcomeFollows
<1>1. CASE Begin(a)
  <2>1. CASE a \in cancelled \cup expired
    BY <1>1, <2>1 DEF Begin, Ended
  <2>2. CASE ~(a \in cancelled \cup expired)
    BY ZenonT(40), <1>1, <2>2 DEF Begin, Ended
  <2> QED
    BY Zenon, <2>1, <2>2
<1>2. CASE ProviderConnects(a)
  BY <1>2 DEF ProviderConnects
<1>3. CASE ProviderFails(a)
  BY <1>3 DEF ProviderFails, Ended
<1>4. CASE Check(a)
  <2>1. CASE a \in cancelled \cup expired
    BY <1>4, <2>1 DEF Check, Ended
  <2>2. CASE ~(a \in cancelled \cup expired)
    BY <1>4, <2>2 DEF Check, Ended
  <2> QED
    BY Zenon, <2>1, <2>2
<1>5. CASE DropGuard(a)
  BY <1>5 DEF DropGuard, Released
<1>6. CASE Settle(a)
  BY <1>6 DEF Settle
<1>7. CASE Publish(a)
  <2>1. CASE handle[a] = "Dropped"
    BY <1>7, <2>1 DEF Publish, Closed, Released
  <2>2. CASE ~(handle[a] = "Dropped")
    BY <1>7, <2>2 DEF Publish, Closed, Released
  <2> QED
    BY Zenon, <2>1, <2>2
<1>8. CASE Load(a)
  BY <1>8 DEF Load
<1>9. CASE LeaseRefused(a)
  BY <1>9 DEF LeaseRefused
<1>10. CASE CompareExchange(a)
  <2>1. CASE /\ lease' = [lease EXCEPT ![a] = {"guard"}]
             /\ caller' = [caller EXCEPT ![a].pc = "leased"]
    BY <1>10, <2>1 DEF CompareExchange
  <2>2. CASE caller' = [caller EXCEPT ![a].seen = active] /\ lease' = lease
    BY <1>10, <2>2 DEF CompareExchange
  <2> QED
    BY <1>10, <2>1, <2>2 DEF CompareExchange
<1>11. CASE StartFails(a)
  BY <1>11 DEF StartFails, Released
<1>12. CASE Start(a)
  BY <1>12 DEF Start
<1>13. CASE Poll(a)
  BY <1>13 DEF Poll
<1>14. CASE Cancel(a)
  BY <1>14 DEF Cancel
<1>15. CASE Drop(a)
  <2>1. CASE at[a] = "slot"
    BY <1>15, <2>1 DEF Drop, Closed, Released
  <2>2. CASE ~(at[a] = "slot")
    BY Zenon, <1>15, <2>2 DEF Drop, Closed, Released
  <2> QED
    BY Zenon, <2>1, <2>2
<1>16. CASE DropConnection(a)
  BY <1>16 DEF DropConnection, Closed, Released
<1>17. CASE Expire(a)
  BY <1>17 DEF Expire
<1> QED
  BY Zenon, <1>1, <1>2, <1>3, <1>4, <1>5, <1>6, <1>7, <1>8, <1>9, <1>10, <1>11, <1>12, <1>13, <1>14, <1>15, <1>16, <1>17
  DEF WorkerStep, CallerStep

\* A step of one attempt changes nothing that another has.
LEMMA OthersUntouched ==
  ASSUME NEW a \in Attempts, NEW b \in Attempts \ {a}, ConnectDomains,
         WorkerStep(a) \/ CallerStep(a) \/ Expire(a)
  PROVE  /\ caller'[b] = caller[b] /\ handle'[b] = handle[b] /\ lease'[b] = lease[b]
         /\ permit'[b] = permit[b] /\ worker'[b] = worker[b] /\ stream'[b] = stream[b]
         /\ outcome'[b] = outcome[b] /\ at'[b] = at[b] /\ answer'[b] = answer[b]
         /\ b \in cancelled' <=> b \in cancelled
         /\ b \in attempted' <=> b \in attempted
         /\ b \in called' <=> b \in called
<1> USE DEF ConnectDomains
<1>1. CASE Begin(a)
  BY ZenonT(40), <1>1 DEF Begin, Ended
<1>2. CASE ProviderConnects(a)
  BY <1>2 DEF ProviderConnects
<1>3. CASE ProviderFails(a)
  BY <1>3 DEF ProviderFails, Ended
<1>4. CASE Check(a)
  BY <1>4 DEF Check, Ended
<1>5. CASE DropGuard(a)
  BY <1>5 DEF DropGuard, Released
<1>6. CASE Settle(a)
  BY <1>6 DEF Settle
<1>7. CASE Publish(a)
  BY <1>7 DEF Publish, Closed, Released
<1>8. CASE Load(a)
  BY <1>8 DEF Load
<1>9. CASE LeaseRefused(a)
  BY <1>9 DEF LeaseRefused
<1>10. CASE CompareExchange(a)
  BY <1>10 DEF CompareExchange
<1>11. CASE StartFails(a)
  BY <1>11 DEF StartFails, Released
<1>12. CASE Start(a)
  BY <1>12 DEF Start
<1>13. CASE Poll(a)
  BY <1>13 DEF Poll
<1>14. CASE Cancel(a)
  BY <1>14 DEF Cancel
<1>15. CASE Drop(a)
  BY <1>15 DEF Drop, Closed, Released
<1>16. CASE DropConnection(a)
  BY <1>16 DEF DropConnection, Closed, Released
<1>17. CASE Expire(a)
  BY <1>17 DEF Expire
<1> QED
  BY Zenon, <1>1, <1>2, <1>3, <1>4, <1>5, <1>6, <1>7, <1>8, <1>9, <1>10, <1>11, <1>12, <1>13, <1>14, <1>15, <1>16, <1>17
  DEF WorkerStep, CallerStep

\* The attempts that hold a lease of the budget.
Leased == {a \in Attempts : lease[a] # {}}

\* ConnectBudget: `active` is the number of leases, and CompareExchange adds one below capacity only.
LEMMA BudgetExact ==
  ASSUME ConnectAssumption, ConnectInv, NEW a \in Attempts,
         WorkerStep(a) \/ CallerStep(a) \/ Expire(a)
  PROVE  active' \in 0 .. capacity /\ active' = Cardinality(Leased')
<1>1. /\ IsFiniteSet(Leased) /\ active = Cardinality(Leased) /\ active \in 0 .. capacity
      /\ capacity \in Nat
  BY Zenon, ConnectFinite, FS_Subset DEF Leased, ConnectInv
<1>2. \A b \in Attempts \ {a} : b \in Leased' <=> b \in Leased
  BY Zenon, OthersUntouched DEF ConnectInv, Leased
<1>3. ASSUME active' = active + 1, active < capacity, a \notin Leased, a \in Leased'
      PROVE  active' \in 0 .. capacity /\ active' = Cardinality(Leased')
  <2>1. Leased' = Leased \cup {a}
    BY <1>2, <1>3 DEF Leased
  <2> QED
    BY <1>1, <1>3, <2>1, FS_AddElement
<1>4. ASSUME active' = active - 1, a \in Leased, a \notin Leased'
      PROVE  active' \in 0 .. capacity /\ active' = Cardinality(Leased')
  <2>1. Leased' = Leased \ {a}
    BY <1>2, <1>4 DEF Leased
  <2>2. Cardinality(Leased') = Cardinality(Leased) - 1 /\ Cardinality(Leased') \in Nat
    BY <1>1, <1>4, <2>1, FS_RemoveElement, FS_CardinalityType
  <2> QED
    BY <1>1, <1>4, <2>2
<1>5. ASSUME active' = active, a \in Leased' <=> a \in Leased
      PROVE  active' \in 0 .. capacity /\ active' = Cardinality(Leased')
  <2>1. Leased' = Leased
    BY <1>2, <1>5 DEF Leased
  <2> QED
    BY <1>1, <1>5, <2>1
<1>6. ASSUME NEW owners, Released(a, owners)
      PROVE  active' \in 0 .. capacity /\ active' = Cardinality(Leased')
  <2>1. lease'[a] = lease[a] \ owners
    BY <1>6 DEF Released, ConnectInv, ConnectDomains
  <2>2. CASE lease[a] # {} /\ lease[a] \ owners = {}
    BY <1>4, <1>6, <2>1, <2>2 DEF Released, Leased
  <2>3. CASE ~(lease[a] # {} /\ lease[a] \ owners = {})
    BY <1>5, <1>6, <2>1, <2>3 DEF Released, Leased
  <2> QED
    BY <2>2, <2>3
<1>7. CASE CompareExchange(a)
  <2>1. JobFollows(a) /\ caller[a].seen \in Nat /\ caller[a].pc = "loaded"
    BY <1>7 DEF CompareExchange, ConnectInv, ConnectDomains
  <2>2. a \notin Leased
    BY <2>1 DEF JobFollows, Leased
  <2>3. CASE active' = active + 1 /\ lease' = [lease EXCEPT ![a] = {"guard"}] /\ active = caller[a].seen
    BY <1>3, <1>7, <2>2, <2>3 DEF CompareExchange, ConnectInv, ConnectDomains, Leased
  <2>4. CASE active' = active /\ lease' = lease
    BY <1>5, <2>4 DEF Leased
  <2> QED
    BY <1>7, <2>3, <2>4 DEF CompareExchange
<1>8. CASE Check(a)
  <2>1. JobFollows(a) /\ ConnectDomains
    BY DEF ConnectInv
  <2>2. lease[a] = {"guard"} /\ active' = active
    BY <1>8, <2>1 DEF Check, JobFollows
  <2>3. lease' = lease \/ lease' = [lease EXCEPT ![a] = lease[a] \cup {"connection"}]
    BY Zenon, <1>8 DEF Check
  <2>4. "guard" \in lease'[a]
    BY <2>1, <2>2, <2>3 DEF ConnectDomains
  <2> QED
    BY <1>5, <2>2, <2>4 DEF Leased
<1>9. CASE DropGuard(a) \/ StartFails(a) \/ DropConnection(a)
  BY <1>6, <1>9 DEF DropGuard, StartFails, DropConnection, Closed
<1>10. CASE Publish(a) \/ Drop(a)
  BY Zenon, <1>5, <1>6, <1>10 DEF Publish, Drop, Closed, Leased
<1>11. CASE active' = active /\ lease' = lease
  BY <1>5, <1>11 DEF Leased
<1> QED
  BY Zenon, <1>7, <1>8, <1>9, <1>10, <1>11 DEF WorkerStep, CallerStep, Begin,
     ProviderConnects, ProviderFails, Settle, Load, LeaseRefused,
     Start, Poll, Cancel, Expire

\* The inductive step of ConnectInv.
LEMMA ConnectStep ==
  ASSUME ConnectAssumption, ConnectInv, [ConnectNext]_(connVars)
  PROVE  ConnectInv'
<1>1. ASSUME NEW a \in Attempts, WorkerStep(a) \/ CallerStep(a) \/ Expire(a)
      PROVE  ConnectInv'
  <2>1. ConnectDomains'
    BY Zenon, <1>1, ConnectTypes DEF ConnectInv
  <2>2. active' \in 0 .. capacity /\ active' = Cardinality({b \in Attempts : lease'[b] # {}})
    BY Zenon, <1>1, BudgetExact DEF Leased
  <2>3. JobFollows(a)' /\ OutcomeFollows(a)'
    BY <1>1, AttemptSteps DEF ConnectInv
  <2>4. ASSUME NEW b \in Attempts \ {a} PROVE JobFollows(b)' /\ OutcomeFollows(b)'
    <3>1. JobFollows(b) /\ OutcomeFollows(b) /\ ConnectDomains
      BY <2>4 DEF ConnectInv
    <3>2. /\ caller'[b] = caller[b] /\ handle'[b] = handle[b] /\ lease'[b] = lease[b]
          /\ permit'[b] = permit[b] /\ worker'[b] = worker[b] /\ stream'[b] = stream[b]
          /\ outcome'[b] = outcome[b] /\ at'[b] = at[b] /\ answer'[b] = answer[b]
          /\ b \in cancelled' <=> b \in cancelled
          /\ b \in attempted' <=> b \in attempted
          /\ b \in called' <=> b \in called
      BY Zenon, <1>1, <2>4, <3>1, OthersUntouched
    <3>3. JobFollows(b)'
      BY <3>1, <3>2 DEF JobFollows
    <3>4. OutcomeFollows(b)'
      BY Zenon, <3>1, <3>2 DEF OutcomeFollows
    <3> QED
      BY <3>3, <3>4
  <2> QED
    BY Zenon, <2>1, <2>2, <2>3, <2>4, ConnectFinite DEF ConnectInv
<1>2. CASE UNCHANGED connVars
  <2> USE <1>2 DEF connVars
  <2>1. ConnectDomains'
    BY DEF ConnectInv, ConnectDomains
  <2>2. ASSUME NEW b \in Attempts PROVE JobFollows(b)' /\ OutcomeFollows(b)'
    <3>1. JobFollows(b) /\ OutcomeFollows(b)
      BY Zenon DEF ConnectInv
    <3> QED
      BY Zenon, <3>1 DEF JobFollows, OutcomeFollows
  <2> QED
    BY <2>1, <2>2 DEF ConnectInv
<1> QED
  BY <1>1, <1>2 DEF ConnectNext

LEMMA ConnectStart ==
  ASSUME ConnectAssumption, ConnectInit PROVE ConnectInv
<1>1. {a \in Attempts : lease[a] # {}} = {}
  BY DEF ConnectInit
<1>2. active = Cardinality({a \in Attempts : lease[a] # {}}) /\ active \in 0 .. capacity
  <2>1. Cardinality({}) = 0
    BY ConnectFinite, FS_EmptySet
  <2>2. capacity \in Nat /\ active = 0
    BY ConnectFinite DEF ConnectInit
  <2>3. active \in 0 .. capacity
    BY <2>2
  <2> QED
    BY Zenon, <1>1, <2>1, <2>2, <2>3
<1>3. ConnectDomains
  BY ConnectFinite DEF ConnectInit, ConnectDomains, NoOutcome, Results
<1>4. \A a \in Attempts : JobFollows(a) /\ OutcomeFollows(a)
  BY DEF ConnectInit, JobFollows, OutcomeFollows, NoOutcome
<1> QED
  BY <1>2, <1>3, <1>4 DEF ConnectInv

\* ConnectBudget and PendingConnect: what cancel() answers about the provider stays true, `active`
\* counts the leases, and an open stream is charged to budget and pool and has an owner.
THEOREM ConnectTheorem ==
  ASSUME ConnectAssumption
  PROVE  ConnectSpec => []ConnectHonest
<1>1. ConnectInit => ConnectInv
  BY ConnectStart
<1>2. ConnectInv /\ [ConnectNext]_(connVars) => ConnectInv'
  BY ConnectStep
<1>3. ConnectInv => ConnectHonest
  <2> SUFFICES ASSUME ConnectInv PROVE ConnectHonest
    OBVIOUS
  <2>1. CancelHonest
    BY DEF CancelHonest, ConnectInv, ConnectDomains, JobFollows, OutcomeFollows
  <2>2. ConnectTypeOK
    BY DEF ConnectTypeOK, ConnectInv, ConnectDomains
  <2>3. ASSUME NEW a \in Attempts, stream[a] = "open"
        PROVE  /\ permit[a] # {} /\ lease[a] # {}
               /\ \/ worker[a] \in {"connected", "ended", "settling", "publishing"}
                  \/ at[a] = "slot" /\ handle[a] = "Running"
                  \/ at[a] = "caller"
    <3>1. ConnectDomains /\ JobFollows(a) /\ OutcomeFollows(a)
      BY Zenon, <2>3 DEF ConnectInv
    <3>2. CASE worker[a] \in {"None", "queued", "calling", "connected"}
      BY ZenonT(40), <2>3, <3>1, <3>2 DEF JobFollows
    <3>3. CASE worker[a] \in {"ended", "settling", "publishing", "done"}
      BY <2>3, <3>1, <3>3 DEF ConnectDomains, JobFollows, OutcomeFollows
    <3> QED
      BY <2>3, <3>1, <3>2, <3>3 DEF ConnectDomains
  <2> QED
    BY <2>1, <2>2, <2>3 DEF ConnectHonest, OpenStreamsCharged, ConnectInv
<1> QED
  BY <1>1, <1>2, <1>3, PTL DEF ConnectSpec

\* "A provider may return after cancellation or expiry": Check publishes no connection for an
\* attempt that cancel() or drop has been called for.
THEOREM NoLateConnectionTheorem ==
  ASSUME ConnectAssumption
  PROVE  ConnectSpec => NoLateConnection
<1>1. ConnectInit => ConnectInv
  BY ConnectStart
<1>2. ConnectInv /\ [ConnectNext]_(connVars) => ConnectInv'
  BY ConnectStep
<1>3. ConnectInv /\ [ConnectNext]_(connVars)
        => [ConnectsOnlyLive]_(connVars)
  <2> SUFFICES ASSUME ConnectInv, NEW a \in Attempts,
                      WorkerStep(a) \/ CallerStep(a) \/ Expire(a),
                      NEW b \in cancelled, outcome'[b].result = "Connection"
               PROVE  outcome[b].result = "Connection"
    BY DEF ConnectNext, ConnectsOnlyLive
  <2>1. b \in Attempts /\ ConnectDomains
    BY Zenon DEF ConnectInv, ConnectDomains
  <2>2. CASE b # a
    BY Zenon, <2>1, <2>2, OthersUntouched
  <2>3. CASE b = a /\ Begin(a)
    BY <2>1, <2>3 DEF Begin, Ended, ConnectDomains
  <2>4. CASE b = a /\ ProviderFails(a)
    BY <2>1, <2>4 DEF ProviderFails, Ended, ConnectDomains
  <2>5. CASE b = a /\ Check(a)
    BY <2>1, <2>5 DEF Check, Ended, ConnectDomains
  <2>6. CASE outcome' = outcome
    BY <2>6
  <2> QED
    BY <2>2, <2>3, <2>4, <2>5, <2>6 DEF WorkerStep, CallerStep, ProviderConnects,
       DropGuard, Settle, Publish, Load, LeaseRefused,
       CompareExchange, StartFails, Start, Poll, Cancel,
       Drop, DropConnection, Expire
<1> QED
  BY <1>1, <1>2, <1>3, PTL DEF ConnectSpec, NoLateConnection

-----------------------------------------------------------------------------
(* DnsTcp. *)

\* Once the operation is cancelled, at most the call already prepared is made.
LEMMA QueryCall ==
  ASSUME Query!QueryTypes, Query!LastCall, Query!Call
  PROVE  cancelled' \in BOOLEAN /\ after' \in 0..1 /\ Query!LastCall'
<1>1. cancelled' = cancelled \/ cancelled' = TRUE
  BY Zenon DEF Query!Call
<1>2. cancelled' \in BOOLEAN
  BY <1>1, Zenon DEF Query!QueryTypes
<1>3. after = 0 /\ wait' = -1
  BY DEF Query!Call, Query!LastCall, Query!QueryTypes
<1>4. CASE cancelled
  <2>1. cancelled'
    BY Zenon, <1>1, <1>4
  <2>2. after' = 1
    BY <1>3, <1>4 DEF Query!Call
  <2> QED
    BY <1>2, <1>3, <2>1, <2>2 DEF Query!LastCall
<1>5. CASE ~cancelled
  <2>1. after' = 0
    BY <1>3, <1>5 DEF Query!Call
  <2> QED
    BY <1>2, <1>3, <2>1 DEF Query!LastCall
<1> QED
  BY <1>4, <1>5

\* The inductive step of QueryInv.
LEMMA QueryStep ==
  ASSUME Query!QueryAssumption, Query!QueryInv, [Query!DnsTcpNext]_(Query!tcpVars)
  PROVE  Query!QueryInv'
<1> USE DEF Query!QueryAssumption, Query!QueryInv, Query!QueryTypes, Query!Progress, Query!LastCall,
            Query!Charged, Query!QueryCharged, Query!Prefix, Query!Whole, Query!QueryBytesWritten,
            Query!Return, Query!Transferred, Query!Call, Query!Unfinished
<1>1. CASE Query!Connect
  BY <1>1 DEF Query!Connect
<1>2. CASE Query!NextWait
  BY <1>2 DEF Query!NextWait
<1>3. CASE Query!Write
  <2>1. cancelled' \in BOOLEAN /\ after' \in 0..1 /\ Query!LastCall'
    <3>1. Query!Call
      BY Zenon, <1>3 DEF Query!Write
    <3> HIDE DEF Query!Call, Query!LastCall, Query!QueryTypes
    <3> QED
      BY <3>1, QueryCall DEF Query!QueryInv
  <2>2. CASE taken' \in taken + 1 .. QueryLength /\ UNCHANGED <<phase, result>>
    BY <1>3, <2>1, <2>2 DEF Query!Write
  <2>3. CASE UNCHANGED <<taken, phase, result>>
    BY <1>3, <2>1, <2>3 DEF Query!Write
  <2>4. CASE Query!Return("write") /\ UNCHANGED taken
    BY <1>3, <2>1, <2>4 DEF Query!Write
  <2> QED
    BY <1>3, <2>2, <2>3, <2>4 DEF Query!Write
<1>4. CASE Query!Written
  BY <1>4 DEF Query!Written
<1>5. CASE Query!Flush
  <2>1. cancelled' \in BOOLEAN /\ after' \in 0..1 /\ Query!LastCall'
    <3>1. Query!Call
      BY Zenon, <1>5 DEF Query!Flush
    <3> HIDE DEF Query!Call, Query!LastCall, Query!QueryTypes
    <3> QED
      BY <3>1, QueryCall DEF Query!QueryInv
  <2>2. CASE phase' = "prefix" /\ UNCHANGED result
    BY <1>5, <2>1, <2>2 DEF Query!Flush
  <2>3. CASE UNCHANGED <<phase, result>>
    BY <1>5, <2>1, <2>3 DEF Query!Flush
  <2>4. CASE Query!Return("write")
    BY <1>5, <2>1, <2>4 DEF Query!Flush
  <2> QED
    BY <1>5, <2>2, <2>3, <2>4 DEF Query!Flush
<1>6. CASE Query!Read
  <2>1. cancelled' \in BOOLEAN /\ after' \in 0..1 /\ Query!LastCall'
    <3>1. Query!Call
      BY Zenon, <1>6 DEF Query!Read
    <3> HIDE DEF Query!Call, Query!LastCall, Query!QueryTypes
    <3> QED
      BY <3>1, QueryCall DEF Query!QueryInv
  <2>2. CASE \E count \in 1..Query!Whole - read :
               /\ read' = read + count /\ consumed' = consumed + count
               /\ UNCHANGED <<ended, phase, result>>
    <3>1. CASE phase = "prefix"
      BY <1>6, <2>1, <2>2, <3>1 DEF Query!Read
    <3>2. CASE phase = "message"
      BY <1>6, <2>1, <2>2, <3>2 DEF Query!Read
    <3> QED
      BY <1>6, <3>1, <3>2 DEF Query!Read
  <2>3. CASE ended' = TRUE /\ UNCHANGED <<read, consumed, phase, result>>
    BY <1>6, <2>1, <2>3 DEF Query!Read
  <2>4. CASE UNCHANGED <<read, consumed, ended, phase, result>>
    BY <1>6, <2>1, <2>4 DEF Query!Read
  <2>5. CASE Query!Return("read") /\ UNCHANGED <<read, consumed, ended>>
    BY <1>6, <2>1, <2>5 DEF Query!Read
  <2> QED
    BY Zenon, <1>6, <2>2, <2>3, <2>4, <2>5 DEF Query!Read
<1>7. CASE Query!ReadOver
  BY <1>7 DEF Query!ReadOver
<1>8. CASE Query!Tick
  BY <1>8 DEF Query!Tick
<1>9. CASE Query!Cancel
  BY <1>9 DEF Query!Cancel
<1>10. CASE UNCHANGED Query!tcpVars
  BY <1>10 DEF Query!tcpVars
<1> QED
  BY Zenon, <1>1, <1>2, <1>3, <1>4, <1>5, <1>6, <1>7, <1>8, <1>9, <1>10 DEF Query!DnsTcpNext, Query!Query

\* One DNS query over TCP: Error::query_bytes_written is what the socket took of the query, an
\* answer is exactly one whole frame within the limit, and a cancelled query makes at most one
\* more call of the socket.
THEOREM QueryTheorem ==
  ASSUME Query!QueryAssumption
  PROVE  Query!DnsTcpSpec => []Query!QueryCharged
<1>1. Query!DnsTcpInit => Query!QueryInv
  <2> SUFFICES ASSUME Query!DnsTcpInit PROVE Query!QueryInv
    OBVIOUS
  <2>1. cancelled \in BOOLEAN /\ ended \in BOOLEAN
    BY Zenon DEF Query!DnsTcpInit
  <2>2. Query!QueryTypes
    BY <2>1 DEF Query!DnsTcpInit, Query!QueryTypes, Query!QueryAssumption
  <2>3. Query!Progress
    BY DEF Query!DnsTcpInit, Query!Progress
  <2>4. Query!LastCall /\ Query!Charged
    BY DEF Query!DnsTcpInit, Query!LastCall, Query!Charged, Query!QueryCharged, Query!NoResult,
                Query!Prefix
  <2> QED
    BY <2>2, <2>3, <2>4 DEF Query!QueryInv
<1>2. Query!QueryInv /\ [Query!DnsTcpNext]_(Query!tcpVars) => Query!QueryInv'
  BY QueryStep
<1>3. Query!QueryInv => Query!QueryCharged
  BY DEF Query!QueryInv, Query!Charged
<1> QED
  BY <1>1, <1>2, <1>3, PTL DEF Query!DnsTcpSpec
=============================================================================
