---------------------------- MODULE ThreadProofs ----------------------------
(***************************************************************************)
(* Proofs about the threads of the native worker pool, for any number of   *)
(* jobs and network namespaces, any capacity and any bound on the workers  *)
(* ever started.                                                           *)
(***************************************************************************)
EXTENDS WorkerThreads, FiniteSetTheorems, TLAPS

\* What a step does to a worker it does not act upon: nothing, ...
Stays(w) ==
  /\ w \in idle' <=> w \in idle
  /\ w \in busy' <=> w \in busy
  /\ w \in retiring' <=> w \in retiring
  /\ reap'[w] = reap[w] /\ thread'[w] = thread[w] /\ context'[w] = context[w]

\* ... forgetting that it retired once it was joined, ...
Prunes(w) ==
  /\ w \in idle' <=> w \in idle
  /\ w \in busy' <=> w \in busy
  /\ w \in retiring' <=> w \in retiring /\ reap[w] # "complete"
  /\ reap'[w] = reap[w] /\ thread'[w] = thread[w] /\ context'[w] = context[w]

\* ... or that and retiring it when its thread ended.
Maintains(w) ==
  /\ w \in idle' <=> w \in idle
  /\ w \in busy' <=> w \in busy /\ ~is_finished(w)
  /\ w \in retiring' <=> (w \in retiring /\ reap[w] # "complete") \/ (w \in busy /\ is_finished(w))
  /\ reap'[w] = IF w \in busy /\ is_finished(w) THEN "queued" ELSE reap[w]
  /\ thread'[w] = thread[w] /\ context'[w] = context[w]

JobStays(k) == job'[k] = job[k] /\ caller'[k] = caller[k] /\ at'[k] = at[k]

Served(k) == job[k] \in {"queued", "running", "publishing"}

\* A worker the step acts upon keeps its namespace, and serves no job but those of J.
Reached(v, J) ==
  /\ WorkerFollows(v)'
  /\ thread[v] # "none" => thread'[v] # "none" /\ context'[v] = context[v]
  /\ \A k \in Jobs \ J : ~(Served(k) /\ at[k] = v)

\* A step that acts upon the workers V and the jobs J.
Advance(V, J) ==
  /\ next_worker' >= next_worker
  /\ \A w \in Workers \ V : Stays(w) \/ Prunes(w) \/ Maintains(w)
  /\ \A v \in V : Reached(v, J)
  /\ \A k \in Jobs \ J : JobStays(k)
  /\ \A j \in J : JobFollows(j)' /\ \A k \in Jobs : PairFollows(j, k)'

-----------------------------------------------------------------------------
LEMMA ServedIs == DOMAIN Serving = {"queued", "running", "publishing"}
BY DEF Serving

LEMMA WorkersFinite == ASSUME ThreadsAssumption PROVE IsFiniteSet(Workers) /\ 0 \notin Workers
<1>1. MaxWorkers \in Int /\ 1 \in Int
  BY DEF ThreadsAssumption, MaxWorkersAssumption
<1>2. IsFiniteSet(1 .. MaxWorkers)
  BY Zenon, <1>1, FS_Interval
<1> QED BY <1>1, <1>2 DEF Workers

\* Three sets without a common element.
LEMMA Disjoint ==
  ASSUME NEW A, NEW B, NEW C, IsFiniteSet(A), IsFiniteSet(B), IsFiniteSet(C),
         A \cap B = {}, (A \cup B) \cap C = {}
  PROVE  Cardinality(A \cup B \cup C) = Cardinality(A) + Cardinality(B) + Cardinality(C)
<1>1. Cardinality({}) = 0
  BY FS_EmptySet
<1>2. IsFiniteSet(A \cup B) /\ Cardinality(A \cup B) = Cardinality(A) + Cardinality(B) - 0
  BY <1>1, FS_Union
<1>3. Cardinality(A \cup B \cup C) = Cardinality(A \cup B) + Cardinality(C) - 0
  BY <1>1, <1>2, FS_Union
<1>4. Cardinality(A) \in Nat /\ Cardinality(B) \in Nat /\ Cardinality(C) \in Nat
  BY FS_CardinalityType
<1> QED BY <1>2, <1>3, <1>4

\* The channel of the reaper has room for every worker that holds a slot.
LEMMA TransferAll ==
  ASSUME ThreadsAssumption, NEW U \in SUBSET Workers, Cardinality(U) <= capacity,
         NEW S \in SUBSET U, InReap("queued") \subseteq U, S \cap InReap("queued") = {},
         reap' \in Transferred(S)
  PROVE  reap' = [w \in Workers |-> IF w \in S THEN "queued" ELSE reap[w]]
<1> DEFINE queued == InReap("queued")
           room == capacity - Cardinality(queued)
<1>1. IsFiniteSet(U) /\ IsFiniteSet(S) /\ IsFiniteSet(queued) /\ IsFiniteSet(S \cup queued)
  <2>1. S \in SUBSET Workers /\ queued \in SUBSET Workers /\ S \cup queued \in SUBSET Workers
    BY DEF InReap
  <2> QED BY Zenon, <2>1, WorkersFinite, FS_Subset
<1>2. /\ Cardinality(U) \in Nat /\ Cardinality(S) \in Nat /\ Cardinality(queued) \in Nat
      /\ Cardinality(S \cup queued) \in Nat /\ capacity \in Nat
  BY <1>1, FS_CardinalityType DEF ThreadsAssumption, ThreadCapacityAssumption
<1>3. Cardinality(S \cup queued) = Cardinality(S) + Cardinality(queued)
  <2>1. Cardinality({}) = 0
    BY FS_EmptySet
  <2>2. Cardinality(S \cup queued) = Cardinality(S) + Cardinality(queued) - 0
    BY Zenon, <1>1, <2>1, FS_Union
  <2> QED BY <1>2, <2>2
<1>4. Cardinality(S \cup queued) <= Cardinality(U)
  BY Zenon, <1>1, FS_Subset
<1>5. Cardinality(S) <= room
  BY <1>2, <1>3, <1>4
<1>6. PICK Q \in SUBSET S :
        /\ Cardinality(Q) = (IF Cardinality(S) <= room THEN Cardinality(S) ELSE room)
        /\ reap' = [w \in Workers |-> IF w \in Q THEN "queued" ELSE IF w \in S THEN "pending" ELSE reap[w]]
  BY Zenon DEF Transferred
<1>7. Q = S
  BY Zenon, <1>1, <1>5, <1>6, FS_Subset
<1> QED BY Zenon, <1>6, <1>7

\* Nothing is pending, so only workers whose thread ended are handed to the reaper.
LEMMA Finished ==
  ASSUME ThreadsAssumption, ThreadsInv
  PROVE  /\ InReap("pending") = {} /\ ToTransfer = FinishedWorkers
         /\ FinishedWorkers = {w \in busy : is_finished(w)}
         /\ InReap("queued") \subseteq retiring
         /\ FinishedWorkers \subseteq Used /\ InReap("queued") \subseteq Used
         /\ idle \cap retiring = {} /\ busy \cap retiring = {} /\ idle \cap busy = {}
         /\ Used \in SUBSET Workers /\ Cardinality(Used) <= capacity
<1>1. InReap("pending") = {} /\ InReap("queued") \subseteq retiring
  BY DEF ThreadsInv, WorkerFollows, InReap
<1>2. FinishedWorkers = {w \in busy : is_finished(w)}
  BY DEF ThreadsInv, ThreadsTypeOK, WorkerFollows, FinishedWorkers, is_finished
<1>3. idle \cap retiring = {} /\ busy \cap retiring = {} /\ idle \cap busy = {}
  BY DEF ThreadsInv, ThreadsTypeOK, WorkerFollows
<1>4. Used \in SUBSET Workers /\ Cardinality(Used) <= capacity
  BY DEF ThreadsInv, ThreadsTypeOK, Used
<1> QED BY <1>1, <1>2, <1>3, <1>4 DEF ToTransfer, Used

\* What maintain_workers leaves occupies no more slots than there were.
LEMMA RoomCounts ==
  ASSUME ThreadsAssumption, ThreadsInv
  PROVE  /\ MaintainedIdle \cup MaintainedBusy \cup MaintainedRetiring \subseteq Used
         /\ thread_count(MaintainedIdle, MaintainedBusy, MaintainedRetiring) =
              Cardinality(MaintainedIdle \cup MaintainedBusy \cup MaintainedRetiring)
<1>1. /\ idle \cap retiring = {} /\ busy \cap retiring = {} /\ idle \cap busy = {}
      /\ Used \in SUBSET Workers
  BY Finished
<1>2. /\ MaintainedIdle \in SUBSET Used /\ MaintainedBusy \in SUBSET Used
      /\ MaintainedRetiring \in SUBSET Used
      /\ MaintainedIdle \cap MaintainedBusy = {}
      /\ (MaintainedIdle \cup MaintainedBusy) \cap MaintainedRetiring = {}
  BY <1>1 DEF MaintainedIdle, MaintainedBusy, MaintainedRetiring, prune_retired, FinishedWorkers,
     Used
<1>3. IsFiniteSet(MaintainedIdle) /\ IsFiniteSet(MaintainedBusy) /\ IsFiniteSet(MaintainedRetiring)
  <2>1. IsFiniteSet(Used)
    BY Zenon, <1>1, WorkersFinite, FS_Subset
  <2> QED BY Zenon, <1>2, <2>1, FS_Subset
<1>4. Cardinality(MaintainedIdle \cup MaintainedBusy \cup MaintainedRetiring) =
        Cardinality(MaintainedIdle) + Cardinality(MaintainedBusy) + Cardinality(MaintainedRetiring)
  BY <1>2, <1>3, Disjoint
<1> QED BY <1>2, <1>4 DEF thread_count

-----------------------------------------------------------------------------
\* A worker the step does not act upon stays in order, and with it the job it serves.
LEMMA KeptFollows ==
  ASSUME NEW w \in Workers, WorkerFollows(w), next_worker' >= next_worker,
         next_worker \in Int, next_worker' \in Int, w \in Int,
         Stays(w) \/ Prunes(w) \/ Maintains(w)
  PROVE  /\ WorkerFollows(w)'
         /\ thread'[w] = thread[w] /\ context'[w] = context[w]
         /\ w \in busy /\ ~is_finished(w) => w \in busy'
<1>1. w >= next_worker' => w >= next_worker
  OBVIOUS
<1>2. CASE Stays(w)
  BY Zenon, <1>1, <1>2 DEF Stays, WorkerFollows, Used
<1>3. CASE Prunes(w)
  BY Zenon, <1>1, <1>3 DEF Prunes, WorkerFollows, Used
<1>4. CASE Maintains(w)
  <2>1. thread'[w] = thread[w] /\ context'[w] = context[w]
    BY Zenon, <1>4 DEF Maintains
  <2>2. w \in busy /\ ~is_finished(w) => w \in busy'
    BY Zenon, <1>4 DEF Maintains
  <2>3. CASE w \in busy /\ is_finished(w)
    BY Zenon, <1>1, <1>4, <2>3 DEF Maintains, WorkerFollows, Used, is_finished
  <2>4. CASE ~(w \in busy /\ is_finished(w))
    BY Zenon, <1>1, <1>4, <2>4 DEF Maintains, WorkerFollows, Used
  <2> QED BY Zenon, <2>1, <2>2, <2>3, <2>4
<1> QED BY Zenon, <1>2, <1>3, <1>4

LEMMA AdvanceKeeps ==
  ASSUME ThreadsAssumption, ThreadsInv, ThreadsTypeOK', NEW V \in SUBSET Workers, NEW J \in SUBSET Jobs,
         Advance(V, J)
  PROVE  /\ \A w \in Workers : WorkerFollows(w)'
         /\ \A j \in Jobs : JobFollows(j)'
         /\ \A j, k \in Jobs : PairFollows(j, k)'
<1>1. \A w \in Workers \ V : /\ WorkerFollows(w)'
                             /\ thread'[w] = thread[w] /\ context'[w] = context[w]
                             /\ w \in busy /\ ~is_finished(w) => w \in busy'
  <2> SUFFICES ASSUME NEW w \in Workers \ V
               PROVE  /\ WorkerFollows(w)'
                      /\ thread'[w] = thread[w] /\ context'[w] = context[w]
                      /\ w \in busy /\ ~is_finished(w) => w \in busy'
    BY Zenon
  <2>1. next_worker \in Int /\ next_worker' \in Int /\ w \in Int
    BY DEF ThreadsInv, ThreadsTypeOK, Workers
  <2>2. WorkerFollows(w) /\ next_worker' >= next_worker /\ (Stays(w) \/ Prunes(w) \/ Maintains(w))
    BY Zenon DEF ThreadsInv, Advance
  <2> QED BY Zenon, <2>1, <2>2, KeptFollows
<1>2. \A w \in Workers : WorkerFollows(w)'
  BY Zenon, <1>1 DEF Advance, Reached
<1>3. \A w \in Workers : thread[w] # "none" => thread'[w] # "none" /\ context'[w] = context[w]
  BY Zenon, <1>1 DEF Advance, Reached
<1>4. ASSUME NEW k \in Jobs \ J
      PROVE  /\ JobFollows(k)' /\ at'[k] = at[k] /\ job'[k] = job[k]
             /\ at[k] # NoWorker => context'[at[k]] = context[at[k]]
  <2>1. JobFollows(k) /\ JobStays(k)
    BY Zenon, <1>4 DEF ThreadsInv, Advance
  <2>2. at[k] # NoWorker => at[k] \in Workers
    BY <1>4 DEF ThreadsInv, ThreadsTypeOK
  <2>3. NoWorker \notin busy
    BY WorkersFinite DEF ThreadsInv, ThreadsTypeOK, NoWorker
  <2>4. at[k] # NoWorker => thread'[at[k]] # "none" /\ context'[at[k]] = context[at[k]]
    BY Zenon, <1>3, <2>1, <2>2 DEF JobFollows
  <2>5. ASSUME Served(k) PROVE at[k] \in busy' /\ thread'[at[k]] = Serving[job[k]]
    <3>1. at[k] \in busy /\ thread[at[k]] = Serving[job[k]] /\ at[k] \in Workers
      BY Zenon, <2>1, <2>2, <2>3, <2>5, ServedIs DEF JobFollows, Served
    <3>2. at[k] \notin V
      BY Zenon, <1>4, <2>5 DEF Advance, Reached
    <3>3. ~is_finished(at[k])
      BY <2>5, <3>1 DEF is_finished, Serving, Served
    <3> QED BY Zenon, <1>1, <3>1, <3>2, <3>3
  <2> QED BY Zenon, <2>1, <2>4, <2>5, ServedIs DEF JobFollows, JobStays, Served
<1>5. \A j \in Jobs : JobFollows(j)'
  BY Zenon, <1>4 DEF Advance
<1>6. \A j, k \in Jobs : PairFollows(j, k)'
  <2> SUFFICES ASSUME NEW j \in Jobs, NEW k \in Jobs PROVE PairFollows(j, k)'
    BY Zenon
  <2>1. CASE j \in J
    BY Zenon, <2>1 DEF Advance
  <2>2. CASE k \in J
    <3>1. PairFollows(k, j)'
      BY Zenon, <2>2 DEF Advance
    <3> QED BY Zenon, <3>1 DEF PairFollows
  <2>3. CASE j \notin J /\ k \notin J
    <3>1. PairFollows(j, k)
      BY Zenon DEF ThreadsInv
    <3> QED BY Zenon, <1>4, <2>3, <3>1 DEF PairFollows
  <2> QED BY Zenon, <2>1, <2>2, <2>3
<1> QED BY Zenon, <1>2, <1>5, <1>6

-----------------------------------------------------------------------------
\* The workers after a pass that handed the finished workers, and those of E, to the reaper.
LEMMA Handed ==
  ASSUME ThreadsAssumption, ThreadsInv, NEW E \in SUBSET idle, Retire(ToTransfer \cup E)
  PROVE  reap' = [w \in Workers |-> IF w \in FinishedWorkers \cup E THEN "queued" ELSE reap[w]]
<1>1. /\ ToTransfer = FinishedWorkers /\ InReap("queued") \subseteq retiring
      /\ FinishedWorkers \subseteq busy
      /\ idle \cap retiring = {} /\ busy \cap retiring = {}
      /\ Used \in SUBSET Workers /\ Cardinality(Used) <= capacity
  BY Finished
<1>2. /\ FinishedWorkers \cup E \in SUBSET Used /\ InReap("queued") \subseteq Used
      /\ (FinishedWorkers \cup E) \cap InReap("queued") = {}
  BY <1>1 DEF Used
<1>3. reap' \in Transferred(FinishedWorkers \cup E)
  BY Zenon, <1>1 DEF Retire
<1> QED BY Zenon, <1>1, <1>2, <1>3, TransferAll

LEMMA HandedOnly ==
  ASSUME ThreadsAssumption, ThreadsInv, Retire(ToTransfer)
  PROVE  reap' = [w \in Workers |-> IF w \in FinishedWorkers THEN "queued" ELSE reap[w]]
<1>1. ToTransfer \cup {} = ToTransfer /\ FinishedWorkers \cup {} = FinishedWorkers /\ {} \in SUBSET idle
  OBVIOUS
<1> QED BY Zenon, <1>1, Handed

\* What a pass with maintenance does to the workers outside V.
LEMMA PassMaintains ==
  ASSUME ThreadsAssumption, ThreadsInv, NEW E \in SUBSET idle, NEW w \in Workers, w \notin E,
         reap' = [x \in Workers |-> IF x \in FinishedWorkers \cup E THEN "queued" ELSE reap[x]],
         w \in idle' <=> w \in MaintainedIdle,
         w \in busy' <=> w \in MaintainedBusy,
         w \in retiring' <=> w \in MaintainedRetiring,
         thread'[w] = thread[w], context'[w] = context[w]
  PROVE  Maintains(w)
<1>1. FinishedWorkers = {x \in busy : is_finished(x)} /\ idle \cap busy = {}
  BY Finished
<1>2. w \in idle => w \notin busy
  BY <1>1
<1>3. w \in FinishedWorkers <=> w \in busy /\ is_finished(w)
  BY Zenon, <1>1
<1>4. reap'[w] = IF w \in busy /\ is_finished(w) THEN "queued" ELSE reap[w]
  BY Zenon, <1>3
<1>5. w \in retiring' <=> (w \in retiring /\ reap[w] # "complete") \/ (w \in busy /\ is_finished(w))
  BY Zenon, <1>3 DEF MaintainedRetiring, prune_retired, InReap
<1>6. (w \in idle' <=> w \in idle) /\ (w \in busy' <=> w \in busy /\ ~is_finished(w))
  BY Zenon, <1>2, <1>3 DEF MaintainedIdle, MaintainedBusy
<1> QED BY Zenon, <1>4, <1>5, <1>6 DEF Maintains

\* A job that is sent back has no worker.
LEMMA JobReturned ==
  ASSUME ThreadsInv, NEW j \in Jobs, job[j] = "dispatching", ReturnJob(j)
  PROVE  /\ \A k \in Jobs \ {j} : JobStays(k)
         /\ \A i \in {j} : JobFollows(i)' /\ \A k \in Jobs : PairFollows(i, k)'
<1>1. at[j] = NoWorker /\ at' = at /\ job'[j] = "refused"
  BY Zenon DEF ReturnJob, ThreadsInv, JobFollows, ThreadsTypeOK
<1>2. \A k \in Jobs \ {j} : JobStays(k)
  BY Zenon DEF ReturnJob, JobStays, ThreadsInv, ThreadsTypeOK
<1>3. JobFollows(j)'
  BY <1>1 DEF JobFollows, Serving
<1>4. \A k \in Jobs : PairFollows(j, k)'
  BY Zenon, <1>1 DEF PairFollows
<1> QED BY Zenon, <1>2, <1>3, <1>4

\* A served job is with a busy worker whose thread is at the matching step.
LEMMA ServedBusy ==
  ASSUME ThreadsInv
  PROVE  \A k \in Jobs : Served(k) =>
           /\ at[k] \in busy
           /\ thread[at[k]] = IF job[k] = "queued" THEN "recv" ELSE IF job[k] = "running" THEN "run" ELSE "publish"
BY ServedIs DEF ThreadsInv, JobFollows, Served, Serving


LEMMA DispatchAdvances ==
  ASSUME ThreadsAssumption, ThreadsInv, NEW j \in Jobs, NEW c \in Namespaces, Dispatch(j, c)
  PROVE  Advance({}, {j})
<1>t. ThreadsTypeOK
  BY Zenon DEF ThreadsInv
<1>n. next_worker' >= next_worker
  BY <1>t DEF Dispatch, ThreadsTypeOK
<1>w. \A w \in Workers : Stays(w)
  BY Zenon, <1>t DEF Dispatch, Stays, ThreadsTypeOK
<1>1. at[j] = NoWorker /\ at' = at /\ job'[j] = "dispatching"
  BY Zenon, <1>t DEF Dispatch, ThreadsInv, JobFollows, ThreadsTypeOK
<1>2. \A k \in Jobs \ {j} : JobStays(k)
  BY Zenon, <1>t DEF Dispatch, JobStays, ThreadsTypeOK
<1>3. JobFollows(j)'
  BY <1>1 DEF JobFollows, Serving
<1>4. \A k \in Jobs : PairFollows(j, k)'
  BY Zenon, <1>1 DEF PairFollows
<1> QED BY Zenon, <1>n, <1>w, <1>2, <1>3, <1>4 DEF Advance

LEMMA DispatchExpiredAdvances ==
  ASSUME ThreadsAssumption, ThreadsInv, NEW j \in Jobs, DispatchExpired(j)
  PROVE  Advance({}, {j})
<1>t. ThreadsTypeOK
  BY Zenon DEF ThreadsInv
<1>n. next_worker' >= next_worker
  BY <1>t DEF DispatchExpired, ThreadsTypeOK
<1>w. \A w \in Workers : Stays(w)
  BY Zenon, <1>t DEF DispatchExpired, Stays, ThreadsTypeOK
<1>1. job[j] = "dispatching" /\ ReturnJob(j)
  BY Zenon DEF DispatchExpired
<1> QED BY Zenon, <1>n, <1>w, <1>1, JobReturned DEF Advance

LEMMA DispatchUnmaintainedAdvances ==
  ASSUME ThreadsAssumption, ThreadsInv, NEW j \in Jobs, DispatchUnmaintained(j)
  PROVE  Advance({}, {j})
<1>t. ThreadsTypeOK
  BY Zenon DEF ThreadsInv
<1>n. next_worker' >= next_worker
  BY <1>t DEF DispatchUnmaintained, ThreadsTypeOK
<1>w. \A w \in Workers : Prunes(w)
  BY Zenon DEF DispatchUnmaintained, Prunes, prune_retired, InReap
<1>1. job[j] = "dispatching" /\ ReturnJob(j)
  BY Zenon DEF DispatchUnmaintained
<1> QED BY Zenon, <1>n, <1>w, <1>1, JobReturned DEF Advance

LEMMA DispatchNoReaperAdvances ==
  ASSUME ThreadsAssumption, ThreadsInv, NEW j \in Jobs, DispatchNoReaper(j)
  PROVE  Advance({}, {j})
<1>t. ThreadsTypeOK
  BY Zenon DEF ThreadsInv
<1>n. next_worker' >= next_worker
  BY <1>t DEF DispatchNoReaper, ThreadsTypeOK
<1>w. \A w \in Workers : Prunes(w)
  BY Zenon DEF DispatchNoReaper, Prunes, prune_retired, InReap
<1>1. job[j] = "dispatching" /\ ReturnJob(j)
  BY Zenon DEF DispatchNoReaper
<1> QED BY Zenon, <1>n, <1>w, <1>1, JobReturned DEF Advance

LEMMA DispatchSpawnFailedAdvances ==
  ASSUME ThreadsAssumption, ThreadsInv, NEW j \in Jobs, DispatchSpawnFailed(j)
  PROVE  Advance({}, {j})
<1>t. ThreadsTypeOK
  BY Zenon DEF ThreadsInv
<1>n. next_worker' >= next_worker
  BY <1>t DEF DispatchSpawnFailed, ThreadsTypeOK
<1>r. reap' = [w \in Workers |-> IF w \in FinishedWorkers THEN "queued" ELSE reap[w]]
  BY Zenon, HandedOnly DEF DispatchSpawnFailed
<1>e. /\ {} \in SUBSET idle
      /\ reap' = [w \in Workers |-> IF w \in FinishedWorkers \cup {} THEN "queued" ELSE reap[w]]
  BY Zenon, <1>r
<1>w. \A w \in Workers : Maintains(w)
  BY Zenon, <1>e, PassMaintains DEF DispatchSpawnFailed
<1>1. job[j] = "dispatching" /\ ReturnJob(j)
  BY Zenon DEF DispatchSpawnFailed
<1> QED BY Zenon, <1>n, <1>w, <1>1, JobReturned DEF Advance

LEMMA DispatchWaitAdvances ==
  ASSUME ThreadsAssumption, ThreadsInv, NEW j \in Jobs, DispatchWait(j)
  PROVE  Advance({}, {})
<1>t. ThreadsTypeOK
  BY Zenon DEF ThreadsInv
<1>n. next_worker' >= next_worker
  BY <1>t DEF DispatchWait, ThreadsTypeOK
<1>r. reap' = [w \in Workers |-> IF w \in FinishedWorkers THEN "queued" ELSE reap[w]]
  BY Zenon, HandedOnly DEF DispatchWait
<1>e. /\ {} \in SUBSET idle
      /\ reap' = [w \in Workers |-> IF w \in FinishedWorkers \cup {} THEN "queued" ELSE reap[w]]
  BY Zenon, <1>r
<1>w. \A w \in Workers : Maintains(w)
  BY Zenon, <1>e, PassMaintains DEF DispatchWait
<1>j. \A k \in Jobs : JobStays(k)
  BY Zenon DEF DispatchWait, JobStays
<1> QED BY Zenon, <1>n, <1>w, <1>j DEF Advance

LEMMA DispatchReuseAdvances ==
  ASSUME ThreadsAssumption, ThreadsInv, NEW j \in Jobs, DispatchReuse(j)
  PROVE  \E v \in Workers : Advance({v}, {j})
<1>t. ThreadsTypeOK
  BY Zenon DEF ThreadsInv
<1>n. next_worker' >= next_worker
  BY <1>t DEF DispatchReuse, ThreadsTypeOK
<1>r. reap' = [w \in Workers |-> IF w \in FinishedWorkers THEN "queued" ELSE reap[w]]
  BY Zenon, HandedOnly DEF DispatchReuse
<1>e. /\ {} \in SUBSET idle
      /\ reap' = [w \in Workers |-> IF w \in FinishedWorkers \cup {} THEN "queued" ELSE reap[w]]
  BY Zenon, <1>r
<1>1. PICK v \in Reusable(j) :
        /\ SendTo(j, v)
        /\ idle' = MaintainedIdle \ {v}
        /\ busy' = MaintainedBusy \cup {v}
  BY Zenon DEF DispatchReuse
<1>2. /\ retiring' = MaintainedRetiring /\ thread' = thread /\ context' = context
      /\ next_worker' = next_worker
      /\ job[j] = "dispatching"
  BY Zenon DEF DispatchReuse
<1>3. v \in idle /\ v \in Workers /\ v \notin FinishedWorkers /\ context[v] = caller[j] /\ caller[j] # NoContext
  BY Zenon, <1>t DEF Reusable, MaintainedIdle, ThreadsTypeOK
<1>4. v \notin busy /\ v \notin retiring /\ thread[v] = "recv"
  BY Zenon, <1>3 DEF ThreadsInv, WorkerFollows
<1>5. /\ v \notin idle' /\ v \in busy' /\ v \notin retiring'
      /\ reap'[v] = reap[v] /\ thread'[v] = "recv" /\ context'[v] = context[v]
  BY Zenon, <1>r, <1>1, <1>2, <1>3, <1>4 DEF MaintainedRetiring, prune_retired
<1>6. WorkerFollows(v)'
  <2>1. WorkerFollows(v)
    BY Zenon, <1>3 DEF ThreadsInv
  <2> QED BY Zenon, <2>1, <1>2, <1>3, <1>4, <1>5 DEF WorkerFollows, Used
<1>7. \A k \in Jobs : ~(Served(k) /\ at[k] = v)
  BY Zenon, <1>4, ServedBusy
<1>8. Reached(v, {j})
  BY Zenon, <1>4, <1>5, <1>6, <1>7 DEF Reached
<1>9. \A w \in Workers \ {v} : Maintains(w)
  <2> SUFFICES ASSUME NEW w \in Workers \ {v} PROVE Maintains(w)
    BY Zenon
  <2>1. /\ w \in idle' <=> w \in MaintainedIdle
        /\ w \in busy' <=> w \in MaintainedBusy
        /\ w \in retiring' <=> w \in MaintainedRetiring
    BY Zenon, <1>1, <1>2
  <2> QED BY Zenon, <1>e, <1>2, <2>1, PassMaintains
<1>10. /\ job'[j] = "queued" /\ at'[j] = v /\ caller'[j] = caller[j]
       /\ \A k \in Jobs \ {j} : JobStays(k)
  BY Zenon, <1>1, <1>t DEF SendTo, JobStays, ThreadsTypeOK
<1>11. JobFollows(j)'
  BY <1>3, <1>5, <1>10 DEF JobFollows, Serving
<1>12. \A k \in Jobs : PairFollows(j, k)'
  <2>1. context'[v] # NoContext
    BY Zenon, <1>3, <1>5
  <2>2. \A k \in Jobs \ {j} : at'[k] = v => job'[k] \notin DOMAIN Serving
    BY Zenon, <1>7, <1>10, ServedIs DEF JobStays, Served
  <2> QED BY Zenon, <1>10, <2>1, <2>2 DEF PairFollows
<1>13. Advance({v}, {j})
  BY Zenon, <1>n, <1>8, <1>9, <1>10, <1>11, <1>12 DEF Advance
<1> QED BY Zenon, <1>3, <1>13

LEMMA DispatchSpawnAdvances ==
  ASSUME ThreadsAssumption, ThreadsInv, NEW j \in Jobs, DispatchSpawn(j)
  PROVE  \E v \in Workers : Advance({v}, {j})
<1>t. ThreadsTypeOK
  BY Zenon DEF ThreadsInv
<1>p. PICK v \in Workers : v = next_worker
  BY <1>t DEF DispatchSpawn, ThreadsTypeOK, Workers, ThreadsAssumption, MaxWorkersAssumption
<1>n. next_worker' >= next_worker /\ v \in Int /\ ~(v >= v + 1) /\ v >= next_worker
  BY <1>t, <1>p DEF DispatchSpawn, ThreadsTypeOK, Workers, ThreadsAssumption, MaxWorkersAssumption
<1>r. reap' = [w \in Workers |-> IF w \in FinishedWorkers THEN "queued" ELSE reap[w]]
  BY Zenon, HandedOnly DEF DispatchSpawn
<1>e. /\ {} \in SUBSET idle
      /\ reap' = [w \in Workers |-> IF w \in FinishedWorkers \cup {} THEN "queued" ELSE reap[w]]
  BY Zenon, <1>r
<1>1. /\ SendTo(j, v)
      /\ idle' = MaintainedIdle
      /\ busy' = MaintainedBusy \cup {v}
      /\ retiring' = MaintainedRetiring
      /\ thread' = [thread EXCEPT ![v] = "recv"]
      /\ context' = [context EXCEPT ![v] = caller[j]]
      /\ next_worker' = v + 1
  BY Zenon, <1>p DEF DispatchSpawn
<1>2. thread[v] = "none" /\ v \notin idle /\ v \notin busy /\ v \notin retiring /\ reap[v] \notin {"pending", "queued", "joining", "complete"}
  <2>1. WorkerFollows(v)
    BY Zenon, <1>n DEF ThreadsInv
  <2>3. thread[v] = "none"
    BY Zenon, <1>n, <2>1 DEF WorkerFollows
  <2>4. thread[v] # "exited"
    BY <2>3
  <2> QED BY Zenon, <2>1, <2>3, <2>4 DEF WorkerFollows, Used
<1>3. /\ v \notin idle' /\ v \in busy' /\ v \notin retiring'
      /\ reap'[v] = reap[v] /\ thread'[v] = "recv" /\ context'[v] = caller[j]
  BY Zenon, <1>n, <1>r, <1>1, <1>2, <1>t DEF MaintainedIdle, MaintainedRetiring, prune_retired,
     FinishedWorkers, ThreadsTypeOK
<1>4. WorkerFollows(v)'
  <2>1. ~(v >= next_worker')
    BY <1>1, <1>n
  <2> QED BY Zenon, <1>2, <1>3, <2>1 DEF WorkerFollows, Used
<1>5. \A k \in Jobs : at[k] # v
  <2>1. v # NoWorker
    BY <1>n, WorkersFinite DEF NoWorker
  <2> QED BY Zenon, <1>2, <2>1 DEF ThreadsInv, JobFollows
<1>6. Reached(v, {j})
  BY Zenon, <1>2, <1>4, <1>5 DEF Reached
<1>7. \A w \in Workers \ {v} : Maintains(w)
  <2> SUFFICES ASSUME NEW w \in Workers \ {v} PROVE Maintains(w)
    BY Zenon
  <2>1. /\ w \in idle' <=> w \in MaintainedIdle
        /\ w \in busy' <=> w \in MaintainedBusy
        /\ w \in retiring' <=> w \in MaintainedRetiring
        /\ thread'[w] = thread[w] /\ context'[w] = context[w]
    BY Zenon, <1>1, <1>t DEF ThreadsTypeOK
  <2> QED BY Zenon, <1>e, <2>1, PassMaintains
<1>8. /\ job'[j] = "queued" /\ at'[j] = v /\ caller'[j] = caller[j]
      /\ \A k \in Jobs \ {j} : JobStays(k)
  BY Zenon, <1>1, <1>t DEF SendTo, JobStays, ThreadsTypeOK
<1>9. JobFollows(j)'
  BY <1>3, <1>8 DEF JobFollows, Serving
<1>10. \A k \in Jobs : PairFollows(j, k)'
  BY Zenon, <1>5, <1>8 DEF PairFollows, JobStays
<1>11. Advance({v}, {j})
  BY Zenon, <1>n, <1>6, <1>7, <1>8, <1>9, <1>10 DEF Advance
<1> QED BY Zenon, <1>11

LEMMA DispatchRetireIdleAdvances ==
  ASSUME ThreadsAssumption, ThreadsInv, NEW j \in Jobs, DispatchRetireIdle(j)
  PROVE  \E v \in Workers : Advance({v}, {})
<1>t. ThreadsTypeOK
  BY Zenon DEF ThreadsInv
<1>n. next_worker' >= next_worker
  BY <1>t DEF DispatchRetireIdle, ThreadsTypeOK
<1>1. PICK v \in MaintainedIdle :
        /\ Retire(ToTransfer \cup {v})
        /\ idle' = MaintainedIdle \ {v}
        /\ retiring' = MaintainedRetiring \cup {v}
  BY Zenon DEF DispatchRetireIdle
<1>2. /\ busy' = MaintainedBusy /\ thread' = thread /\ context' = context
      /\ next_worker' = next_worker
      /\ job' = job /\ caller' = caller /\ at' = at
  BY Zenon DEF DispatchRetireIdle
<1>3. v \in idle /\ v \in Workers /\ {v} \in SUBSET idle
  BY Zenon, <1>t DEF MaintainedIdle, ThreadsTypeOK
<1>4. v \notin busy /\ v \notin retiring /\ thread[v] = "recv"
  BY Zenon, <1>3 DEF ThreadsInv, WorkerFollows
<1>r. reap' = [w \in Workers |-> IF w \in FinishedWorkers \cup {v} THEN "queued" ELSE reap[w]]
  BY Zenon, <1>1, <1>3, Handed
<1>5. /\ v \notin idle' /\ v \notin busy' /\ v \in retiring'
      /\ reap'[v] = "queued" /\ thread'[v] = "recv" /\ context'[v] = context[v]
  BY Zenon, <1>r, <1>1, <1>2, <1>3, <1>4 DEF MaintainedBusy
<1>6. WorkerFollows(v)'
  <2>1. WorkerFollows(v)
    BY Zenon, <1>3 DEF ThreadsInv
  <2> QED BY Zenon, <2>1, <1>2, <1>4, <1>5 DEF WorkerFollows, Used
<1>7. \A k \in Jobs : ~(Served(k) /\ at[k] = v)
  BY Zenon, <1>4, ServedBusy
<1>8. Reached(v, {})
  BY Zenon, <1>4, <1>5, <1>6, <1>7 DEF Reached
<1>9. \A w \in Workers \ {v} : Maintains(w)
  <2> SUFFICES ASSUME NEW w \in Workers \ {v} PROVE Maintains(w)
    BY Zenon
  <2>1. /\ w \in idle' <=> w \in MaintainedIdle
        /\ w \in busy' <=> w \in MaintainedBusy
        /\ w \in retiring' <=> w \in MaintainedRetiring
    BY Zenon, <1>1, <1>2
  <2> QED BY Zenon, <1>r, <1>2, <1>3, <2>1, PassMaintains
<1>10. \A k \in Jobs : JobStays(k)
  BY Zenon, <1>2 DEF JobStays
<1>11. Advance({v}, {})
  BY Zenon, <1>n, <1>8, <1>9, <1>10 DEF Advance
<1> QED BY Zenon, <1>3, <1>11

LEMMA RecvAdvances ==
  ASSUME ThreadsAssumption, ThreadsInv, NEW v \in Workers, NEW j \in Jobs, Recv(v, j)
  PROVE  Advance({v}, {j})
<1>t. ThreadsTypeOK
  BY Zenon DEF ThreadsInv
<1>n. next_worker' >= next_worker
  BY <1>t DEF Recv, ThreadsTypeOK
<1>w. \A w \in Workers \ {v} : Stays(w)
  BY Zenon, <1>t DEF Recv, Stays, ThreadsTypeOK
<1>1. /\ thread[v] = "recv" /\ job[j] = "queued" /\ at[j] = v
      /\ thread'[v] = "run" /\ job'[j] = "running"
      /\ idle' = idle /\ busy' = busy /\ retiring' = retiring /\ reap' = reap
      /\ context' = context
      /\ caller' = caller /\ at' = at /\ next_worker' = next_worker
  BY Zenon, <1>t DEF Recv, Inbox, ThreadsTypeOK
<1>2. v \in busy /\ WorkerFollows(v) /\ JobFollows(j) /\ (\A k \in Jobs : PairFollows(j, k)) /\ Served(j)
  BY Zenon, <1>1, ServedBusy DEF ThreadsInv, Served
<1>3. \A k \in Jobs \ {j} : ~(Served(k) /\ at[k] = v)
  <2>1. NoWorker \notin Workers
    BY WorkersFinite DEF NoWorker
  <2> QED BY Zenon, <1>1, <1>2, <2>1, ServedIs DEF PairFollows, Served
<1>4. WorkerFollows(v)'
  BY Zenon, <1>1, <1>2 DEF WorkerFollows, Used
<1>5. Reached(v, {j})
  BY Zenon, <1>1, <1>3, <1>4 DEF Reached
<1>6. \A k \in Jobs \ {j} : JobStays(k)
  BY Zenon, <1>t DEF Recv, JobStays, ThreadsTypeOK
<1>7. JobFollows(j)'
  BY <1>1, <1>2 DEF JobFollows, Serving
<1>8. \A k \in Jobs : PairFollows(j, k)'
  BY Zenon, <1>1, <1>2, <1>3, <1>6, ServedIs DEF PairFollows, JobStays, Served
<1> QED BY Zenon, <1>n, <1>w, <1>5, <1>6, <1>7, <1>8 DEF Advance

LEMMA FinishRunAdvances ==
  ASSUME ThreadsAssumption, ThreadsInv, NEW v \in Workers, NEW j \in Jobs, FinishRun(v, j)
  PROVE  Advance({v}, {j})
<1>t. ThreadsTypeOK
  BY Zenon DEF ThreadsInv
<1>n. next_worker' >= next_worker
  BY <1>t DEF FinishRun, ThreadsTypeOK
<1>w. \A w \in Workers \ {v} : Stays(w)
  BY Zenon, <1>t DEF FinishRun, Stays, ThreadsTypeOK
<1>1. /\ thread[v] = "run" /\ job[j] = "running" /\ at[j] = v
      /\ thread'[v] = "publish" /\ job'[j] = "publishing"
      /\ idle' = idle /\ busy' = busy /\ retiring' = retiring /\ reap' = reap
      /\ context' = context
      /\ caller' = caller /\ at' = at /\ next_worker' = next_worker
  BY Zenon, <1>t DEF FinishRun, ThreadsTypeOK
<1>2. v \in busy /\ WorkerFollows(v) /\ JobFollows(j) /\ (\A k \in Jobs : PairFollows(j, k)) /\ Served(j)
  BY Zenon, <1>1, ServedBusy DEF ThreadsInv, Served
<1>3. \A k \in Jobs \ {j} : ~(Served(k) /\ at[k] = v)
  <2>1. NoWorker \notin Workers
    BY WorkersFinite DEF NoWorker
  <2> QED BY Zenon, <1>1, <1>2, <2>1, ServedIs DEF PairFollows, Served
<1>4. WorkerFollows(v)'
  BY Zenon, <1>1, <1>2 DEF WorkerFollows, Used
<1>5. Reached(v, {j})
  BY Zenon, <1>1, <1>3, <1>4 DEF Reached
<1>6. \A k \in Jobs \ {j} : JobStays(k)
  BY Zenon, <1>t DEF FinishRun, JobStays, ThreadsTypeOK
<1>7. JobFollows(j)'
  BY <1>1, <1>2 DEF JobFollows, Serving
<1>8. \A k \in Jobs : PairFollows(j, k)'
  BY Zenon, <1>1, <1>2, <1>3, <1>6, ServedIs DEF PairFollows, JobStays, Served
<1> QED BY Zenon, <1>n, <1>w, <1>5, <1>6, <1>7, <1>8 DEF Advance

LEMMA PublishAdvances ==
  ASSUME ThreadsAssumption, ThreadsInv, NEW v \in Workers, NEW j \in Jobs, Publish(v, j)
  PROVE  Advance({v}, {j})
<1>t. ThreadsTypeOK
  BY Zenon DEF ThreadsInv
<1>n. next_worker' >= next_worker
  BY <1>t DEF Publish, ThreadsTypeOK
<1>w. \A w \in Workers \ {v} : Stays(w)
  BY Zenon, <1>t DEF Publish, Stays, ThreadsTypeOK
<1>1. /\ thread[v] = "publish" /\ job[j] = "publishing" /\ at[j] = v
      /\ thread'[v] = "recycle" /\ job'[j] = "done"
      /\ idle' = idle /\ busy' = busy /\ retiring' = retiring /\ reap' = reap
      /\ context' = context
      /\ caller' = caller /\ at' = at /\ next_worker' = next_worker
  BY Zenon, <1>t DEF Publish, ThreadsTypeOK
<1>2. v \in busy /\ WorkerFollows(v) /\ JobFollows(j) /\ (\A k \in Jobs : PairFollows(j, k)) /\ Served(j)
  BY Zenon, <1>1, ServedBusy DEF ThreadsInv, Served
<1>3. \A k \in Jobs \ {j} : ~(Served(k) /\ at[k] = v)
  <2>1. NoWorker \notin Workers
    BY WorkersFinite DEF NoWorker
  <2> QED BY Zenon, <1>1, <1>2, <2>1, ServedIs DEF PairFollows, Served
<1>4. WorkerFollows(v)'
  BY Zenon, <1>1, <1>2 DEF WorkerFollows, Used
<1>5. Reached(v, {j})
  BY Zenon, <1>1, <1>3, <1>4 DEF Reached
<1>6. \A k \in Jobs \ {j} : JobStays(k)
  BY Zenon, <1>t DEF Publish, JobStays, ThreadsTypeOK
<1>7. JobFollows(j)'
  BY <1>1, <1>2 DEF JobFollows, Serving
<1>8. \A k \in Jobs : PairFollows(j, k)'
  BY Zenon, <1>1, <1>2, <1>3, <1>6, ServedIs DEF PairFollows, JobStays, Served
<1> QED BY Zenon, <1>n, <1>w, <1>5, <1>6, <1>7, <1>8 DEF Advance

LEMMA PublishPanicsAdvances ==
  ASSUME ThreadsAssumption, ThreadsInv, NEW v \in Workers, NEW j \in Jobs, PublishPanics(v, j)
  PROVE  Advance({v}, {j})
<1>t. ThreadsTypeOK
  BY Zenon DEF ThreadsInv
<1>n. next_worker' >= next_worker
  BY <1>t DEF PublishPanics, ThreadsTypeOK
<1>w. \A w \in Workers \ {v} : Stays(w)
  BY Zenon, <1>t DEF PublishPanics, Stays, ThreadsTypeOK
<1>1. /\ thread[v] = "publish" /\ job[j] = "publishing" /\ at[j] = v
      /\ thread'[v] = "finished" /\ job'[j] = "done"
      /\ idle' = idle /\ busy' = busy /\ retiring' = retiring /\ reap' = reap
      /\ context' = context
      /\ caller' = caller /\ at' = at /\ next_worker' = next_worker
  BY Zenon, <1>t DEF PublishPanics, ThreadsTypeOK
<1>2. v \in busy /\ WorkerFollows(v) /\ JobFollows(j) /\ (\A k \in Jobs : PairFollows(j, k)) /\ Served(j)
  BY Zenon, <1>1, ServedBusy DEF ThreadsInv, Served
<1>3. \A k \in Jobs \ {j} : ~(Served(k) /\ at[k] = v)
  <2>1. NoWorker \notin Workers
    BY WorkersFinite DEF NoWorker
  <2> QED BY Zenon, <1>1, <1>2, <2>1, ServedIs DEF PairFollows, Served
<1>4. WorkerFollows(v)'
  BY Zenon, <1>1, <1>2 DEF WorkerFollows, Used
<1>5. Reached(v, {j})
  BY Zenon, <1>1, <1>3, <1>4 DEF Reached
<1>6. \A k \in Jobs \ {j} : JobStays(k)
  BY Zenon, <1>t DEF PublishPanics, JobStays, ThreadsTypeOK
<1>7. JobFollows(j)'
  BY <1>1, <1>2 DEF JobFollows, Serving
<1>8. \A k \in Jobs : PairFollows(j, k)'
  BY Zenon, <1>1, <1>2, <1>3, <1>6, ServedIs DEF PairFollows, JobStays, Served
<1> QED BY Zenon, <1>n, <1>w, <1>5, <1>6, <1>7, <1>8 DEF Advance

LEMMA RecvClosedAdvances ==
  ASSUME ThreadsAssumption, ThreadsInv, NEW v \in Workers, RecvClosed(v)
  PROVE  Advance({v}, {})
<1>t. ThreadsTypeOK
  BY Zenon DEF ThreadsInv
<1>n. next_worker' >= next_worker
  BY <1>t DEF RecvClosed, ThreadsTypeOK
<1>w. \A w \in Workers \ {v} : Stays(w)
  BY Zenon, <1>t DEF RecvClosed, Stays, ThreadsTypeOK
<1>1. /\ thread[v] = "recv" /\ v \notin idle /\ v \notin busy
      /\ thread'[v] = "finished" /\ reap'[v] = reap[v]
      /\ idle' = idle /\ busy' = busy /\ retiring' = retiring
      /\ context' = context /\ next_worker' = next_worker
  BY Zenon, <1>t DEF RecvClosed, ThreadsTypeOK
<1>2. WorkerFollows(v)
  BY Zenon DEF ThreadsInv
<1>3. \A k \in Jobs : ~(Served(k) /\ at[k] = v)
  BY <1>1, <1>2, ServedBusy DEF WorkerFollows, Served
<1>4. WorkerFollows(v)'
  BY Zenon, <1>1, <1>2 DEF WorkerFollows, Used
<1>5. Reached(v, {})
  BY Zenon, <1>1, <1>2, <1>3, <1>4 DEF Reached, WorkerFollows, Used
<1>j. \A k \in Jobs : JobStays(k)
  BY Zenon DEF RecvClosed, JobStays
<1> QED BY Zenon, <1>n, <1>w, <1>5, <1>j DEF Advance

LEMMA RecycleKeepAdvances ==
  ASSUME ThreadsAssumption, ThreadsInv, NEW v \in Workers, RecycleKeep(v)
  PROVE  Advance({v}, {})
<1>t. ThreadsTypeOK
  BY Zenon DEF ThreadsInv
<1>n. next_worker' >= next_worker
  BY <1>t DEF RecycleKeep, ThreadsTypeOK
<1>w. \A w \in Workers \ {v} : Stays(w)
  BY Zenon, <1>t DEF RecycleKeep, Stays, ThreadsTypeOK
<1>1. /\ thread[v] = "recycle" /\ v \in busy /\ context[v] # NoContext
      /\ thread'[v] = "recv" /\ reap'[v] = reap[v]
      /\ idle' = idle \cup {v} /\ busy' = busy \ {v} /\ retiring' = retiring
      /\ context' = context /\ next_worker' = next_worker
  BY Zenon, <1>t DEF RecycleKeep, ThreadsTypeOK
<1>2. WorkerFollows(v)
  BY Zenon DEF ThreadsInv
<1>3. \A k \in Jobs : ~(Served(k) /\ at[k] = v)
  BY <1>1, <1>2, ServedBusy DEF WorkerFollows, Served
<1>4. WorkerFollows(v)'
  BY Zenon, <1>1, <1>2 DEF WorkerFollows, Used
<1>5. Reached(v, {})
  BY Zenon, <1>1, <1>2, <1>3, <1>4 DEF Reached, WorkerFollows, Used
<1>j. \A k \in Jobs : JobStays(k)
  BY Zenon DEF RecycleKeep, JobStays
<1> QED BY Zenon, <1>n, <1>w, <1>5, <1>j DEF Advance

LEMMA RecycleRetireAdvances ==
  ASSUME ThreadsAssumption, ThreadsInv, NEW v \in Workers, RecycleRetire(v)
  PROVE  Advance({v}, {})
<1>t. ThreadsTypeOK
  BY Zenon DEF ThreadsInv
<1>n. next_worker' >= next_worker
  BY <1>t DEF RecycleRetire, ThreadsTypeOK
<1>r. reap' = [w \in Workers |-> IF w \in {v} THEN "queued" ELSE reap[w]]
  <2>1. /\ InReap("queued") \subseteq retiring /\ InReap("queued") \subseteq Used
        /\ busy \cap retiring = {}
        /\ Used \in SUBSET Workers /\ Cardinality(Used) <= capacity
    BY Finished
  <2>2. {v} \in SUBSET Used /\ {v} \cap InReap("queued") = {}
    BY <2>1 DEF RecycleRetire, Used
  <2>3. reap' \in Transferred({v})
    BY Zenon DEF RecycleRetire, Retire
  <2> QED BY Zenon, <2>1, <2>2, <2>3, TransferAll
<1>w. \A w \in Workers \ {v} : Stays(w)
  BY Zenon, <1>t, <1>r DEF RecycleRetire, Stays, ThreadsTypeOK
<1>1. /\ thread[v] = "recycle" /\ v \in busy
      /\ thread'[v] = "finished" /\ reap'[v] = "queued"
      /\ idle' = idle /\ busy' = busy \ {v} /\ retiring' = retiring \cup {v}
      /\ context' = context /\ next_worker' = next_worker
  BY Zenon, <1>t, <1>r DEF RecycleRetire, ThreadsTypeOK
<1>2. WorkerFollows(v)
  BY Zenon DEF ThreadsInv
<1>3. \A k \in Jobs : ~(Served(k) /\ at[k] = v)
  BY <1>1, <1>2, ServedBusy DEF WorkerFollows, Served
<1>4. WorkerFollows(v)'
  BY Zenon, <1>1, <1>2 DEF WorkerFollows, Used
<1>5. Reached(v, {})
  BY Zenon, <1>1, <1>2, <1>3, <1>4 DEF Reached, WorkerFollows, Used
<1>j. \A k \in Jobs : JobStays(k)
  BY Zenon DEF RecycleRetire, JobStays
<1> QED BY Zenon, <1>n, <1>w, <1>5, <1>j DEF Advance

LEMMA RecycleStrandedAdvances ==
  ASSUME ThreadsAssumption, ThreadsInv, NEW v \in Workers, RecycleStranded(v)
  PROVE  Advance({v}, {})
<1>t. ThreadsTypeOK
  BY Zenon DEF ThreadsInv
<1>n. next_worker' >= next_worker
  BY <1>t DEF RecycleStranded, ThreadsTypeOK
<1>w. \A w \in Workers \ {v} : Stays(w)
  BY Zenon, <1>t DEF RecycleStranded, Stays, ThreadsTypeOK
<1>1. /\ thread[v] = "recycle" /\ v \in busy
      /\ thread'[v] = "finished" /\ reap'[v] = reap[v]
      /\ idle' = idle /\ busy' = busy /\ retiring' = retiring
      /\ context' = context /\ next_worker' = next_worker
  BY Zenon, <1>t DEF RecycleStranded, ThreadsTypeOK
<1>2. WorkerFollows(v)
  BY Zenon DEF ThreadsInv
<1>3. \A k \in Jobs : ~(Served(k) /\ at[k] = v)
  BY <1>1, <1>2, ServedBusy DEF WorkerFollows, Served
<1>4. WorkerFollows(v)'
  BY Zenon, <1>1, <1>2 DEF WorkerFollows, Used
<1>5. Reached(v, {})
  BY Zenon, <1>1, <1>2, <1>3, <1>4 DEF Reached, WorkerFollows, Used
<1>j. \A k \in Jobs : JobStays(k)
  BY Zenon DEF RecycleStranded, JobStays
<1> QED BY Zenon, <1>n, <1>w, <1>5, <1>j DEF Advance

LEMMA ThreadExitAdvances ==
  ASSUME ThreadsAssumption, ThreadsInv, NEW v \in Workers, ThreadExit(v)
  PROVE  Advance({v}, {})
<1>t. ThreadsTypeOK
  BY Zenon DEF ThreadsInv
<1>n. next_worker' >= next_worker
  BY <1>t DEF ThreadExit, ThreadsTypeOK
<1>w. \A w \in Workers \ {v} : Stays(w)
  BY Zenon, <1>t DEF ThreadExit, Stays, ThreadsTypeOK
<1>1. /\ thread[v] = "finished"
      /\ thread'[v] = "exited" /\ reap'[v] = reap[v]
      /\ idle' = idle /\ busy' = busy /\ retiring' = retiring
      /\ context' = context /\ next_worker' = next_worker
  BY Zenon, <1>t DEF ThreadExit, ThreadsTypeOK
<1>2. WorkerFollows(v)
  BY Zenon DEF ThreadsInv
<1>3. \A k \in Jobs : ~(Served(k) /\ at[k] = v)
  BY <1>1, <1>2, ServedBusy DEF WorkerFollows, Served
<1>4. WorkerFollows(v)'
  BY Zenon, <1>1, <1>2 DEF WorkerFollows, Used
<1>5. Reached(v, {})
  BY Zenon, <1>1, <1>2, <1>3, <1>4 DEF Reached, WorkerFollows, Used
<1>j. \A k \in Jobs : JobStays(k)
  BY Zenon DEF ThreadExit, JobStays
<1> QED BY Zenon, <1>n, <1>w, <1>5, <1>j DEF Advance

LEMMA ReaperTakeAdvances ==
  ASSUME ThreadsAssumption, ThreadsInv, NEW v \in Workers, ReaperTake(v)
  PROVE  Advance({v}, {})
<1>t. ThreadsTypeOK
  BY Zenon DEF ThreadsInv
<1>n. next_worker' >= next_worker
  BY <1>t DEF ReaperTake, ThreadsTypeOK
<1>w. \A w \in Workers \ {v} : Stays(w)
  BY Zenon, <1>t DEF ReaperTake, Stays, ThreadsTypeOK
<1>1. /\ reap[v] = "queued"
      /\ thread'[v] = thread[v] /\ reap'[v] = "joining"
      /\ idle' = idle /\ busy' = busy /\ retiring' = retiring
      /\ context' = context /\ next_worker' = next_worker
  BY Zenon, <1>t DEF ReaperTake, ThreadsTypeOK
<1>2. WorkerFollows(v)
  BY Zenon DEF ThreadsInv
<1>3. \A k \in Jobs : ~(Served(k) /\ at[k] = v)
  BY <1>1, <1>2, ServedBusy DEF WorkerFollows, Served
<1>4. WorkerFollows(v)'
  BY Zenon, <1>1, <1>2 DEF WorkerFollows, Used
<1>5. Reached(v, {})
  BY Zenon, <1>1, <1>2, <1>3, <1>4 DEF Reached, WorkerFollows, Used
<1>j. \A k \in Jobs : JobStays(k)
  BY Zenon DEF ReaperTake, JobStays
<1> QED BY Zenon, <1>n, <1>w, <1>5, <1>j DEF Advance

LEMMA ReaperJoinedAdvances ==
  ASSUME ThreadsAssumption, ThreadsInv, NEW v \in Workers, ReaperJoined(v)
  PROVE  Advance({v}, {})
<1>t. ThreadsTypeOK
  BY Zenon DEF ThreadsInv
<1>n. next_worker' >= next_worker
  BY <1>t DEF ReaperJoined, ThreadsTypeOK
<1>w. \A w \in Workers \ {v} : Stays(w)
  BY Zenon, <1>t DEF ReaperJoined, Stays, ThreadsTypeOK
<1>1. /\ reap[v] = "joining" /\ thread[v] = "exited"
      /\ thread'[v] = thread[v] /\ reap'[v] = "complete"
      /\ idle' = idle /\ busy' = busy /\ retiring' = retiring
      /\ context' = context /\ next_worker' = next_worker
  BY Zenon, <1>t DEF ReaperJoined, ThreadsTypeOK
<1>2. WorkerFollows(v)
  BY Zenon DEF ThreadsInv
<1>3. \A k \in Jobs : ~(Served(k) /\ at[k] = v)
  BY <1>1, <1>2, ServedBusy DEF WorkerFollows, Served
<1>4. WorkerFollows(v)'
  BY Zenon, <1>1, <1>2 DEF WorkerFollows, Used
<1>5. Reached(v, {})
  BY Zenon, <1>1, <1>2, <1>3, <1>4 DEF Reached, WorkerFollows, Used
<1>j. \A k \in Jobs : JobStays(k)
  BY Zenon DEF ReaperJoined, JobStays
<1> QED BY Zenon, <1>n, <1>w, <1>5, <1>j DEF Advance
-----------------------------------------------------------------------------
LEMMA RetireTyped ==
  ASSUME ThreadsTypeOK, NEW S, Retire(S)
  PROVE  reap' \in [Workers -> ReapStates] /\ reaper' \in BOOLEAN
<1>1. PICK Q : reap' = [w \in Workers |-> IF w \in Q THEN "queued" ELSE IF w \in S THEN "pending" ELSE reap[w]]
  BY Zenon DEF Retire, Transferred
<1>2. \A w \in Workers : reap[w] \in ReapStates
  BY Zenon DEF ThreadsTypeOK
<1>3. "queued" \in ReapStates /\ "pending" \in ReapStates
  BY DEF ReapStates
<1> QED BY Zenon, <1>1, <1>2, <1>3 DEF Retire

\* The sets maintain_workers leaves are of workers.
LEMMA MaintainedTyped ==
  ASSUME ThreadsTypeOK
  PROVE  MaintainedIdle \subseteq Workers /\ MaintainedBusy \subseteq Workers /\ MaintainedRetiring \subseteq Workers
         /\ prune_retired \subseteq Workers
BY Zenon DEF ThreadsTypeOK, MaintainedIdle, MaintainedBusy, MaintainedRetiring, prune_retired,
   FinishedWorkers

LEMMA ThreadsTyped ==
  ASSUME ThreadsAssumption, ThreadsTypeOK, ThreadsNext
  PROVE  ThreadsTypeOK'
<1> DEFINE Places == Workers \cup {NoWorker}
<1>a. /\ "recv" \in ThreadStates /\ "run" \in ThreadStates /\ "publish" \in ThreadStates
      /\ "recycle" \in ThreadStates /\ "finished" \in ThreadStates /\ "exited" \in ThreadStates
      /\ "dispatching" \in JobStates /\ "refused" \in JobStates /\ "queued" \in JobStates
      /\ "running" \in JobStates /\ "publishing" \in JobStates /\ "done" \in JobStates
      /\ "joining" \in ReapStates /\ "complete" \in ReapStates
  BY DEF ThreadStates, JobStates, ReapStates
<1>b. /\ \A w \in Workers, x \in ThreadStates : [thread EXCEPT ![w] = x] \in [Workers -> ThreadStates]
      /\ \A w \in Workers, x \in ReapStates : [reap EXCEPT ![w] = x] \in [Workers -> ReapStates]
      /\ \A w \in Workers, x \in Namespaces : [context EXCEPT ![w] = x] \in [Workers -> Namespaces]
      /\ \A j \in Jobs, x \in JobStates : [job EXCEPT ![j] = x] \in [Jobs -> JobStates]
      /\ \A j \in Jobs, x \in Namespaces : [caller EXCEPT ![j] = x] \in [Jobs -> Namespaces]
      /\ \A j \in Jobs, x \in Places : [at EXCEPT ![j] = x] \in [Jobs -> Places]
  BY Zenon DEF ThreadsTypeOK
<1>c. /\ MaintainedIdle \subseteq Workers /\ MaintainedBusy \subseteq Workers
      /\ MaintainedRetiring \subseteq Workers /\ prune_retired \subseteq Workers
  BY Zenon, MaintainedTyped
<1>d. next_worker <= MaxWorkers => next_worker + 1 \in 1 .. (MaxWorkers + 1) /\ next_worker \in Workers
  BY DEF ThreadsTypeOK, Workers, ThreadsAssumption, MaxWorkersAssumption
<1> HIDE DEF Places
<1>1. ASSUME NEW j \in Jobs, NEW c \in Namespaces, Dispatch(j, c) PROVE ThreadsTypeOK'
  BY Zenon, <1>a, <1>b, <1>c, <1>1 DEF Dispatch, ThreadsTypeOK
<1>2. ASSUME NEW j \in Jobs, DispatchExpired(j) PROVE ThreadsTypeOK'
  BY Zenon, <1>a, <1>b, <1>c, <1>2 DEF DispatchExpired, ReturnJob, ThreadsTypeOK
<1>3. ASSUME NEW j \in Jobs, DispatchUnmaintained(j) PROVE ThreadsTypeOK'
  BY Zenon, <1>a, <1>b, <1>c, <1>3 DEF DispatchUnmaintained, ReturnJob, ThreadsTypeOK
<1>4. ASSUME NEW j \in Jobs, DispatchReuse(j) PROVE ThreadsTypeOK'
  <2>1. reap' \in [Workers -> ReapStates] /\ reaper' \in BOOLEAN
    BY Zenon, <1>4, RetireTyped DEF DispatchReuse
  <2>2. \A v \in Reusable(j) : v \in Workers /\ v \in Places
    BY Zenon, <1>c DEF Reusable, Places
  <2>3. PICK v \in Reusable(j) :
          /\ SendTo(j, v) /\ idle' = MaintainedIdle \ {v} /\ busy' = MaintainedBusy \cup {v}
    BY Zenon, <1>4 DEF DispatchReuse
  <2>4. /\ idle' \subseteq Workers /\ busy' \subseteq Workers /\ retiring' \subseteq Workers
        /\ next_worker' = next_worker /\ thread' = thread /\ context' = context
    BY Zenon, <1>c, <1>4, <2>2, <2>3 DEF DispatchReuse
  <2>5. /\ job' \in [Jobs -> JobStates] /\ at' \in [Jobs -> Places] /\ caller' = caller
    BY Zenon, <1>a, <1>b, <1>4, <2>2, <2>3 DEF SendTo
  <2> QED BY Zenon, <2>1, <2>4, <2>5 DEF ThreadsTypeOK, Places
<1>5. ASSUME NEW j \in Jobs, DispatchSpawn(j) PROVE ThreadsTypeOK'
  <2>1. reap' \in [Workers -> ReapStates] /\ reaper' \in BOOLEAN
    BY Zenon, <1>5, RetireTyped DEF DispatchSpawn
  <2>2. next_worker \in Workers /\ next_worker \in Places /\ caller[j] \in Namespaces
    BY Zenon, <1>5, <1>d DEF DispatchSpawn, Places, ThreadsTypeOK
  <2> QED BY Zenon, <1>a, <1>b, <1>c, <1>d, <1>5, <2>1, <2>2
             DEF DispatchSpawn, SendTo, ThreadsTypeOK, Places
<1>6. ASSUME NEW j \in Jobs, DispatchSpawnFailed(j) PROVE ThreadsTypeOK'
  <2>1. reap' \in [Workers -> ReapStates] /\ reaper' \in BOOLEAN
    BY Zenon, <1>6, RetireTyped DEF DispatchSpawnFailed
  <2> QED BY Zenon, <1>a, <1>b, <1>c, <1>d, <1>6, <2>1
             DEF DispatchSpawnFailed, ReturnJob, ThreadsTypeOK, Places
<1>7. ASSUME NEW j \in Jobs, DispatchRetireIdle(j) PROVE ThreadsTypeOK'
  <2>1. reap' \in [Workers -> ReapStates] /\ reaper' \in BOOLEAN
    BY Zenon, <1>7, RetireTyped DEF DispatchRetireIdle
  <2>2. PICK v \in MaintainedIdle :
          idle' = MaintainedIdle \ {v} /\ retiring' = MaintainedRetiring \cup {v}
    BY Zenon, <1>7 DEF DispatchRetireIdle
  <2>3. idle' \subseteq Workers /\ busy' \subseteq Workers /\ retiring' \subseteq Workers
    BY Zenon, <1>c, <1>7, <2>2 DEF DispatchRetireIdle
  <2> QED BY Zenon, <1>7, <2>1, <2>3 DEF DispatchRetireIdle, ThreadsTypeOK
<1>8. ASSUME NEW j \in Jobs, DispatchNoReaper(j) PROVE ThreadsTypeOK'
  BY Zenon, <1>a, <1>b, <1>c, <1>8 DEF DispatchNoReaper, ReturnJob, ThreadsTypeOK
<1>9. ASSUME NEW j \in Jobs, DispatchWait(j) PROVE ThreadsTypeOK'
  <2>1. reap' \in [Workers -> ReapStates] /\ reaper' \in BOOLEAN
    BY Zenon, <1>9, RetireTyped DEF DispatchWait
  <2> QED BY Zenon, <1>a, <1>b, <1>c, <1>d, <1>9, <2>1 DEF DispatchWait, ThreadsTypeOK, Places
<1>10. ASSUME NEW w \in Workers, NEW j \in Jobs, Recv(w, j) PROVE ThreadsTypeOK'
  BY Zenon, <1>a, <1>b, <1>c, <1>10 DEF Recv, ThreadsTypeOK
<1>11. ASSUME NEW w \in Workers, NEW j \in Jobs, FinishRun(w, j) PROVE ThreadsTypeOK'
  BY Zenon, <1>a, <1>b, <1>c, <1>11 DEF FinishRun, ThreadsTypeOK
<1>12. ASSUME NEW w \in Workers, NEW j \in Jobs, Publish(w, j) PROVE ThreadsTypeOK'
  BY Zenon, <1>a, <1>b, <1>c, <1>12 DEF Publish, ThreadsTypeOK
<1>13. ASSUME NEW w \in Workers, NEW j \in Jobs, PublishPanics(w, j) PROVE ThreadsTypeOK'
  BY Zenon, <1>a, <1>b, <1>c, <1>13 DEF PublishPanics, ThreadsTypeOK
<1>14. ASSUME NEW w \in Workers, RecvClosed(w) PROVE ThreadsTypeOK'
  BY Zenon, <1>a, <1>b, <1>c, <1>14 DEF RecvClosed, ThreadsTypeOK
<1>15. ASSUME NEW w \in Workers, RecycleKeep(w) PROVE ThreadsTypeOK'
  BY Zenon, <1>a, <1>b, <1>c, <1>15 DEF RecycleKeep, ThreadsTypeOK
<1>16. ASSUME NEW w \in Workers, RecycleRetire(w) PROVE ThreadsTypeOK'
  <2>1. reap' \in [Workers -> ReapStates] /\ reaper' \in BOOLEAN
    BY Zenon, <1>16, RetireTyped DEF RecycleRetire
  <2> QED BY Zenon, <1>a, <1>b, <1>c, <1>d, <1>16, <2>1 DEF RecycleRetire, ThreadsTypeOK, Places
<1>17. ASSUME NEW w \in Workers, RecycleStranded(w) PROVE ThreadsTypeOK'
  BY Zenon, <1>a, <1>b, <1>c, <1>17 DEF RecycleStranded, ThreadsTypeOK
<1>18. ASSUME NEW w \in Workers, ThreadExit(w) PROVE ThreadsTypeOK'
  BY Zenon, <1>a, <1>b, <1>c, <1>18 DEF ThreadExit, ThreadsTypeOK
<1>19. ASSUME NEW w \in Workers, ReaperTake(w) PROVE ThreadsTypeOK'
  BY Zenon, <1>a, <1>b, <1>c, <1>19 DEF ReaperTake, ThreadsTypeOK
<1>20. ASSUME NEW w \in Workers, ReaperJoined(w) PROVE ThreadsTypeOK'
  BY Zenon, <1>a, <1>b, <1>c, <1>20 DEF ReaperJoined, ThreadsTypeOK
<1> QED BY Zenon, <1>1, <1>2, <1>3, <1>4, <1>5, <1>6, <1>7, <1>8, <1>9, <1>10, <1>11, <1>12,
           <1>13, <1>14, <1>15, <1>16, <1>17, <1>18, <1>19, <1>20
       DEF ThreadsNext, DispatchPass, ServeStep

\* Only a spawn takes a slot.
LEMMA SlotsKept ==
  ASSUME ThreadsAssumption, ThreadsInv, ThreadsNext, \A j \in Jobs : ~DispatchSpawn(j)
  PROVE  Used' \subseteq Used
<1>1. /\ MaintainedIdle \cup MaintainedBusy \cup MaintainedRetiring \subseteq Used
  BY RoomCounts
<1>2. ASSUME NEW j \in Jobs, NEW c \in Namespaces, Dispatch(j, c) PROVE Used' \subseteq Used
  BY Zenon, <1>1, <1>2 DEF Dispatch, Used
<1>3. ASSUME NEW j \in Jobs, DispatchExpired(j) PROVE Used' \subseteq Used
  BY Zenon, <1>1, <1>3 DEF DispatchExpired, Used
<1>4. ASSUME NEW j \in Jobs, DispatchUnmaintained(j) PROVE Used' \subseteq Used
  BY Zenon, <1>1, <1>4 DEF DispatchUnmaintained, Used, prune_retired
<1>5. ASSUME NEW j \in Jobs, DispatchReuse(j) PROVE Used' \subseteq Used
  BY Zenon, <1>1, <1>5 DEF DispatchReuse, Used, Reusable
<1>6. ASSUME NEW j \in Jobs, DispatchSpawnFailed(j) PROVE Used' \subseteq Used
  BY Zenon, <1>1, <1>6 DEF DispatchSpawnFailed, Used
<1>7. ASSUME NEW j \in Jobs, DispatchRetireIdle(j) PROVE Used' \subseteq Used
  BY Zenon, <1>1, <1>7 DEF DispatchRetireIdle, Used
<1>8. ASSUME NEW j \in Jobs, DispatchNoReaper(j) PROVE Used' \subseteq Used
  BY Zenon, <1>1, <1>8 DEF DispatchNoReaper, Used, prune_retired
<1>9. ASSUME NEW j \in Jobs, DispatchWait(j) PROVE Used' \subseteq Used
  BY Zenon, <1>1, <1>9 DEF DispatchWait, Used
<1>10. ASSUME NEW w \in Workers, NEW j \in Jobs, Recv(w, j) PROVE Used' \subseteq Used
  BY Zenon, <1>1, <1>10 DEF Recv, Used
<1>11. ASSUME NEW w \in Workers, NEW j \in Jobs, FinishRun(w, j) PROVE Used' \subseteq Used
  BY Zenon, <1>1, <1>11 DEF FinishRun, Used
<1>12. ASSUME NEW w \in Workers, NEW j \in Jobs, Publish(w, j) PROVE Used' \subseteq Used
  BY Zenon, <1>1, <1>12 DEF Publish, Used
<1>13. ASSUME NEW w \in Workers, NEW j \in Jobs, PublishPanics(w, j) PROVE Used' \subseteq Used
  BY Zenon, <1>1, <1>13 DEF PublishPanics, Used
<1>14. ASSUME NEW w \in Workers, RecvClosed(w) PROVE Used' \subseteq Used
  BY Zenon, <1>1, <1>14 DEF RecvClosed, Used
<1>15. ASSUME NEW w \in Workers, RecycleKeep(w) PROVE Used' \subseteq Used
  BY Zenon, <1>1, <1>15 DEF RecycleKeep, Used
<1>16. ASSUME NEW w \in Workers, RecycleRetire(w) PROVE Used' \subseteq Used
  BY Zenon, <1>1, <1>16 DEF RecycleRetire, Used
<1>17. ASSUME NEW w \in Workers, RecycleStranded(w) PROVE Used' \subseteq Used
  BY Zenon, <1>1, <1>17 DEF RecycleStranded, Used
<1>18. ASSUME NEW w \in Workers, ThreadExit(w) PROVE Used' \subseteq Used
  BY Zenon, <1>1, <1>18 DEF ThreadExit, Used
<1>19. ASSUME NEW w \in Workers, ReaperTake(w) PROVE Used' \subseteq Used
  BY Zenon, <1>1, <1>19 DEF ReaperTake, Used
<1>20. ASSUME NEW w \in Workers, ReaperJoined(w) PROVE Used' \subseteq Used
  BY Zenon, <1>1, <1>20 DEF ReaperJoined, Used
<1> QED BY Zenon, <1>2, <1>3, <1>4, <1>5, <1>6, <1>7, <1>8, <1>9, <1>10, <1>11, <1>12, <1>13,
           <1>14, <1>15, <1>16, <1>17, <1>18, <1>19, <1>20
       DEF ThreadsNext, DispatchPass, ServeStep

LEMMA SlotsBounded ==
  ASSUME ThreadsAssumption, ThreadsInv, ThreadsTypeOK', ThreadsNext
  PROVE  Cardinality(Used') <= capacity
<1>1. IsFiniteSet(Used) /\ Cardinality(Used) <= capacity /\ Cardinality(Used) \in Nat /\ capacity \in Nat
  <2>1. Used \in SUBSET Workers /\ Cardinality(Used) <= capacity
    BY Finished
  <2>2. IsFiniteSet(Used)
    BY Zenon, <2>1, WorkersFinite, FS_Subset
  <2> QED BY <2>1, <2>2, FS_CardinalityType DEF ThreadsAssumption, ThreadCapacityAssumption
<1>2. CASE \A j \in Jobs : ~DispatchSpawn(j)
  <2>1. Used' \in SUBSET Used
    BY Zenon, <1>2, SlotsKept
  <2>2. IsFiniteSet(Used') /\ Cardinality(Used') <= Cardinality(Used)
    BY Zenon, <1>1, <2>1, FS_Subset
  <2>3. Cardinality(Used') \in Nat
    BY Zenon, <2>2, FS_CardinalityType
  <2> HIDE DEF Used
  <2> QED BY <1>1, <2>2, <2>3
<1>3. ASSUME NEW j \in Jobs, DispatchSpawn(j) PROVE Cardinality(Used') <= capacity
  <2> DEFINE Rest == MaintainedIdle \cup MaintainedBusy \cup MaintainedRetiring
  <2>1. Rest \in SUBSET Used /\ Cardinality(Rest) < capacity
    BY Zenon, <1>3, RoomCounts DEF DispatchSpawn, Room
  <2>2. IsFiniteSet(Rest)
    BY Zenon, <1>1, <2>1, FS_Subset
  <2>3. Used' = Rest \cup {next_worker}
    BY Zenon, <1>3 DEF DispatchSpawn, Used
  <2>4. Cardinality(Rest) \in Nat
    BY Zenon, <2>2, FS_CardinalityType
  <2> HIDE DEF Rest
  <2>5. Cardinality(Rest \cup {next_worker}) = (IF next_worker \in Rest THEN Cardinality(Rest) ELSE Cardinality(Rest) + 1)
    BY Zenon, <2>2, FS_AddElement
  <2>6. Cardinality(Rest \cup {next_worker}) <= capacity
    BY <1>1, <2>1, <2>4, <2>5
  <2> QED BY Zenon, <2>3, <2>6
<1> QED BY Zenon, <1>2, <1>3

LEMMA ThreadsStart == ASSUME ThreadsAssumption, ThreadsInit PROVE ThreadsInv
<1>1. ThreadsTypeOK
  <2>1. /\ "none" \in ThreadStates /\ "none" \in ReapStates /\ "new" \in JobStates
        /\ NoContext \in Namespaces /\ 1 \in 1 .. (MaxWorkers + 1)
    BY DEF ThreadStates, ReapStates, JobStates, Namespaces, ThreadsAssumption,
       MaxWorkersAssumption
  <2> QED BY Zenon, <2>1 DEF ThreadsInit, ThreadsTypeOK
<1>2. Used = {} /\ Cardinality({}) = 0 /\ 0 <= capacity
  BY FS_EmptySet DEF ThreadsInit, Used, ThreadsAssumption, ThreadCapacityAssumption
<1>3. \A w \in Workers : WorkerFollows(w)
  BY DEF ThreadsInit, WorkerFollows, Used
<1>4. \A j \in Jobs : JobFollows(j)
  BY DEF ThreadsInit, JobFollows, Serving
<1>5. \A j, k \in Jobs : PairFollows(j, k)
  BY DEF ThreadsInit, PairFollows
<1> QED BY <1>1, <1>2, <1>3, <1>4, <1>5 DEF ThreadsInv

LEMMA ThreadsAdvance ==
  ASSUME ThreadsAssumption, ThreadsInv, ThreadsNext
  PROVE  \E V \in SUBSET Workers, J \in SUBSET Jobs : Advance(V, J)
<1>0. /\ {} \in SUBSET Workers /\ {} \in SUBSET Jobs
      /\ \A w \in Workers : {w} \in SUBSET Workers
      /\ \A j \in Jobs : {j} \in SUBSET Jobs
  OBVIOUS
<1>1. ASSUME NEW j \in Jobs, NEW c \in Namespaces, Dispatch(j, c) PROVE \E V \in SUBSET Workers, J \in SUBSET Jobs : Advance(V, J)
  BY Zenon, <1>0, <1>1, DispatchAdvances
<1>2. ASSUME NEW j \in Jobs, DispatchExpired(j) PROVE \E V \in SUBSET Workers, J \in SUBSET Jobs : Advance(V, J)
  BY Zenon, <1>0, <1>2, DispatchExpiredAdvances
<1>3. ASSUME NEW j \in Jobs, DispatchUnmaintained(j) PROVE \E V \in SUBSET Workers, J \in SUBSET Jobs : Advance(V, J)
  BY Zenon, <1>0, <1>3, DispatchUnmaintainedAdvances
<1>4. ASSUME NEW j \in Jobs, DispatchReuse(j) PROVE \E V \in SUBSET Workers, J \in SUBSET Jobs : Advance(V, J)
  BY Zenon, <1>0, <1>4, DispatchReuseAdvances
<1>5. ASSUME NEW j \in Jobs, DispatchSpawn(j) PROVE \E V \in SUBSET Workers, J \in SUBSET Jobs : Advance(V, J)
  BY Zenon, <1>0, <1>5, DispatchSpawnAdvances
<1>6. ASSUME NEW j \in Jobs, DispatchSpawnFailed(j) PROVE \E V \in SUBSET Workers, J \in SUBSET Jobs : Advance(V, J)
  BY Zenon, <1>0, <1>6, DispatchSpawnFailedAdvances
<1>7. ASSUME NEW j \in Jobs, DispatchRetireIdle(j) PROVE \E V \in SUBSET Workers, J \in SUBSET Jobs : Advance(V, J)
  BY Zenon, <1>0, <1>7, DispatchRetireIdleAdvances
<1>8. ASSUME NEW j \in Jobs, DispatchNoReaper(j) PROVE \E V \in SUBSET Workers, J \in SUBSET Jobs : Advance(V, J)
  BY Zenon, <1>0, <1>8, DispatchNoReaperAdvances
<1>9. ASSUME NEW j \in Jobs, DispatchWait(j) PROVE \E V \in SUBSET Workers, J \in SUBSET Jobs : Advance(V, J)
  BY Zenon, <1>0, <1>9, DispatchWaitAdvances
<1>10. ASSUME NEW w \in Workers, NEW j \in Jobs, Recv(w, j) PROVE \E V \in SUBSET Workers, J \in SUBSET Jobs : Advance(V, J)
  BY Zenon, <1>0, <1>10, RecvAdvances
<1>11. ASSUME NEW w \in Workers, NEW j \in Jobs, FinishRun(w, j) PROVE \E V \in SUBSET Workers, J \in SUBSET Jobs : Advance(V, J)
  BY Zenon, <1>0, <1>11, FinishRunAdvances
<1>12. ASSUME NEW w \in Workers, NEW j \in Jobs, Publish(w, j) PROVE \E V \in SUBSET Workers, J \in SUBSET Jobs : Advance(V, J)
  BY Zenon, <1>0, <1>12, PublishAdvances
<1>13. ASSUME NEW w \in Workers, NEW j \in Jobs, PublishPanics(w, j) PROVE \E V \in SUBSET Workers, J \in SUBSET Jobs : Advance(V, J)
  BY Zenon, <1>0, <1>13, PublishPanicsAdvances
<1>14. ASSUME NEW w \in Workers, RecvClosed(w) PROVE \E V \in SUBSET Workers, J \in SUBSET Jobs : Advance(V, J)
  BY Zenon, <1>0, <1>14, RecvClosedAdvances
<1>15. ASSUME NEW w \in Workers, RecycleKeep(w) PROVE \E V \in SUBSET Workers, J \in SUBSET Jobs : Advance(V, J)
  BY Zenon, <1>0, <1>15, RecycleKeepAdvances
<1>16. ASSUME NEW w \in Workers, RecycleRetire(w) PROVE \E V \in SUBSET Workers, J \in SUBSET Jobs : Advance(V, J)
  BY Zenon, <1>0, <1>16, RecycleRetireAdvances
<1>17. ASSUME NEW w \in Workers, RecycleStranded(w) PROVE \E V \in SUBSET Workers, J \in SUBSET Jobs : Advance(V, J)
  BY Zenon, <1>0, <1>17, RecycleStrandedAdvances
<1>18. ASSUME NEW w \in Workers, ThreadExit(w) PROVE \E V \in SUBSET Workers, J \in SUBSET Jobs : Advance(V, J)
  BY Zenon, <1>0, <1>18, ThreadExitAdvances
<1>19. ASSUME NEW w \in Workers, ReaperTake(w) PROVE \E V \in SUBSET Workers, J \in SUBSET Jobs : Advance(V, J)
  BY Zenon, <1>0, <1>19, ReaperTakeAdvances
<1>20. ASSUME NEW w \in Workers, ReaperJoined(w) PROVE \E V \in SUBSET Workers, J \in SUBSET Jobs : Advance(V, J)
  BY Zenon, <1>0, <1>20, ReaperJoinedAdvances
<1> QED BY Zenon, <1>1, <1>2, <1>3, <1>4, <1>5, <1>6, <1>7, <1>8, <1>9, <1>10, <1>11, <1>12,
           <1>13, <1>14, <1>15, <1>16, <1>17, <1>18, <1>19, <1>20
       DEF ThreadsNext, DispatchPass, ServeStep

LEMMA ThreadsStep ==
  ASSUME ThreadsAssumption, ThreadsInv, [ThreadsNext]_threadVars
  PROVE  ThreadsInv'
<1>1. CASE ThreadsNext
  <2>1. ThreadsTypeOK'
    BY Zenon, <1>1, ThreadsTyped DEF ThreadsInv
  <2>2. Cardinality(Used') <= capacity
    BY Zenon, <1>1, <2>1, SlotsBounded
  <2>3. PICK V \in SUBSET Workers, J \in SUBSET Jobs : Advance(V, J)
    BY Zenon, <1>1, ThreadsAdvance
  <2>4. /\ \A w \in Workers : WorkerFollows(w)'
        /\ \A j \in Jobs : JobFollows(j)'
        /\ \A j, k \in Jobs : PairFollows(j, k)'
    BY Zenon, <2>1, <2>3, AdvanceKeeps
  <2> QED BY Zenon, <2>1, <2>2, <2>4 DEF ThreadsInv
<1>2. CASE UNCHANGED threadVars
  BY Zenon, <1>2 DEF threadVars, ThreadsInv, ThreadsTypeOK, Used, WorkerFollows, JobFollows,
     PairFollows
<1> QED BY Zenon, <1>1, <1>2

-----------------------------------------------------------------------------
LEMMA ServedFollow == ASSUME ThreadsAssumption, ThreadsInv PROVE AcceptedJobsServed
<1>1. NoWorker \notin busy
  BY WorkersFinite DEF ThreadsInv, ThreadsTypeOK, NoWorker
<1>2. ASSUME NEW j \in Jobs, job[j] \in DOMAIN Serving
      PROVE  /\ at[j] \in busy
             /\ thread[at[j]] = Serving[job[j]]
             /\ \A k \in Jobs : job[k] \in DOMAIN Serving /\ at[k] = at[j] => k = j
  BY Zenon, <1>1, <1>2 DEF ThreadsInv, JobFollows, PairFollows
<1>3. ASSUME NEW w \in idle PROVE thread[w] = "recv" /\ Inbox(w) = {}
  <2>1. w \in Workers /\ WorkerFollows(w)
    BY Zenon, <1>3 DEF ThreadsInv, ThreadsTypeOK
  <2>2. \A k \in Jobs : job[k] = "queued" => at[k] \in busy
    BY Zenon, ServedBusy DEF Served
  <2> QED BY Zenon, <1>3, <2>1, <2>2 DEF WorkerFollows, Inbox
<1> QED BY Zenon, <1>2, <1>3 DEF AcceptedJobsServed, ThreadsInv

LEMMA SharedFollow == ASSUME ThreadsInv PROVE SharedThreadsMatch
<1> SUFFICES ASSUME NEW j \in Jobs, NEW k \in Jobs, j # k, at[j] = at[k], at[j] # NoWorker
             PROVE  caller[j] = caller[k] /\ caller[j] # NoContext
  BY Zenon DEF SharedThreadsMatch
<1>1. PairFollows(j, k) /\ JobFollows(j) /\ JobFollows(k)
  BY Zenon DEF ThreadsInv
<1> QED BY Zenon, <1>1 DEF JobFollows, PairFollows

LEMMA BoundFollows == ASSUME ThreadsAssumption, ThreadsInv PROVE ThreadsBounded
<1>1. /\ InReap("pending") = {} /\ Cardinality(Used) <= capacity /\ Used \in SUBSET Workers
      /\ idle \cap retiring = {} /\ busy \cap retiring = {} /\ idle \cap busy = {}
  BY Finished
<1>2. /\ IsFiniteSet(Used) /\ idle \in SUBSET Used /\ busy \in SUBSET Used
      /\ retiring \in SUBSET Used
      /\ LiveThreads \in SUBSET Used
      /\ InReap("queued") \in SUBSET Used /\ InReap("joining") \in SUBSET Used
  <2>1. IsFiniteSet(Used)
    BY Zenon, <1>1, WorkersFinite, FS_Subset
  <2>2. idle \in SUBSET Used /\ busy \in SUBSET Used /\ retiring \in SUBSET Used
    BY DEF Used
  <2>3. LiveThreads \in SUBSET Used
    BY DEF LiveThreads, ThreadsInv, WorkerFollows
  <2>4. InReap("queued") \in SUBSET Used /\ InReap("joining") \in SUBSET Used
    BY DEF InReap, ThreadsInv, WorkerFollows, Used
  <2> QED BY Zenon, <2>1, <2>2, <2>3, <2>4
<1>3. /\ IsFiniteSet(idle) /\ IsFiniteSet(busy) /\ IsFiniteSet(retiring)
      /\ IsFiniteSet(LiveThreads)
      /\ IsFiniteSet(InReap("queued")) /\ IsFiniteSet(InReap("joining"))
      /\ Cardinality(LiveThreads) <= Cardinality(Used)
  BY Zenon, <1>2, FS_Subset
<1>4. Cardinality(Used) \in Nat /\ Cardinality(LiveThreads) \in Nat /\ capacity \in Nat
  BY <1>2, <1>3, FS_CardinalityType DEF ThreadsAssumption, ThreadCapacityAssumption
<1>5. thread_count(idle, busy, retiring) <= capacity
  <2>1. (idle \cup busy) \cap retiring = {}
    BY <1>1
  <2>2. Cardinality(idle \cup busy \cup retiring) = Cardinality(idle) + Cardinality(busy) + Cardinality(retiring)
    BY <1>1, <1>3, <2>1, Disjoint
  <2> QED BY Zenon, <1>1, <2>2 DEF thread_count, Used
<1>6. Cardinality(LiveThreads) <= capacity
  BY <1>1, <1>3, <1>4
<1>7. Cardinality(InReap("queued")) + Cardinality(InReap("joining")) <= capacity
  <2> DEFINE Q == InReap("queued")
             R == InReap("joining")
  <2>1. Q \cap R = {} /\ Q \cup R \in SUBSET Used
    BY <1>2 DEF InReap
  <2>2. Cardinality({}) = 0
    BY FS_EmptySet
  <2>3. Cardinality(Q \cup R) = Cardinality(Q) + Cardinality(R) - 0
    <3>1. IsFiniteSet(Q) /\ IsFiniteSet(R)
      BY Zenon, <1>3
    <3> HIDE DEF Q, R
    <3> QED BY <2>1, <2>2, <3>1, FS_Union
  <2>4. Cardinality(Q \cup R) <= Cardinality(Used)
    BY Zenon, <1>2, <2>1, FS_Subset
  <2>5. Cardinality(Q) \in Nat /\ Cardinality(R) \in Nat
    BY Zenon, <1>3, FS_CardinalityType
  <2> HIDE DEF Q, R
  <2>6. Cardinality(Q) + Cardinality(R) <= capacity
    BY <1>1, <1>4, <2>3, <2>4, <2>5
  <2> QED BY Zenon, <2>6 DEF Q, R
<1> QED BY Zenon, <1>1, <1>5, <1>6, <1>7 DEF ThreadsBounded

\* workers.rs: for any number of jobs, namespaces and threads, an accepted job is served by a
\* live thread until it is done, only jobs of one known namespace share a thread, and the
\* threads that may still execute code, retiring ones included, never exceed the capacity, so
\* the reaper's channel takes every join task.
THEOREM JobsTheorem == ASSUME ThreadsAssumption PROVE ThreadsSpec => []JobsServed
<1>1. ThreadsInit => ThreadsInv
  BY ThreadsStart
<1>2. ThreadsInv /\ [ThreadsNext]_threadVars => ThreadsInv'
  BY ThreadsStep
<1>3. ThreadsInv => JobsServed
  BY ServedFollow, SharedFollow, BoundFollows DEF JobsServed
<1> QED BY <1>1, <1>2, <1>3, PTL DEF ThreadsSpec
=============================================================================
