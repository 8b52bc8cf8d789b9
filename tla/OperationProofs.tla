-------------------------- MODULE OperationProofs --------------------------
(***************************************************************************)
(* Proofs about two operations: staged output files, for any number of     *)
(* processes that publish any number of files at the same destinations,    *)
(* and a neighbor discovery, for any limits, attempts, timeouts and        *)
(* captured frames.                                                        *)
(***************************************************************************)
EXTENDS StagedOutput, NeighborExchange, WellFoundedInduction, TLAPS

-----------------------------------------------------------------------------
(* StagedOutput. *)

\* The steps of one process: its main thread, its handler and its end.
ProcessStep(p) ==
  Work(p) \/ Interrupt(p) \/ Sweep(p) \/ Exit(p) \/ Kill(p)

LEMMA Bounds ==
  ASSUME StagedAssumption, StagedTypes, NEW p \in Processes
  PROVE  /\ cursor[p] \in Nat /\ Files[p] \in Nat /\ 1 <= cursor[p] /\ cursor[p] <= Files[p] /\ cursor[p] \in Dests
         /\ content[p] \in [Dests -> {"none", "staged", "synced"}] /\ 1..Files[p] \subseteq Dests
         /\ setting.tmpfile \in BOOLEAN
<1>1. Files[p] \in Nat /\ 1..Files[p] \subseteq Dests
  BY Zenon DEF StagedAssumption
<1>2. cursor[p] \in 1..Files[p] /\ content[p] \in [Dests -> {"none", "staged", "synced"}]
  BY DEF StagedTypes, Of
<1>3. setting.tmpfile \in BOOLEAN
  BY DEF StagedTypes
<1> QED BY <1>1, <1>2, <1>3

\* Every step of a process keeps the types.
LEMMA StagedTyped ==
  ASSUME StagedAssumption, StagedTypes, NEW p \in Processes, ProcessStep(p)
  PROVE  StagedTypes'
<1> DEFINE Sets == [Processes -> SUBSET Dests]
<1> DEFINE Marks == {"none", "staged", "synced"}
<1> DEFINE Contents == [Processes -> [Dests -> Marks]]
<1> DEFINE Entries == [Dests -> Processes \cup {NoEntry, "old", "other"}]
<1> DEFINE Places(a) == a \in [Processes -> Nat] /\ \A q \in Processes : a[q] \in Of(q)
<1> DEFINE Mains == [Processes -> Steps]
<1>s. /\ hidden \in Sets /\ registered \in Sets /\ reported \in Sets /\ placed \in Sets
      /\ unverified \in Sets /\ swept \in Sets
  BY DEF StagedTypes
<1>t. content \in Contents /\ dest \in Entries /\ Places(cursor) /\ main \in Mains
  BY DEF StagedTypes
<1>a. /\ cursor[p] \in Nat /\ Files[p] \in Nat /\ 1 <= cursor[p] /\ cursor[p] <= Files[p]
  <2>1. Files[p] \in Nat
    BY Zenon DEF StagedAssumption
  <2>2. cursor[p] \in 1..Files[p]
    BY DEF StagedTypes, Of
  <2> QED BY <2>1, <2>2
<1>d. cursor[p] \in Dests /\ registered[p] \subseteq Dests
  BY <1>a, <1>s DEF StagedAssumption
<1>m. ASSUME NEW s \in {"stage", "drop", "staged", "register", "own", "sync", "inspect", "persist",
                         "linkstaging", "link", "verify", "dropname", "rename", "unregister", "ok",
                         "unlink", "unlist", "failed"}
      PROVE  [main EXCEPT ![p] = s] \in Mains
  BY <1>t DEF Steps
<1>c. ASSUME NEW v \in Marks PROVE [content EXCEPT ![p][cursor[p]] = v] \in Contents
  <2> HIDE DEF Marks
  <2>1. [content[p] EXCEPT ![cursor[p]] = v] \in [Dests -> Marks]
    BY <1>t, <1>d
  <2> QED BY <1>t, <2>1
<1>p. ASSUME NEW n \in Nat, 1 <= n, n <= Files[p] PROVE Places([cursor EXCEPT ![p] = n])
  <2>1. n \in Of(p) /\ cursor \in [Processes -> Nat] /\ \A q \in Processes : cursor[q] \in Of(q)
    <3>1. n \in Of(p)
      BY <1>a, <1>p DEF Of
    <3> QED BY <3>1, <1>t
  <2> QED BY <2>1
<1>e. ASSUME NEW f \in Sets
      PROVE  /\ [f EXCEPT ![p] = @ \cup {cursor[p]}] \in Sets /\ [f EXCEPT ![p] = @ \ {cursor[p]}] \in Sets
             /\ [f EXCEPT ![p] = @ \ registered[p]] \in Sets /\ [f EXCEPT ![p] = {}] \in Sets
             /\ [f EXCEPT ![p] = registered[p]] \in Sets
  <2>1. ASSUME NEW S \in SUBSET Dests PROVE [f EXCEPT ![p] = S] \in Sets
    OBVIOUS
  <2>2. f[p] \in SUBSET Dests
    OBVIOUS
  <2> HIDE DEF Sets
  <2> QED BY Zenon, <1>d, <2>1, <2>2
<1>n. ASSUME NEW d \in Dests, NEW v \in Processes \cup {NoEntry} PROVE [dest EXCEPT ![d] = v] \in Entries
  BY <1>t
<1> HIDE DEF Sets, Contents, Entries, Mains, Places
<1> USE <1>s, <1>t
<1> USE DEF Goto, Fail, Placed
<1>1. CASE Inspect(p)
  <2>1. main' \in Mains
    BY Zenon, <1>1, <1>m DEF Inspect
  <2> QED BY Zenon, <1>1, <2>1
         DEF Inspect, StagedTypes, Sets, Contents, Entries, Mains, Places, Marks
<1>2. CASE Stage(p)
  <2>1. content' \in Contents
    BY Zenon, <1>2, <1>c DEF Marks, Stage
  <2>2. hidden' \in Sets
    BY Zenon, <1>2, <1>e DEF Stage
  <2>3. main' \in Mains
    BY Zenon, <1>2, <1>m DEF Stage
  <2> QED BY Zenon, <1>2, <2>1, <2>2, <2>3
         DEF Stage, StagedTypes, Sets, Contents, Entries, Mains, Places, Marks
<1>3. CASE Register(p)
  <2>1. registered' \in Sets
    BY Zenon, <1>3, <1>e DEF Register
  <2>2. hidden' \in Sets
    BY Zenon, <1>3, <1>e DEF Register
  <2>3. main' \in Mains
    BY Zenon, <1>3, <1>m DEF Register
  <2> QED BY Zenon, <1>3, <2>1, <2>2, <2>3
         DEF Register, StagedTypes, Sets, Contents, Entries, Mains, Places, Marks
<1>4. CASE Staged(p)
  <2>1. main' \in Mains
    BY Zenon, <1>4, <1>m DEF Staged
  <2>2. Places(cursor)'
    BY <1>4, <1>a, <1>p DEF Places, Staged
  <2> QED BY Zenon, <1>4, <2>1, <2>2
         DEF Staged, StagedTypes, Sets, Contents, Entries, Mains, Places, Marks
<1>5. CASE Sync(p)
  <2>1. content' \in Contents
    BY Zenon, <1>5, <1>c DEF Marks, Sync
  <2>2. main' \in Mains
    BY Zenon, <1>5, <1>m DEF Sync
  <2>3. Places(cursor)'
    BY <1>5, <1>a, <1>p DEF Places, Sync
  <2> QED BY Zenon, <1>5, <2>1, <2>2, <2>3
         DEF Sync, StagedTypes, Sets, Contents, Entries, Mains, Places, Marks
<1>6. CASE Persist(p)
  <2>1. main' \in Mains
    BY Zenon, <1>6, <1>m DEF Persist
  <2> QED BY Zenon, <1>6, <2>1
         DEF Persist, StagedTypes, Sets, Contents, Entries, Mains, Places, Marks
<1>7. CASE LinkStaging(p)
  <2>1. hidden' \in Sets
    BY Zenon, <1>7, <1>e DEF LinkStaging
  <2>2. main' \in Mains
    BY Zenon, <1>7, <1>m DEF LinkStaging
  <2> QED BY Zenon, <1>7, <2>1, <2>2
         DEF LinkStaging, StagedTypes, Sets, Contents, Entries, Mains, Places, Marks
<1>8. CASE Link(p)
  <2>1. dest' \in Entries
    BY <1>8, <1>d, <1>n DEF Link
  <2>2. placed' \in Sets
    BY Zenon, <1>8, <1>e DEF Link
  <2>3. main' \in Mains
    BY Zenon, <1>8, <1>m DEF Link
  <2> QED BY Zenon, <1>8, <2>1, <2>2, <2>3
         DEF Link, StagedTypes, Sets, Contents, Entries, Mains, Places, Marks
<1>9. CASE Own(p)
  <2>1. main' \in Mains
    BY Zenon, <1>9, <1>m DEF Own
  <2> QED BY Zenon, <1>9, <2>1
         DEF Own, StagedTypes, Sets, Contents, Entries, Mains, Places, Marks
<1>10. CASE Rename(p)
  <2>1. dest' \in Entries
    BY <1>10, <1>d, <1>n DEF Rename
  <2>2. placed' \in Sets
    BY Zenon, <1>10, <1>e DEF Rename
  <2>3. hidden' \in Sets
    BY Zenon, <1>10, <1>e DEF Rename
  <2>4. main' \in Mains
    BY Zenon, <1>10, <1>m DEF Rename
  <2> QED BY Zenon, <1>10, <2>1, <2>2, <2>3, <2>4
         DEF Rename, StagedTypes, Sets, Contents, Entries, Mains, Places, Marks
<1>11. CASE DropName(p)
  <2>1. hidden' \in Sets
    BY Zenon, <1>11, <1>e DEF DropName
  <2>2. main' \in Mains
    BY <1>11, <1>m DEF DropName
  <2> QED BY Zenon, <1>11, <2>1, <2>2
         DEF DropName, StagedTypes, Sets, Contents, Entries, Mains, Places, Marks
<1>12. CASE Unregister(p)
  <2>1. registered' \in Sets
    BY Zenon, <1>12, <1>e DEF Unregister
  <2>2. main' \in Mains
    BY <1>12, <1>m DEF Unregister
  <2> QED BY Zenon, <1>12, <2>1, <2>2
         DEF Unregister, StagedTypes, Sets, Contents, Entries, Mains, Places, Marks
<1>13. CASE Verify(p)
  <2>1. reported' \in Sets
    BY Zenon, <1>13, <1>e DEF Verify
  <2>2. unverified' \in Sets
    BY Zenon, <1>13, <1>e DEF Verify
  <2>3. main' \in Mains
    BY Zenon, <1>13, <1>m DEF Verify
  <2>4. Places(cursor)'
    BY <1>13, <1>a, <1>p DEF Places, Verify
  <2> QED BY Zenon, <1>13, <2>1, <2>2, <2>3, <2>4
         DEF Verify, StagedTypes, Sets, Contents, Entries, Mains, Places, Marks
<1>14. CASE Unlink(p)
  <2>1. dest' \in Entries
    BY Zenon, <1>14, <1>d, <1>n DEF Unlink
  <2>2. main' \in Mains
    BY <1>14, <1>m DEF Unlink
  <2> QED BY Zenon, <1>14, <2>1, <2>2
         DEF Unlink, StagedTypes, Sets, Contents, Entries, Mains, Places, Marks
<1>15. CASE DropStaged(p)
  <2>1. hidden' \in Sets
    BY Zenon, <1>15, <1>e DEF DropStaged
  <2>2. main' \in Mains
    BY <1>15, <1>m DEF DropStaged
  <2> QED BY Zenon, <1>15, <2>1, <2>2
         DEF DropStaged, StagedTypes, Sets, Contents, Entries, Mains, Places, Marks
<1>16. CASE Unlist(p)
  <2>1. registered' \in Sets
    BY Zenon, <1>16, <1>e DEF Unlist
  <2>2. main' \in Mains
    BY <1>16, <1>m DEF Unlist
  <2> QED BY Zenon, <1>16, <2>1, <2>2
         DEF Unlist, StagedTypes, Sets, Contents, Entries, Mains, Places, Marks
<1>17. CASE Interrupt(p)
  <2> QED BY Zenon, <1>17, <1>t
         DEF Interrupt, StagedTypes, Sets, Contents, Entries, Mains, Places, Marks
<1>18. CASE Sweep(p)
  <2>1. hidden' \in Sets
    BY Zenon, <1>18, <1>e DEF Sweep
  <2>2. swept' \in Sets
    BY Zenon, <1>18, <1>e DEF Sweep
  <2> QED BY Zenon, <1>18, <2>1, <2>2
         DEF Sweep, StagedTypes, Sets, Contents, Entries, Mains, Places, Marks
<1>19. CASE Exit(p)
  <2> QED BY Zenon, <1>19, <1>t
         DEF Exit, StagedTypes, Sets, Contents, Entries, Mains, Places, Marks
<1>20. CASE Kill(p)
  <2> QED BY Zenon, <1>20, <1>t
         DEF Kill, StagedTypes, Sets, Contents, Entries, Mains, Places, Marks
<1> QED BY Zenon, <1>1, <1>2, <1>3, <1>4, <1>5, <1>6, <1>7, <1>8, <1>9, <1>10, <1>11, <1>12, <1>13, <1>14, <1>15, <1>16, <1>17, <1>18, <1>19, <1>20 DEF ProcessStep, Work

\* A file is published after every file of its command is synced.
LEMMA SyncKept ==
  ASSUME StagedAssumption, StagedTypes, NEW p \in Processes,
         SyncFollows(p), CountFollows(p), NamesFollow(p), UnnamedFollow(p), ProcessStep(p)
  PROVE  SyncFollows(p)'
<1> USE DEF StagedAssumption, StagedTypes, Steps, Of, Running, Goto, Fail,
            Live, Placed, Publication, SyncFollows, AllSynced,
            Staging, Naming, Publishing
<1>a. /\ cursor[p] \in Nat /\ Files[p] \in Nat /\ 1 <= cursor[p] /\ cursor[p] <= Files[p] /\ cursor[p] \in Dests
      /\ content[p] \in [Dests -> {"none", "staged", "synced"}] /\ 1..Files[p] \subseteq Dests
      /\ setting.tmpfile \in BOOLEAN
  BY Bounds
<1> USE <1>a
<1>1. CASE Inspect(p)
  BY <1>1 DEF Inspect
<1>2. CASE Stage(p)
  <2>1. CASE Fail(p)
    BY Zenon, <1>2, <2>1 DEF Stage
  <2>2. CASE ~Fail(p) /\ setting.tmpfile
    <3>1. /\ main[p] = "stage" /\ main'[p] = "staged" /\ setting' = setting
          /\ cursor'[p] = cursor[p]
          /\ content'[p] = [content[p] EXCEPT ![cursor[p]] = "staged"]
          /\ placed'[p] = placed[p]
      BY Zenon, <1>2, <2>2 DEF Stage
    <3> HIDE DEF StagedTypes, StagedAssumption, Steps, Running, Goto, Fail, Live, Placed
    <3> QED BY <2>2, <3>1
  <2>3. CASE ~Fail(p) /\ ~setting.tmpfile
    <3>1. /\ main[p] = "stage" /\ main'[p] = "register" /\ setting' = setting
          /\ cursor'[p] = cursor[p]
          /\ content'[p] = [content[p] EXCEPT ![cursor[p]] = "staged"]
          /\ placed'[p] = placed[p]
      BY Zenon, <1>2, <2>3 DEF Stage
    <3> HIDE DEF StagedTypes, StagedAssumption, Steps, Running, Goto, Fail, Live, Placed
    <3> QED BY <2>3, <3>1
  <2> QED BY Zenon, <1>2, <2>1, <2>2, <2>3 DEF Stage
<1>3. CASE Register(p)
  BY <1>3 DEF Register
<1>4. CASE Staged(p)
  BY <1>4 DEF Staged
<1>5. CASE Sync(p)
  <2>1. CASE Fail(p)
    BY Zenon, <1>5, <2>1 DEF Sync
  <2>2. CASE ~Fail(p) /\ cursor[p] = Files[p]
    <3>1. /\ main[p] = "sync" /\ main'[p] = "persist" /\ setting' = setting
          /\ cursor'[p] = 1
          /\ content'[p] = [content[p] EXCEPT ![cursor[p]] = "synced"]
          /\ placed'[p] = placed[p]
      BY ZenonT(30), <1>5, <2>2 DEF Sync
    <3> HIDE DEF StagedTypes, StagedAssumption, Steps, Running, Goto, Fail, Live, Placed
    <3> QED BY <2>2, <3>1
  <2>3. CASE ~Fail(p) /\ cursor[p] # Files[p]
    <3>1. /\ main[p] = "sync" /\ main'[p] = (IF Publication = "Replace" THEN "inspect" ELSE "sync") /\ setting' = setting
          /\ cursor'[p] = cursor[p] + 1
          /\ content'[p] = [content[p] EXCEPT ![cursor[p]] = "synced"]
          /\ placed'[p] = placed[p]
      BY ZenonT(30), <1>5, <2>3 DEF Sync
    <3> HIDE DEF StagedTypes, StagedAssumption, Steps, Running, Goto, Fail, Live, Placed
    <3> QED BY <2>3, <3>1
  <2> QED BY Zenon, <1>5, <2>1, <2>2, <2>3 DEF Sync
<1>6. CASE Persist(p)
  BY <1>6 DEF Persist
<1>7. CASE LinkStaging(p)
  <2>1. CASE Fail(p)
    BY Zenon, <1>7, <2>1 DEF LinkStaging
  <2>2. CASE ~Fail(p)
    <3>1. /\ main[p] = "linkstaging" /\ main'[p] = "register" /\ setting' = setting
          /\ cursor'[p] = cursor[p]
          /\ content'[p] = content[p]
          /\ placed'[p] = placed[p]
      BY Zenon, <1>7, <2>2 DEF LinkStaging
    <3> HIDE DEF StagedTypes, StagedAssumption, Steps, Running, Goto, Fail, Live, Placed
    <3> QED BY <2>2, <3>1
  <2> QED BY Zenon, <1>7, <2>1, <2>2 DEF LinkStaging
<1>8. CASE Link(p)
  BY <1>8 DEF Link
<1>9. CASE Own(p)
  BY <1>9 DEF Own
<1>10. CASE Rename(p)
  BY <1>10 DEF Rename
<1>11. CASE DropName(p)
  BY Zenon, <1>11 DEF DropName
<1>12. CASE Unregister(p)
  BY Zenon, <1>12 DEF Unregister
<1>13. CASE Verify(p)
  BY <1>13 DEF Verify
<1>14. CASE Unlink(p)
  BY Zenon, <1>14 DEF Unlink
<1>15. CASE DropStaged(p)
  BY Zenon, <1>15 DEF DropStaged
<1>16. CASE Unlist(p)
  BY Zenon, <1>16 DEF Unlist
<1>17. CASE Interrupt(p)
  BY Zenon, <1>17 DEF Interrupt
<1>18. CASE Sweep(p)
  BY Zenon, <1>18 DEF Sweep
<1>19. CASE Exit(p)
  BY Zenon, <1>19 DEF Exit
<1>20. CASE Kill(p)
  BY Zenon, <1>20 DEF Kill
<1> QED BY Zenon, <1>1, <1>2, <1>3, <1>4, <1>5, <1>6, <1>7, <1>8, <1>9, <1>10, <1>11, <1>12, <1>13, <1>14, <1>15, <1>16, <1>17, <1>18, <1>19, <1>20 DEF ProcessStep, Work

\* What a process put at a destination is counted, unread, or about to be verified.
LEMMA CountKept ==
  ASSUME StagedAssumption, StagedTypes, NEW p \in Processes,
         SyncFollows(p), CountFollows(p), NamesFollow(p), UnnamedFollow(p), ProcessStep(p)
  PROVE  CountFollows(p)'
<1> USE DEF StagedAssumption, StagedTypes, Steps, Of, Running, Goto, Fail,
            Live, Placed, Publication, CountFollows,
            Staging, Naming, Publishing
<1>a. /\ cursor[p] \in Nat /\ Files[p] \in Nat /\ 1 <= cursor[p] /\ cursor[p] <= Files[p] /\ cursor[p] \in Dests
      /\ content[p] \in [Dests -> {"none", "staged", "synced"}] /\ 1..Files[p] \subseteq Dests
      /\ setting.tmpfile \in BOOLEAN
  BY Bounds
<1> USE <1>a
<1>1. CASE Inspect(p)
  BY <1>1 DEF Inspect
<1>2. CASE Stage(p)
  BY <1>2 DEF Stage
<1>3. CASE Register(p)
  <2>1. CASE Fail(p)
    BY Zenon, <1>3, <2>1 DEF Register
  <2>2. CASE ~Fail(p)
    <3>1. /\ main[p] = "register" /\ main'[p] = (IF content[p][cursor[p]] = "synced" THEN "own" ELSE "staged") /\ setting' = setting
          /\ cursor'[p] = cursor[p]
          /\ placed'[p] = placed[p]
          /\ reported'[p] = reported[p]
          /\ unverified'[p] = unverified[p]
          /\ dest' = dest
      BY Zenon, <1>3, <2>2 DEF Register
    <3> HIDE DEF StagedTypes, StagedAssumption
    <3> QED BY <2>2, <3>1 DEF SyncFollows
  <2> QED BY Zenon, <1>3, <2>1, <2>2 DEF Register
<1>4. CASE Staged(p)
  BY <1>4 DEF Staged
<1>5. CASE Sync(p)
  BY <1>5 DEF Sync
<1>6. CASE Persist(p)
  BY <1>6 DEF Persist
<1>7. CASE LinkStaging(p)
  BY Zenon, <1>7 DEF LinkStaging
<1>8. CASE Link(p)
  BY <1>8 DEF Link
<1>9. CASE Own(p)
  BY <1>9 DEF Own
<1>10. CASE Rename(p)
  BY <1>10 DEF Rename
<1>11. CASE DropName(p)
  BY Zenon, <1>11 DEF DropName
<1>12. CASE Unregister(p)
  BY Zenon, <1>12 DEF Unregister
<1>13. CASE Verify(p)
  <2>1. CASE Goto(p, "ok")
    <3>1. /\ main[p] = "verify" /\ main'[p] = "ok" /\ setting' = setting
          /\ cursor'[p] = cursor[p]
          /\ placed'[p] = placed[p]
          /\ reported'[p] = reported[p] \cup {cursor[p]}
          /\ unverified'[p] = unverified[p]
          /\ dest' = dest /\ dest[cursor[p]] = p /\ cursor[p] = Files[p]
      BY ZenonT(30), <1>13, <2>1 DEF Verify
    <3> HIDE DEF StagedTypes, StagedAssumption, Steps, Running, Goto, Fail, Live, Placed
    <3> QED BY <3>1
  <2>2. CASE Goto(p, "persist")
    <3>1. /\ main[p] = "verify" /\ main'[p] = "persist" /\ setting' = setting
          /\ cursor'[p] = cursor[p] + 1
          /\ placed'[p] = placed[p]
          /\ reported'[p] = reported[p] \cup {cursor[p]}
          /\ unverified'[p] = unverified[p]
          /\ dest' = dest /\ dest[cursor[p]] = p /\ cursor[p] # Files[p]
      BY <1>13, <2>2 DEF Verify
    <3> HIDE DEF StagedTypes, StagedAssumption, Steps, Running, Goto, Fail, Live, Placed
    <3> QED BY <3>1
  <2>3. CASE Goto(p, "unlink")
    BY <1>13, <2>3 DEF Verify
  <2>4. CASE Fail(p)
    BY <1>13, <2>4 DEF Verify
  <2> QED BY Zenon, <1>13, <2>1, <2>2, <2>3, <2>4 DEF Verify
<1>14. CASE Unlink(p)
  BY Zenon, <1>14 DEF Unlink
<1>15. CASE DropStaged(p)
  BY Zenon, <1>15 DEF DropStaged
<1>16. CASE Unlist(p)
  BY Zenon, <1>16 DEF Unlist
<1>17. CASE Interrupt(p)
  BY Zenon, <1>17 DEF Interrupt
<1>18. CASE Sweep(p)
  BY Zenon, <1>18 DEF Sweep
<1>19. CASE Exit(p)
  BY Zenon, <1>19 DEF Exit
<1>20. CASE Kill(p)
  BY Zenon, <1>20 DEF Kill
<1> QED BY Zenon, <1>1, <1>2, <1>3, <1>4, <1>5, <1>6, <1>7, <1>8, <1>9, <1>10, <1>11, <1>12, <1>13, <1>14, <1>15, <1>16, <1>17, <1>18, <1>19, <1>20 DEF ProcessStep, Work

\* A staging name goes before its registration, and is not made again once swept; an unnamed
\* file has a staging name only from its publication on, and for that step.
LEMMA NamesKept ==
  ASSUME StagedAssumption, StagedTypes, NEW p \in Processes,
         SyncFollows(p), CountFollows(p), NamesFollow(p), UnnamedFollow(p), ProcessStep(p)
  PROVE  NamesFollow(p)' /\ UnnamedFollow(p)'
<1>a. /\ cursor[p] \in Nat /\ Files[p] \in Nat /\ 1 <= cursor[p] /\ cursor[p] <= Files[p] /\ setting.tmpfile \in BOOLEAN
  BY Bounds
<1> USE <1>a DEF Running, Goto, Fail, Publication
<1>1. CASE Inspect(p)
  <2>1. CASE Fail(p)
    <3>1. /\ main[p] = "inspect" /\ main'[p] = "drop" /\ setting' = setting
          /\ cursor'[p] = cursor[p] /\ hidden'[p] = hidden[p] /\ registered'[p] = registered[p] /\ swept'[p] = swept[p]
      BY Zenon, <1>1, <2>1 DEF Inspect, StagedTypes
    <3> QED BY Zenon, <2>1, <3>1 DEF Of, NamesFollow, Staging, Naming, Publishing, UnnamedFollow
  <2>2. CASE ~Fail(p)
    <3>1. /\ main[p] = "inspect" /\ main'[p] = "stage" /\ setting' = setting
          /\ cursor'[p] = cursor[p] /\ hidden'[p] = hidden[p] /\ registered'[p] = registered[p] /\ swept'[p] = swept[p]
      BY Zenon, <1>1, <2>2 DEF Inspect, StagedTypes
    <3> QED BY Zenon, <2>2, <3>1 DEF Of, NamesFollow, Staging, Naming, Publishing, UnnamedFollow
  <2> QED BY Zenon, <1>1, <2>1, <2>2 DEF Inspect
<1>2. CASE Stage(p)
  <2>1. CASE Fail(p)
    <3>1. /\ main[p] = "stage" /\ main'[p] = "drop" /\ setting' = setting
          /\ cursor'[p] = cursor[p] /\ hidden'[p] = hidden[p] /\ registered'[p] = registered[p] /\ swept'[p] = swept[p]
      BY Zenon, <1>2, <2>1 DEF Stage, StagedTypes
    <3>2. NamesFollow(p)'
      BY <2>1, <3>1 DEF Of, NamesFollow, Staging, Naming, Publishing
    <3>3. UnnamedFollow(p)'
      BY <2>1, <3>1 DEF Staging, Naming, Publishing, UnnamedFollow
    <3> QED BY Zenon, <3>2, <3>3
  <2>2. CASE ~Fail(p) /\ setting.tmpfile
    <3>1. /\ main[p] = "stage" /\ main'[p] = "staged" /\ setting' = setting
          /\ cursor'[p] = cursor[p] /\ hidden'[p] = hidden[p] /\ registered'[p] = registered[p] /\ swept'[p] = swept[p]
      BY Zenon, <1>2, <2>2 DEF Stage, StagedTypes
    <3> QED BY <2>2, <3>1 DEF Of, NamesFollow, Staging, Naming, Publishing, UnnamedFollow
  <2>3. CASE ~Fail(p) /\ ~setting.tmpfile
    <3>1. /\ main[p] = "stage" /\ main'[p] = "register" /\ setting' = setting
          /\ cursor'[p] = cursor[p] /\ hidden'[p] = hidden[p] \cup {cursor[p]} /\ registered'[p] = registered[p] /\ swept'[p] = swept[p]
      BY Zenon, <1>2, <2>3 DEF Stage, StagedTypes
    <3> QED BY <2>3, <3>1 DEF Of, NamesFollow, Staging, Naming, Publishing, UnnamedFollow
  <2> QED BY Zenon, <1>2, <2>1, <2>2, <2>3 DEF Stage
<1>3. CASE Register(p)
  <2>1. CASE Fail(p)
    <3>1. /\ main[p] = "register" /\ main'[p] = "drop" /\ setting' = setting
          /\ cursor'[p] = cursor[p] /\ hidden'[p] = hidden[p] \ {cursor[p]} /\ registered'[p] = registered[p] /\ swept'[p] = swept[p]
      BY Zenon, <1>3, <2>1 DEF Register, StagedTypes
    <3> QED BY <2>1, <3>1 DEF Of, NamesFollow, Staging, Naming, Publishing, SyncFollows, UnnamedFollow
  <2>2. CASE ~Fail(p) /\ content[p][cursor[p]] = "synced"
    <3>1. /\ main[p] = "register" /\ main'[p] = "own" /\ setting' = setting
          /\ cursor'[p] = cursor[p] /\ hidden'[p] = hidden[p] /\ registered'[p] = registered[p] \cup {cursor[p]} /\ swept'[p] = swept[p]
      BY Zenon, <1>3, <2>2 DEF Register, StagedTypes
    <3> QED BY <2>2, <3>1 DEF Of, NamesFollow, Staging, Naming, Publishing, SyncFollows, UnnamedFollow
  <2>3. CASE ~Fail(p) /\ content[p][cursor[p]] # "synced"
    <3>1. /\ main[p] = "register" /\ main'[p] = "staged" /\ setting' = setting
          /\ cursor'[p] = cursor[p] /\ hidden'[p] = hidden[p] /\ registered'[p] = registered[p] \cup {cursor[p]} /\ swept'[p] = swept[p]
      BY Zenon, <1>3, <2>3 DEF Register, StagedTypes
    <3> QED BY <2>3, <3>1 DEF Of, NamesFollow, Staging, Naming, Publishing, SyncFollows, UnnamedFollow
  <2> QED BY Zenon, <1>3, <2>1, <2>2, <2>3 DEF Register
<1>4. CASE Staged(p)
  <2>1. CASE Publication = "Replace"
    <3>1. /\ main[p] = "staged" /\ main'[p] = "sync" /\ setting' = setting
          /\ cursor'[p] = cursor[p] /\ hidden'[p] = hidden[p] /\ registered'[p] = registered[p] /\ swept'[p] = swept[p]
      BY Zenon, <1>4, <2>1 DEF Staged, StagedTypes
    <3> QED BY Zenon, <2>1, <3>1 DEF Of, NamesFollow, Staging, Naming, Publishing, UnnamedFollow
  <2>2. CASE ~(Publication = "Replace") /\ cursor[p] < Files[p]
    <3>1. /\ main[p] = "staged" /\ main'[p] = "inspect" /\ setting' = setting
          /\ cursor'[p] = cursor[p] + 1 /\ hidden'[p] = hidden[p] /\ registered'[p] = registered[p] /\ swept'[p] = swept[p]
      BY Zenon, <1>4, <2>2 DEF Staged, StagedTypes
    <3>2. NamesFollow(p)'
      BY SMTT(20), <2>2, <3>1 DEF Of, NamesFollow, Staging, Naming, Publishing
    <3>3. UnnamedFollow(p)'
      BY <2>2, <3>1 DEF Staging, Naming, Publishing, UnnamedFollow
    <3> QED BY Zenon, <3>2, <3>3
  <2>3. CASE ~(Publication = "Replace") /\ ~(cursor[p] < Files[p])
    <3>1. /\ main[p] = "staged" /\ main'[p] = "sync" /\ setting' = setting
          /\ cursor'[p] = 1 /\ hidden'[p] = hidden[p] /\ registered'[p] = registered[p] /\ swept'[p] = swept[p]
      BY Zenon, <1>4, <2>3 DEF Staged, StagedTypes
    <3> QED BY Zenon, <2>3, <3>1 DEF Of, NamesFollow, Staging, Naming, Publishing, UnnamedFollow
  <2> QED BY Zenon, <1>4, <2>1, <2>2, <2>3 DEF Staged
<1>5. CASE Sync(p)
  <2>1. CASE Fail(p)
    <3>1. /\ main[p] = "sync" /\ main'[p] = "drop" /\ setting' = setting
          /\ cursor'[p] = cursor[p] /\ hidden'[p] = hidden[p] /\ registered'[p] = registered[p] /\ swept'[p] = swept[p]
      BY Zenon, <1>5, <2>1 DEF Sync, StagedTypes
    <3>2. NamesFollow(p)'
      BY <2>1, <3>1 DEF Of, NamesFollow, Staging, Naming, Publishing
    <3>3. UnnamedFollow(p)'
      BY <2>1, <3>1 DEF Staging, Naming, Publishing, UnnamedFollow
    <3> QED BY Zenon, <3>2, <3>3
  <2>2. CASE ~Fail(p) /\ cursor[p] = Files[p]
    <3>1. /\ main[p] = "sync" /\ main'[p] = "persist" /\ setting' = setting
          /\ cursor'[p] = 1 /\ hidden'[p] = hidden[p] /\ registered'[p] = registered[p] /\ swept'[p] = swept[p]
      BY Zenon, <1>5, <2>2 DEF Sync, StagedTypes
    <3> QED BY <2>2, <3>1 DEF Of, NamesFollow, Staging, Naming, Publishing, UnnamedFollow
  <2>3. CASE ~Fail(p) /\ cursor[p] # Files[p] /\ Publication = "Replace"
    <3>1. /\ main[p] = "sync" /\ main'[p] = "inspect" /\ setting' = setting
          /\ cursor'[p] = cursor[p] + 1 /\ hidden'[p] = hidden[p] /\ registered'[p] = registered[p] /\ swept'[p] = swept[p]
      BY Zenon, <1>5, <2>3 DEF Sync, StagedTypes
    <3> QED BY <2>3, <3>1 DEF Of, NamesFollow, Staging, Naming, Publishing, UnnamedFollow
  <2>4. CASE ~Fail(p) /\ cursor[p] # Files[p] /\ ~(Publication = "Replace")
    <3>1. /\ main[p] = "sync" /\ main'[p] = "sync" /\ setting' = setting
          /\ cursor'[p] = cursor[p] + 1 /\ hidden'[p] = hidden[p] /\ registered'[p] = registered[p] /\ swept'[p] = swept[p]
      BY Zenon, <1>5, <2>4 DEF Sync, StagedTypes
    <3> QED BY <2>4, <3>1 DEF Of, NamesFollow, Staging, Naming, Publishing, UnnamedFollow
  <2> QED BY Zenon, <1>5, <2>1, <2>2, <2>3, <2>4 DEF Sync
<1>6. CASE Persist(p)
  <2>1. CASE Fail(p)
    <3>1. /\ main[p] = "persist" /\ main'[p] = "drop" /\ setting' = setting
          /\ cursor'[p] = cursor[p] /\ hidden'[p] = hidden[p] /\ registered'[p] = registered[p] /\ swept'[p] = swept[p]
      BY Zenon, <1>6, <2>1 DEF Persist, StagedTypes
    <3> QED BY <2>1, <3>1 DEF Of, NamesFollow, Staging, Naming, Publishing, UnnamedFollow
  <2>2. CASE ~Fail(p) /\ ~setting.tmpfile
    <3>1. /\ main[p] = "persist" /\ main'[p] = "own" /\ setting' = setting
          /\ cursor'[p] = cursor[p] /\ hidden'[p] = hidden[p] /\ registered'[p] = registered[p] /\ swept'[p] = swept[p]
      BY Zenon, <1>6, <2>2 DEF Persist, StagedTypes
    <3> QED BY <2>2, <3>1 DEF Of, NamesFollow, Staging, Naming, Publishing, UnnamedFollow
  <2>3. CASE ~Fail(p) /\ setting.tmpfile /\ Publication = "Replace"
    <3>1. /\ main[p] = "persist" /\ main'[p] = "linkstaging" /\ setting' = setting
          /\ cursor'[p] = cursor[p] /\ hidden'[p] = hidden[p] /\ registered'[p] = registered[p] /\ swept'[p] = swept[p]
      BY Zenon, <1>6, <2>3 DEF Persist, StagedTypes
    <3> QED BY <2>3, <3>1 DEF Of, NamesFollow, Staging, Naming, Publishing, UnnamedFollow
  <2>4. CASE ~Fail(p) /\ setting.tmpfile /\ ~(Publication = "Replace")
    <3>1. /\ main[p] = "persist" /\ main'[p] = "link" /\ setting' = setting
          /\ cursor'[p] = cursor[p] /\ hidden'[p] = hidden[p] /\ registered'[p] = registered[p] /\ swept'[p] = swept[p]
      BY Zenon, <1>6, <2>4 DEF Persist, StagedTypes
    <3> QED BY <2>4, <3>1 DEF Of, NamesFollow, Staging, Naming, Publishing, UnnamedFollow
  <2> QED BY Zenon, <1>6, <2>1, <2>2, <2>3, <2>4 DEF Persist
<1>7. CASE LinkStaging(p)
  <2>1. CASE Fail(p)
    <3>1. /\ main[p] = "linkstaging" /\ main'[p] = "drop" /\ setting' = setting
          /\ cursor'[p] = cursor[p] /\ hidden'[p] = hidden[p] /\ registered'[p] = registered[p] /\ swept'[p] = swept[p]
      BY Zenon, <1>7, <2>1 DEF LinkStaging, StagedTypes
    <3> QED BY <2>1, <3>1 DEF Of, NamesFollow, Staging, Naming, Publishing, SyncFollows, UnnamedFollow
  <2>2. CASE ~Fail(p)
    <3>1. /\ main[p] = "linkstaging" /\ main'[p] = "register" /\ setting' = setting
          /\ cursor'[p] = cursor[p] /\ hidden'[p] = hidden[p] \cup {cursor[p]} /\ registered'[p] = registered[p] /\ swept'[p] = swept[p]
      BY Zenon, <1>7, <2>2 DEF LinkStaging, StagedTypes
    <3> QED BY <2>2, <3>1 DEF Of, NamesFollow, Staging, Naming, Publishing, SyncFollows, UnnamedFollow
  <2> QED BY Zenon, <1>7, <2>1, <2>2 DEF LinkStaging
<1>8. CASE Link(p)
  <2>1. CASE Fail(p)
    <3>1. /\ main[p] = "link" /\ main'[p] = "drop" /\ setting' = setting
          /\ cursor'[p] = cursor[p] /\ hidden'[p] = hidden[p] /\ registered'[p] = registered[p] /\ swept'[p] = swept[p]
      BY Zenon, <1>8, <2>1 DEF Link, StagedTypes
    <3> QED BY Zenon, <2>1, <3>1 DEF Of, NamesFollow, Staging, Naming, Publishing, UnnamedFollow
  <2>2. CASE ~Fail(p) /\ setting.tmpfile
    <3>1. /\ main[p] = "link" /\ main'[p] = "verify" /\ setting' = setting
          /\ cursor'[p] = cursor[p] /\ hidden'[p] = hidden[p] /\ registered'[p] = registered[p] /\ swept'[p] = swept[p]
      BY Zenon, <1>8, <2>2 DEF Link, StagedTypes
    <3>2. NamesFollow(p)'
      BY <2>2, <3>1 DEF Of, NamesFollow, Staging, Naming, Publishing, UnnamedFollow
    <3>3. UnnamedFollow(p)'
      BY <2>2, <3>1 DEF Staging, Naming, Publishing, UnnamedFollow
    <3> QED BY Zenon, <3>2, <3>3
  <2>3. CASE ~Fail(p) /\ ~setting.tmpfile
    <3>1. /\ main[p] = "link" /\ main'[p] = "dropname" /\ setting' = setting
          /\ cursor'[p] = cursor[p] /\ hidden'[p] = hidden[p] /\ registered'[p] = registered[p] /\ swept'[p] = swept[p]
      BY Zenon, <1>8, <2>3 DEF Link, StagedTypes
    <3> QED BY <2>3, <3>1 DEF Of, NamesFollow, Staging, Naming, Publishing, UnnamedFollow
  <2> QED BY Zenon, <1>8, <2>1, <2>2, <2>3 DEF Link
<1>9. CASE Own(p)
  <2>1. CASE Fail(p)
    <3>1. /\ main[p] = "own" /\ main'[p] = "drop" /\ setting' = setting
          /\ cursor'[p] = cursor[p] /\ hidden'[p] = hidden[p] /\ registered'[p] = registered[p] /\ swept'[p] = swept[p]
      BY Zenon, <1>9, <2>1 DEF Own, StagedTypes
    <3> QED BY <2>1, <3>1 DEF Of, NamesFollow, Staging, Naming, Publishing, UnnamedFollow
  <2>2. CASE ~Fail(p)
    <3>1. /\ main[p] = "own" /\ main'[p] = "rename" /\ setting' = setting
          /\ cursor'[p] = cursor[p] /\ hidden'[p] = hidden[p] /\ registered'[p] = registered[p] /\ swept'[p] = swept[p]
      BY Zenon, <1>9, <2>2 DEF Own, StagedTypes
    <3> QED BY <2>2, <3>1 DEF Of, NamesFollow, Staging, Naming, Publishing, UnnamedFollow
  <2> QED BY Zenon, <1>9, <2>1, <2>2 DEF Own
<1>10. CASE Rename(p)
  <2>1. CASE Fail(p)
    <3>1. /\ main[p] = "rename" /\ main'[p] = "drop" /\ setting' = setting
          /\ cursor'[p] = cursor[p] /\ hidden'[p] = hidden[p] /\ registered'[p] = registered[p] /\ swept'[p] = swept[p]
      BY Zenon, <1>10, <2>1 DEF Rename, StagedTypes
    <3> QED BY <2>1, <3>1 DEF Of, NamesFollow, Staging, Naming, Publishing, UnnamedFollow, SyncFollows
  <2>2. CASE Goto(p, "link")
    <3>1. /\ main[p] = "rename" /\ main'[p] = "link" /\ setting' = setting
          /\ cursor'[p] = cursor[p] /\ hidden'[p] = hidden[p] /\ registered'[p] = registered[p] /\ swept'[p] = swept[p]
          /\ ~(Publication = "Replace")
      BY Zenon, <1>10, <2>2 DEF Rename, StagedTypes
    <3> QED BY <2>2, <3>1 DEF Of, NamesFollow, Staging, Naming, Publishing, UnnamedFollow, SyncFollows
  <2>3. CASE Goto(p, "dropname")
    <3>1. /\ main[p] = "rename" /\ main'[p] = "dropname" /\ setting' = setting
          /\ cursor'[p] = cursor[p] /\ hidden'[p] = hidden[p] \ {cursor[p]} /\ registered'[p] = registered[p] /\ swept'[p] = swept[p]
      BY Zenon, <1>10, <2>3 DEF Rename, StagedTypes
    <3> QED BY <2>3, <3>1 DEF Of, NamesFollow, Staging, Naming, Publishing, UnnamedFollow, SyncFollows
  <2> QED BY Zenon, <1>10, <2>1, <2>2, <2>3 DEF Rename
<1>11. CASE DropName(p)
  <2>1. /\ main[p] = "dropname" /\ main'[p] = "unregister" /\ setting' = setting
        /\ cursor'[p] = cursor[p] /\ hidden'[p] = hidden[p] \ {cursor[p]} /\ registered'[p] = registered[p] /\ swept'[p] = swept[p]
    BY Zenon, <1>11 DEF DropName, StagedTypes
  <2> QED BY Zenon, <2>1 DEF Of, NamesFollow, Staging, Naming, Publishing, UnnamedFollow
<1>12. CASE Unregister(p)
  <2>1. /\ main[p] = "unregister" /\ main'[p] = "verify" /\ setting' = setting
        /\ cursor'[p] = cursor[p] /\ hidden'[p] = hidden[p] /\ registered'[p] = registered[p] \ {cursor[p]} /\ swept'[p] = swept[p]
    BY Zenon, <1>12 DEF Unregister, StagedTypes
  <2> QED BY Zenon, <2>1 DEF Of, NamesFollow, Staging, Naming, Publishing, UnnamedFollow
<1>13. CASE Verify(p)
  <2>1. CASE Goto(p, "ok")
    <3>1. /\ main[p] = "verify" /\ main'[p] = "ok" /\ setting' = setting
          /\ cursor'[p] = cursor[p] /\ hidden'[p] = hidden[p] /\ registered'[p] = registered[p] /\ swept'[p] = swept[p]
          /\ cursor[p] = Files[p]
      BY Zenon, <1>13, <2>1 DEF Verify, StagedTypes
    <3>2. hidden[p] = {} /\ registered[p] = {}
      BY SMTT(20), <3>1 DEF NamesFollow, Publishing, Naming
    <3>3. NamesFollow(p)' /\ UnnamedFollow(p)'
      BY Zenon, <3>1, <3>2 DEF Of, NamesFollow, UnnamedFollow, Staging, Naming, Publishing
    <3> QED BY <3>3
  <2>2. CASE Goto(p, "persist")
    <3>1. /\ main[p] = "verify" /\ main'[p] = "persist" /\ setting' = setting
          /\ cursor'[p] = cursor[p] + 1 /\ hidden'[p] = hidden[p] /\ registered'[p] = registered[p] /\ swept'[p] = swept[p]
          /\ cursor[p] # Files[p]
      BY Zenon, <1>13, <2>2 DEF Verify, StagedTypes
    <3>2. hidden[p] \cup registered[p] \subseteq cursor[p] + 1..Files[p]
      BY <3>1 DEF NamesFollow, Publishing, Naming
    <3>3. NamesFollow(p)'
      BY <3>1, <3>2 DEF Of, NamesFollow, Staging, Naming, Publishing
    <3>4. UnnamedFollow(p)'
      BY SMTT(20), <3>1, <3>2 DEF UnnamedFollow, Staging, Naming, Publishing
    <3> QED BY Zenon, <3>3, <3>4
  <2>3. CASE Goto(p, "unlink")
    <3>1. /\ main[p] = "verify" /\ main'[p] = "unlink" /\ setting' = setting
          /\ cursor'[p] = cursor[p] /\ hidden'[p] = hidden[p] /\ registered'[p] = registered[p] /\ swept'[p] = swept[p]
      BY Zenon, <1>13, <2>3 DEF Verify, StagedTypes
    <3> QED BY <2>3, <3>1 DEF Of, NamesFollow, Staging, Naming, Publishing, UnnamedFollow
  <2>4. CASE Fail(p)
    <3>1. /\ main[p] = "verify" /\ main'[p] = "drop" /\ setting' = setting
          /\ cursor'[p] = cursor[p] /\ hidden'[p] = hidden[p] /\ registered'[p] = registered[p] /\ swept'[p] = swept[p]
      BY Zenon, <1>13, <2>4 DEF Verify, StagedTypes
    <3> QED BY <2>4, <3>1 DEF Of, NamesFollow, Staging, Naming, Publishing, UnnamedFollow
  <2> QED BY Zenon, <1>13, <2>1, <2>2, <2>3, <2>4 DEF Verify
<1>14. CASE Unlink(p)
  <2>1. /\ main[p] = "unlink" /\ main'[p] = "drop" /\ setting' = setting
        /\ cursor'[p] = cursor[p] /\ hidden'[p] = hidden[p] /\ registered'[p] = registered[p] /\ swept'[p] = swept[p]
    BY Zenon, <1>14 DEF Unlink, StagedTypes
  <2> QED BY <2>1 DEF Of, NamesFollow, Staging, Naming, Publishing, UnnamedFollow
<1>15. CASE DropStaged(p)
  <2>1. /\ main[p] = "drop" /\ main'[p] = "unlist" /\ setting' = setting
        /\ cursor'[p] = cursor[p] /\ hidden'[p] = {} /\ registered'[p] = registered[p] /\ swept'[p] = swept[p]
    BY Zenon, <1>15 DEF DropStaged, StagedTypes
  <2> QED BY <2>1 DEF Of, NamesFollow, Staging, Naming, Publishing, UnnamedFollow
<1>16. CASE Unlist(p)
  <2>1. /\ main[p] = "unlist" /\ main'[p] = "failed" /\ setting' = setting
        /\ cursor'[p] = cursor[p] /\ hidden'[p] = hidden[p] /\ registered'[p] = {} /\ swept'[p] = swept[p]
    BY Zenon, <1>16 DEF Unlist, StagedTypes
  <2> QED BY <2>1 DEF Of, NamesFollow, Staging, Naming, Publishing, UnnamedFollow
<1>17. CASE Interrupt(p)
  <2>1. /\ main'[p] = main[p] /\ setting' = setting
        /\ cursor'[p] = cursor[p] /\ hidden'[p] = hidden[p] /\ registered'[p] = registered[p] /\ swept'[p] = swept[p]
    BY Zenon, <1>17 DEF Interrupt, StagedTypes
  <2> QED BY <2>1 DEF Of, NamesFollow, Staging, Naming, Publishing, UnnamedFollow
<1>18. CASE Sweep(p)
  <2>1. CASE UNCHANGED <<hidden, swept>>
    <3>1. /\ main'[p] = main[p] /\ setting' = setting
          /\ cursor'[p] = cursor[p] /\ hidden'[p] = hidden[p] /\ registered'[p] = registered[p] /\ swept'[p] = swept[p]
      BY Zenon, <1>18, <2>1 DEF Sweep, StagedTypes
    <3> QED BY <2>1, <3>1 DEF Of, NamesFollow, Staging, Naming, Publishing, UnnamedFollow
  <2>2. CASE ~UNCHANGED <<hidden, swept>>
    <3>1. /\ main'[p] = main[p] /\ setting' = setting
          /\ cursor'[p] = cursor[p] /\ hidden'[p] = hidden[p] \ registered[p] /\ registered'[p] = registered[p] /\ swept'[p] = registered[p]
      BY Zenon, <1>18, <2>2 DEF Sweep, StagedTypes
    <3> QED BY <2>2, <3>1 DEF Of, NamesFollow, Staging, Naming, Publishing, UnnamedFollow
  <2> QED BY Zenon, <1>18, <2>1, <2>2 DEF Sweep
<1>19. CASE Exit(p)
  <2>1. /\ main'[p] = main[p] /\ setting' = setting
        /\ cursor'[p] = cursor[p] /\ hidden'[p] = hidden[p] /\ registered'[p] = registered[p] /\ swept'[p] = swept[p]
    BY Zenon, <1>19 DEF Exit, StagedTypes
  <2> QED BY <2>1 DEF Of, NamesFollow, Staging, Naming, Publishing, UnnamedFollow
<1>20. CASE Kill(p)
  <2>1. /\ main'[p] = main[p] /\ setting' = setting
        /\ cursor'[p] = cursor[p] /\ hidden'[p] = hidden[p] /\ registered'[p] = registered[p] /\ swept'[p] = swept[p]
    BY Zenon, <1>20 DEF Kill, StagedTypes
  <2> QED BY <2>1 DEF Of, NamesFollow, Staging, Naming, Publishing, UnnamedFollow
<1> QED BY Zenon, <1>1, <1>2, <1>3, <1>4, <1>5, <1>6, <1>7, <1>8, <1>9, <1>10, <1>11, <1>12, <1>13, <1>14, <1>15, <1>16, <1>17, <1>18, <1>19, <1>20 DEF ProcessStep, Work

\* A process leaves the others alone: of what is said of them only the destinations change,
\* and only to its own file or to nobody's.
LEMMA OthersLeft ==
  ASSUME StagedTypes, NEW p \in Processes, NEW q \in Processes, q # p, ProcessStep(p)
  PROVE  /\ setting' = setting /\ UNCHANGED <<main[q], cursor[q], content[q], placed[q], reported[q], unverified[q]>>
         /\ UNCHANGED <<hidden[q], registered[q], swept[q]>>
<1> USE DEF StagedTypes, Goto, Fail, Placed
<1>1. CASE Inspect(p) \/ Stage(p) \/ Register(p) \/ Staged(p)
  BY <1>1 DEF Inspect, Stage, Register, Staged
<1>2. CASE Sync(p) \/ Persist(p) \/ LinkStaging(p) \/ Link(p)
  BY <1>2 DEF Sync, Persist, LinkStaging, Link
<1>3. CASE Own(p) \/ Rename(p) \/ DropName(p) \/ Unregister(p)
  BY <1>3 DEF Own, Rename, DropName, Unregister
<1>4. CASE Verify(p) \/ Unlink(p) \/ DropStaged(p) \/ Unlist(p)
  BY <1>4 DEF Verify, Unlink, DropStaged, Unlist
<1>5. CASE Interrupt(p) \/ Sweep(p) \/ Exit(p) \/ Kill(p)
  BY <1>5 DEF Interrupt, Sweep, Exit, Kill
<1> QED BY Zenon, <1>1, <1>2, <1>3, <1>4, <1>5 DEF ProcessStep, Work

\* A step of p changes at most one entry, to the file of p or to nothing, and only as the
\* publication allows.
LEMMA EntriesLeft ==
  ASSUME StagedAssumption, StagedTypes, NEW p \in Processes, CountFollows(p), ProcessStep(p),
         NEW d \in Dests, dest'[d] # dest[d]
  PROVE  \/ dest'[d] = p /\ (dest[d] = NoEntry \/ Publication = "Replace")
         \/ /\ dest'[d] = NoEntry /\ Publication = "NoClobber"
            /\ main[p] = "unlink" /\ main'[p] = "drop" /\ cursor[p] = d /\ d \in placed[p]
<1> USE DEF StagedTypes, Goto, Fail, Placed, Publication
<1>1. CASE Link(p)
  BY <1>1 DEF Link
<1>2. CASE Rename(p)
  BY <1>2 DEF Rename
<1>3. CASE Unlink(p)
  BY <1>3 DEF Unlink, Running, CountFollows
<1>4. ASSUME dest' = dest PROVE FALSE
  BY <1>4
<1> HIDE DEF StagedTypes
<1> QED BY <1>1, <1>2, <1>3, <1>4 DEF ProcessStep, Work, Inspect, Stage, Register,
      Staged, Sync, Persist, LinkStaging, Own, DropName,
      Unregister, Verify, DropStaged, Unlist, Interrupt, Sweep,
      Exit, Kill

\* What is said of a process depends on the destinations only through its own files.
LEMMA ProcessFrame ==
  ASSUME NEW q \in Processes, SyncFollows(q), CountFollows(q), NamesFollow(q),
         UnnamedFollow(q), setting' = setting, UNCHANGED <<main[q], cursor[q], content[q], placed[q], reported[q], unverified[q]>>,
         UNCHANGED <<hidden[q], registered[q], swept[q]>>,
         \A d \in Dests : dest'[d] = q => dest[d] = q
  PROVE  SyncFollows(q)' /\ CountFollows(q)' /\ NamesFollow(q)' /\ UnnamedFollow(q)'
<1> USE DEF Of, Publication, Staging, Naming, Publishing
<1>1. SyncFollows(q)'
  BY Zenon DEF SyncFollows, AllSynced
<1>2. CountFollows(q)'
  BY Zenon DEF CountFollows
<1>3. NamesFollow(q)'
  BY Zenon DEF NamesFollow
<1>4. UnnamedFollow(q)'
  BY Zenon DEF UnnamedFollow
<1> QED BY Zenon, <1>1, <1>2, <1>3, <1>4

LEMMA StagedStart ==
  ASSUME StagedAssumption, StagedInit
  PROVE  StagedInv
<1> USE DEF StagedInit
<1>1. StagedTypes
  <2>1. ASSUME NEW p \in Processes PROVE Files[p] \in Nat /\ 1 <= Files[p]
    <3>1. Files[p] \in Nat \ {0}
      BY Zenon DEF StagedAssumption
    <3> QED BY <3>1
  <2>2. /\ dest \in [Dests -> Processes \cup {NoEntry, "old", "other"}]
        /\ main \in [Processes -> Steps]
    BY DEF Steps
  <2>3. cursor \in [Processes -> Nat] /\ \A p \in Processes : cursor[p] \in Of(p)
    BY <2>1 DEF Of
  <2>4. content \in [Processes -> [Dests -> {"none", "staged", "synced"}]]
    OBVIOUS
  <2> QED BY <2>2, <2>3, <2>4 DEF StagedTypes
<1>2. ASSUME NEW p \in Processes
      PROVE  SyncFollows(p) /\ CountFollows(p) /\ NamesFollow(p) /\ UnnamedFollow(p)
  <2> USE DEF StagedAssumption, Of, Staging, Naming, Publishing
  <2>1. SyncFollows(p)
    BY DEF SyncFollows
  <2>2. CountFollows(p)
    BY DEF CountFollows
  <2>3. NamesFollow(p)
    BY DEF NamesFollow
  <2>4. UnnamedFollow(p)
    BY DEF UnnamedFollow
  <2> QED BY <2>1, <2>2, <2>3, <2>4
<1> QED BY <1>1, <1>2 DEF StagedInv

LEMMA StagedStep ==
  ASSUME StagedAssumption, StagedInv, [StagedNext]_stagedVars
  PROVE  StagedInv'
<1> DEFINE Follows(p) == SyncFollows(p) /\ CountFollows(p) /\ NamesFollow(p) /\ UnnamedFollow(p)
<1>1. StagedTypes /\ \A p \in Processes : Follows(p)
  BY DEF StagedInv
<1>2. ASSUME NEW p \in Processes, ProcessStep(p) PROVE StagedInv'
  <2>1. StagedTypes'
    BY <1>1, <1>2, StagedTyped
  <2>2. Follows(p)'
    BY <1>1, <1>2, SyncKept, CountKept, NamesKept
  <2>3. ASSUME NEW q \in Processes, q # p PROVE Follows(q)'
    <3>1. \A d \in Dests : dest'[d] = q => dest[d] = q
      BY <1>1, <1>2, <2>3, EntriesLeft DEF StagedAssumption
    <3> QED BY <1>1, <1>2, <2>3, <3>1, OthersLeft, ProcessFrame
  <2> QED BY <2>1, <2>2, <2>3 DEF StagedInv
<1>3. ASSUME NEW d \in Dests, Create(d) \/ Overwrite(d) PROVE StagedInv'
  <2>1. dest' = [dest EXCEPT ![d] = "old"] \/ dest' = [dest EXCEPT ![d] = "other"]
    BY <1>3 DEF Create, Overwrite
  <2>2. UNCHANGED <<placed, hidden, setting, content, registered, main, cursor, reported, unverified, handler, swept>>
    BY <1>3 DEF Create, Overwrite
  <2>3. StagedTypes'
    <3>1. dest' \in [Dests -> Processes \cup {NoEntry, "old", "other"}]
      BY <1>1, <2>1 DEF StagedTypes
    <3> QED BY <1>1, <2>2, <3>1 DEF StagedTypes, Of
  <2>4. ASSUME NEW q \in Processes PROVE Follows(q)'
    <3>1. \A e \in Dests : dest'[e] = q => dest[e] = q
      BY <1>1, <2>1 DEF StagedTypes, StagedAssumption
    <3> QED BY <1>1, <2>2, <3>1, ProcessFrame
  <2> QED BY <2>3, <2>4 DEF StagedInv
<1>4. CASE UNCHANGED stagedVars
  <2>1. StagedTypes'
    BY <1>1, <1>4 DEF stagedVars, StagedTypes, Of
  <2>2. ASSUME NEW q \in Processes PROVE Follows(q)'
    BY <1>1, <1>4, ProcessFrame DEF stagedVars
  <2> QED BY <2>1, <2>2 DEF StagedInv
<1> QED BY <1>2, <1>3, <1>4 DEF StagedNext, ProcessStep

\* A destination that holds a published file holds a synced one of a command whose files were
\* all synced; a command that ends counts what it published and leaves no staging name; a forced
\* exit leaves none that was listed: for any number of processes racing for the same
\* destinations, interrupted or killed at any step of StagedFile::stage_mode and persist.
THEOREM PublishedTheorem ==
  ASSUME StagedAssumption
  PROVE  StagedSpec => []PublishedComplete
<1>1. StagedInit => StagedInv
  BY StagedStart
<1>2. StagedInv /\ [StagedNext]_stagedVars => StagedInv'
  BY StagedStep
<1>3. StagedInv => PublishedComplete
  <2> SUFFICES ASSUME StagedInv PROVE PublishedComplete
    OBVIOUS
  <2>1. \A p \in Processes : SyncFollows(p) /\ CountFollows(p) /\ NamesFollow(p)
    BY Zenon DEF StagedInv
  <2>2. FilesSynced
    BY <2>1 DEF FilesSynced, SyncFollows, CountFollows, AllSynced
  <2>3. ReportHonest
    BY <2>1 DEF ReportHonest, CountFollows
  <2>4. NoLeftovers
    BY Zenon, <2>1 DEF NoLeftovers, NamesFollow
  <2> QED BY <2>2, <2>3, <2>4 DEF PublishedComplete
<1> QED BY <1>1, <1>2, <1>3, PTL DEF StagedSpec

\* Publication never loses a destination that exists (rename_noreplace, linkat and
\* verify_published): without clobbering, a process removes only an entry at a name that its own
\* publication created, and a replacement puts the new file in its place in one step.
THEOREM DestinationTheorem ==
  ASSUME StagedAssumption
  PROVE  StagedSpec => DestinationKept
<1>1. StagedInit => StagedInv
  BY StagedStart
<1>2. StagedInv /\ [StagedNext]_stagedVars => StagedInv'
  BY StagedStep
<1>3. StagedInv /\ [StagedNext]_stagedVars => [KeepsDestination]_stagedVars
  <2> SUFFICES ASSUME StagedInv, StagedNext PROVE KeepsDestination
    OBVIOUS
  <2>1. ASSUME NEW p \in Processes, ProcessStep(p) PROVE KeepsDestination
    BY <2>1, EntriesLeft DEF StagedInv, KeepsDestination
  <2>2. ASSUME NEW d \in Dests, Create(d) \/ Overwrite(d) PROVE KeepsDestination
    <3>1. dest \in [Dests -> Processes \cup {NoEntry, "old", "other"}]
      BY DEF StagedInv, StagedTypes
    <3> QED BY <2>2, <3>1 DEF Create, Overwrite, KeepsDestination
  <2> QED BY <2>1, <2>2 DEF StagedNext, ProcessStep
<1> QED BY <1>1, <1>2, <1>3, PTL DEF StagedSpec, DestinationKept

-----------------------------------------------------------------------------
(* NeighborExchange. *)

\* The inductive step of RequestInv, and that the step sends and waits as RequestAllowed says.
LEMMA RequestStep ==
  ASSUME NeighborExchangeAssumption, RequestInv,
         [ExchangeNext]_exchangeVars
  PROVE  RequestInv' /\ (RequestAllowed \/ UNCHANGED exchangeVars)
<1> USE DEF NeighborExchangeAssumption, RequestInv, DiscoveryTypes,
            RequestAllowed, Exchanging, TimeLeft
<1>1. CASE DiscoveryTick
  BY <1>1 DEF DiscoveryTick
<1>2. CASE Arm
  BY <1>2 DEF Arm
<1>3. CASE Ready
  <2>1. ASSUME NEW o, discovery' = [discovery EXCEPT !.pc = "shutdown", !.outcome = o]
        PROVE  RequestInv' /\ RequestAllowed
    BY <1>3, <2>1 DEF Ready
  <2>2. ASSUME NEW e, NEW q, discovery' = [discovery EXCEPT !.pc = "attempt", !.evidence = e, !.queue = q]
        PROVE  RequestInv' /\ RequestAllowed
    BY <1>3, <2>2 DEF Ready
  <2> QED
    BY <1>3, <2>1, <2>2 DEF Ready
<1>4. CASE Attempt
  <2>1. CASE discovery.attempts < max_attempts /\ TimeLeft
    <3> DEFINE d == Least(time + attempt_timeout, discovery.deadline)
    <3>1. discovery' = [discovery EXCEPT !.pc = "send", !.attempt_deadline = d] /\ d \in Nat
      BY <1>4, <2>1 DEF Attempt, Least
    <3> HIDE DEF d
    <3>2. discovery.attempts = 0 \/ time >= discovery.attempt_deadline
      BY <1>4, <2>1 DEF Attempt
    <3> QED
      BY <1>4, <2>1, <3>1, <3>2 DEF Attempt
  <2>2. CASE ~(discovery.attempts < max_attempts /\ TimeLeft)
    BY <1>4, <2>2 DEF Attempt
  <2> QED
    BY <2>1, <2>2
<1>5. CASE Send
  BY <1>5 DEF Send
<1>6. CASE SendReturns
  BY <1>6 DEF SendReturns
<1>7. CASE WaitOver
  <2>1. time >= discovery.attempt_deadline \/ ~TimeLeft
    BY <1>7 DEF WaitOver, Waiting
  <2>2. CASE discovery' = [discovery EXCEPT !.pc = "attempt"]
    BY <1>7, <2>1, <2>2 DEF WaitOver
  <2>3. ASSUME NEW q, NEW e, discovery' = [discovery EXCEPT !.pc = "attempt", !.queue = q, !.evidence = e]
        PROVE  RequestInv' /\ RequestAllowed
    BY <1>7, <2>1, <2>3 DEF WaitOver
  <2> QED
    BY <1>7, <2>2, <2>3 DEF WaitOver
<1>8. CASE Receive
  BY <1>8 DEF Receive
<1>9. CASE Shutdown
  BY <1>9 DEF Shutdown
<1>10. CASE ReceiveFails
  BY <1>10 DEF ReceiveFails
<1>11. CASE CancelDiscovery
  BY <1>11 DEF CancelDiscovery
<1>12. ASSUME NEW reply \in BOOLEAN, NEW n \in Lengths, NEW stamp \in {time, NoStamp},
              Arrive(reply, n, stamp)
       PROVE  RequestInv' /\ RequestAllowed
  BY <1>12 DEF Arrive
<1>13. CASE UNCHANGED exchangeVars
  BY <1>13 DEF exchangeVars
<1> QED
  BY <1>1, <1>2, <1>3, <1>4, <1>5, <1>6, <1>7, <1>8, <1>9, <1>10, <1>11, <1>12, <1>13
  DEF ExchangeNext, DiscoveryWork

\* exchange sends at most max_attempts requests, none after the caller's deadline, and opens the
\* window of the next only when that of the last has closed.
THEOREM RequestsTheorem ==
  ASSUME NeighborExchangeAssumption
  PROVE  ExchangeSpec => RequestsBounded
<1>1. ExchangeInit => RequestInv
  BY DEF ExchangeInit, RequestInv, DiscoveryTypes, Exchanging,
         NeighborExchangeAssumption
<1>2. RequestInv /\ [ExchangeNext]_exchangeVars => RequestInv'
  BY RequestStep
<1>3. RequestInv /\ [ExchangeNext]_exchangeVars
        => [RequestAllowed]_exchangeVars
  BY RequestStep
<1> QED
  BY <1>1, <1>2, <1>3, PTL DEF ExchangeSpec, RequestsBounded

LEMMA LeastNatural ==
  ASSUME NEW T, T \subseteq Nat, T # {}
  PROVE  \E x \in T : \A y \in T : x <= y
<1>1. PICK x \in T : \A y \in T : ~(<<y, x>> \in OpToRel(<, Nat))
  BY Zenon, NatLessThanWellFounded, WFMin
<1>2. \A y \in T : ~(y < x)
  BY Zenon, <1>1 DEF OpToRel
<1> QED BY <1>2

\* Induction over an initial part of the naturals, for a set of numbers.
LEMMA Induction ==
  ASSUME NEW L \in Nat, NEW A, A \subseteq 0 .. L, 0 \in A, \A m \in 1 .. L : m - 1 \in A => m \in A
  PROVE  A = 0 .. L
<1> DEFINE T == (0 .. L) \ A
<1>1. SUFFICES ASSUME T # {} PROVE FALSE
  OBVIOUS
<1>2. T \subseteq Nat
  OBVIOUS
<1> HIDE DEF T
<1>3. PICK m \in T : \A y \in T : m <= y
  BY Zenon, <1>1, <1>2, LeastNatural
<1> USE DEF T
<1>4. m \in 1 .. L /\ m - 1 \in 0 .. L /\ m \notin A
  BY <1>3
<1>5. m - 1 \in A
  BY <1>3, <1>4
<1> QED BY Zenon, <1>4, <1>5

\* A function of an initial part of the naturals is built step by step: step[n] maps the value
\* at n - 1 to the value at n.
Iterates(f, S, base, L, step) ==
  f \in [0 .. L -> S] /\ f[0] = base /\ \A n \in 1 .. L : f[n] = step[n][f[n - 1]]

LEMMA IteratesExist ==
  ASSUME NEW S, NEW base \in S, NEW L \in Nat, NEW step \in [1 .. L -> [S -> S]]
  PROVE  \E f : Iterates(f, S, base, L, step)
<1> DEFINE Has(m) == \E f : Iterates(f, S, base, m, step)
           A == {m \in 0 .. L : Has(m)}
<1>1. Has(0)
  <2>1. Iterates([n \in 0 .. 0 |-> base], S, base, 0, step)
    BY DEF Iterates
  <2> QED BY Zenon, <2>1
<1>2. ASSUME NEW m \in 1 .. L, Has(m - 1) PROVE Has(m)
  <2>1. PICK f : Iterates(f, S, base, m - 1, step)
    BY Zenon, <1>2
  <2> DEFINE b == step[m][f[m - 1]]
             g == [n \in 0 .. m |-> IF n = m THEN b ELSE f[n]]
  <2>2. m \in Nat /\ m - 1 \in 0 .. m - 1
    OBVIOUS
  <2>3. b \in S
    <3>1. f[m - 1] \in S
      BY Zenon, <2>1, <2>2 DEF Iterates
    <3> QED BY Zenon, <3>1
  <2>4. g \in [0 .. m -> S]
    <3>1. ASSUME NEW n \in 0 .. m PROVE (IF n = m THEN b ELSE f[n]) \in S
      <4> HIDE DEF b
      <4> QED BY <2>1, <2>2, <2>3 DEF Iterates
    <3> QED BY Zenon, <3>1
  <2>5. g[0] = base /\ g[m] = b /\ \A n \in 0 .. m - 1 : g[n] = f[n]
    <3> HIDE DEF b
    <3> QED BY <2>1, <2>2 DEF Iterates
  <2>6. ASSUME NEW n \in 1 .. m PROVE g[n] = step[n][g[n - 1]]
    <3> HIDE DEF g
    <3>1. CASE n = m
      BY Zenon, <3>1, <2>5, <2>2
    <3>2. CASE n # m
      <4>1. n \in 1 .. m - 1 /\ n \in 0 .. m - 1 /\ n - 1 \in 0 .. m - 1
        BY <3>2, <2>2
      <4> QED BY Zenon, <4>1, <2>5, <2>1 DEF Iterates
    <3> QED BY Zenon, <3>1, <3>2
  <2> HIDE DEF g
  <2>7. Iterates(g, S, base, m, step)
    BY Zenon, <2>4, <2>5, <2>6 DEF Iterates
  <2> QED BY Zenon, <2>7
<1> HIDE DEF Has
<1>3. \A m \in 0 .. L : Has(m)
  <2>1. 0 \in A /\ \A m \in 1 .. L : m - 1 \in A => m \in A
    BY <1>1, <1>2
  <2>2. A = 0 .. L
    <3> HIDE DEF A
    <3> QED BY Zenon, <2>1, Induction DEF A
  <2> QED BY Zenon, <2>2
<1>4. L \in 0 .. L
  OBVIOUS
<1>5. Has(L)
  BY Zenon, <1>3, <1>4
<1> QED BY Zenon, <1>5 DEF Has

\* RunningLength adds the frames up one by one.
LEMMA RunningLengths ==
  ASSUME NeighborExchangeAssumption, NEW frames \in Seq(Frame)
  PROVE  LET r == RunningLength(frames) IN
           /\ r \in [0 .. Len(frames) -> Nat] /\ r[0] = 0
           /\ \A n \in 1 .. Len(frames) : r[n] = r[n - 1] + frames[n].length
<1> DEFINE L == Len(frames)
           Eq(g) == g = [n \in 0 .. L |-> IF n = 0 THEN 0 ELSE g[n - 1] + frames[n].length]
           step == [n \in 1 .. L |-> [x \in Nat |-> x + frames[n].length]]
           r == RunningLength(frames)
           A == {n \in 0 .. L : r[n] \in Nat}
<1>1. L \in Nat /\ \A n \in 1 .. L : frames[n].length \in Nat
  <2>1. L \in Nat /\ \A n \in 1 .. L : frames[n] \in Frame
    OBVIOUS
  <2> QED BY <2>1 DEF NeighborExchangeAssumption, Frame
<1>2. step \in [1 .. L -> [Nat -> Nat]]
  BY <1>1
<1>3. PICK f : Iterates(f, Nat, 0, L, step)
  <2> HIDE DEF step, L
  <2> QED BY <1>1, <1>2, IteratesExist
<1>4. Eq(f)
  <2>1. \A n \in 1 .. L : n - 1 \in 0 .. L
    BY <1>1
  <2>2. \A n \in 1 .. L : f[n] = f[n - 1] + frames[n].length
    BY Zenon, <1>3, <2>1 DEF Iterates
  <2> HIDE DEF step, L
  <2> QED BY <1>1, <1>3, <2>2 DEF Iterates
<1>5. r = CHOOSE g : Eq(g)
  BY Zenon DEF RunningLength
<1>6. Eq(r)
  <2> HIDE DEF r, Eq
  <2> QED BY Zenon, <1>4, <1>5
<1> HIDE DEF r, L
<1>7. r[0] = 0 /\ \A n \in 1 .. L : r[n] = r[n - 1] + frames[n].length
  <2>1. \A n \in 0 .. L : r[n] = IF n = 0 THEN 0 ELSE r[n - 1] + frames[n].length
    BY Zenon, <1>6
  <2> QED BY <1>1, <2>1
<1>8. A = 0 .. L
  <2>1. 0 \in A
    BY <1>1, <1>7
  <2>2. ASSUME NEW n \in 1 .. L, n - 1 \in A PROVE n \in A
    <3>1. r[n] = r[n - 1] + frames[n].length /\ r[n - 1] \in Nat /\ frames[n].length \in Nat
      BY Zenon, <1>1, <1>7, <2>2
    <3>2. r[n] \in Nat /\ n \in 0 .. L
      BY <1>1, <3>1
    <3> QED BY Zenon, <3>2
  <2> HIDE DEF A
  <2> QED BY Zenon, <1>1, <2>1, <2>2, Induction DEF A
<1>9. r \in [0 .. L -> Nat]
  BY Zenon, <1>6, <1>8
<1> QED BY Zenon, <1>7, <1>9 DEF r, L

\* One frame more adds its length.
LEMMA LengthAppend ==
  ASSUME NeighborExchangeAssumption, NEW frames \in Seq(Frame), NEW f \in Frame
  PROVE  /\ Length(frames) \in Nat /\ Length(<<>>) = 0
         /\ Length(Append(frames, f)) = Length(frames) + f.length
<1> DEFINE L == Len(frames)
           more == Append(frames, f)
           r == RunningLength(frames)
           s == RunningLength(more)
           A == {n \in 0 .. L : s[n] = r[n]}
<1>1. more \in Seq(Frame) /\ Len(more) = L + 1 /\ L \in Nat /\ more[L + 1] = f
      /\ \A n \in 1 .. L : more[n] = frames[n]
  OBVIOUS
<1>2. r \in [0 .. L -> Nat] /\ r[0] = 0
      /\ \A n \in 1 .. L : r[n] = r[n - 1] + frames[n].length
  BY Zenon, RunningLengths
<1>3. s \in [0 .. Len(more) -> Nat] /\ s[0] = 0
      /\ \A n \in 1 .. Len(more) : s[n] = s[n - 1] + more[n].length
  <2> HIDE DEF more
  <2> QED BY Zenon, <1>1, RunningLengths
<1>4. RunningLength(<<>>)[0] = 0 /\ Len(<<>>) = 0
  <2>1. <<>> \in Seq(Frame) /\ Len(<<>>) = 0
    OBVIOUS
  <2> QED BY Zenon, <2>1, RunningLengths
<1> HIDE DEF L, more, r, s
<1>5. A = 0 .. L
  <2>1. 0 \in A
    BY <1>1, <1>2, <1>3
  <2>2. ASSUME NEW n \in 1 .. L, n - 1 \in A PROVE n \in A
    <3>1. n \in 1 .. Len(more) /\ n \in 0 .. L
      BY <1>1
    <3>2. s[n] = s[n - 1] + more[n].length /\ r[n] = r[n - 1] + frames[n].length
      BY Zenon, <1>2, <1>3, <3>1
    <3> QED BY Zenon, <1>1, <2>2, <3>1, <3>2
  <2> HIDE DEF A
  <2> QED BY Zenon, <1>1, <2>1, <2>2, Induction DEF A
<1>6. L \in 0 .. L /\ L + 1 \in 1 .. Len(more) /\ (L + 1) - 1 = L
  BY <1>1
<1>7. s[L] = r[L] /\ r[L] \in Nat
  BY Zenon, <1>2, <1>5, <1>6
<1>8. s[L + 1] = s[(L + 1) - 1] + more[L + 1].length
  BY Zenon, <1>3, <1>6
<1>9. s[L + 1] = r[L] + f.length
  BY Zenon, <1>1, <1>6, <1>7, <1>8
<1>10. Length(frames) = r[L] /\ Length(more) = s[L + 1]
  BY Zenon, <1>1 DEF Length, r, s, L
<1>11. Length(<<>>) = 0
  BY Zenon, <1>4 DEF Length
<1> QED BY Zenon, <1>7, <1>9, <1>10, <1>11 DEF more

\* r is what became of e once k frames more were offered to it: it is within its limits, and
\* truncated if e was or if a frame is missing.
Grown(e, k, r) ==
  /\ r \in Evidence /\ InBudget(r) /\ Len(r.frames) <= Len(e.frames) + k
  /\ r.truncated <=> (e.truncated \/ Len(r.frames) < Len(e.frames) + k)

LEMMA RetainGrown ==
  ASSUME NeighborExchangeAssumption, NEW e \in Evidence, InBudget(e), NEW f \in Frame
  PROVE  Grown(e, 1, Retain(e, f))
<1> DEFINE r == Retain(e, f)
<1>1. e.frames \in Seq(Frame) /\ e.truncated \in BOOLEAN /\ Len(e.frames) \in Nat
  BY DEF Evidence
<1>2. CASE OverBudget(e, f)
  <2>1. r = [e EXCEPT !.truncated = TRUE]
    BY Zenon, <1>2 DEF Retain
  <2>2. r \in Evidence /\ r.frames = e.frames /\ r.truncated
    BY <2>1 DEF Evidence
  <2> HIDE DEF r
  <2>3. InBudget(r)
    BY Zenon, <2>2 DEF InBudget
  <2> QED BY <1>1, <2>2, <2>3 DEF Grown, r
<1>3. CASE ~OverBudget(e, f)
  <2>1. r = [e EXCEPT !.frames = Append(e.frames, f)]
    BY Zenon, <1>3 DEF Retain
  <2>2. r \in Evidence /\ r.frames = Append(e.frames, f) /\ r.truncated = e.truncated
        /\ Len(r.frames) = Len(e.frames) + 1
    BY <1>1, <2>1 DEF Evidence
  <2> HIDE DEF r
  <2>3. Length(r.frames) = Length(e.frames) + f.length /\ Length(e.frames) \in Nat
    BY Zenon, <1>1, <2>2, LengthAppend
  <2>4. f.length \in Nat /\ max_frames \in Nat /\ max_bytes \in Nat
    BY DEF Frame, NeighborExchangeAssumption
  <2>5. InBudget(r)
    BY <1>1, <1>3, <2>2, <2>3, <2>4 DEF InBudget, OverBudget
  <2> QED BY <1>1, <2>2, <2>5 DEF Grown, r
<1> QED BY Zenon, <1>2, <1>3

\* A matching frame is kept, whatever must go for it, unless it is too long alone.
LEMMA RetainMatchingGrown ==
  ASSUME NeighborExchangeAssumption, NEW e \in Evidence, InBudget(e), NEW f \in Frame
  PROVE  LET r == RetainMatching(e, f) IN
           /\ Grown(e, 1, r)
           /\ f.length > max_bytes \/ \E i \in 1 .. Len(r.frames) : r.frames[i] = f
<1> DEFINE L == Len(e.frames)
           rest(x) == SubSeq(e.frames, x + 1, L)
           cut(x) == [e EXCEPT !.frames = rest(x)]
           cuts == {x \in 0 .. L : ~OverBudget(cut(x), f)}
           n == CHOOSE x \in cuts : \A y \in cuts : x <= y
           r == RetainMatching(e, f)
<1>1. e.frames \in Seq(Frame) /\ e.truncated \in BOOLEAN /\ L \in Nat
  BY DEF Evidence
<1>2. f.length \in Nat /\ max_frames \in Nat \ {0} /\ max_bytes \in Nat
  BY DEF Frame, NeighborExchangeAssumption
<1>3. r = IF cuts = {} THEN [frames |-> <<>>, truncated |-> TRUE]
          ELSE [frames |-> Append(rest(n), f), truncated |-> e.truncated \/ n > 0]
  BY Zenon DEF RetainMatching
<1>4. ASSUME NEW x \in 0 .. L
      PROVE  cut(x).frames = rest(x) /\ rest(x) \in Seq(Frame) /\ Len(rest(x)) = L - x
  <2>1. cut(x).frames = rest(x)
    <3> HIDE DEF rest
    <3> QED BY DEF Evidence
  <2>2. rest(x) \in Seq(Frame) /\ Len(rest(x)) = L - x
    <3> DEFINE s == e.frames
    <3>1. s \in Seq(Frame) /\ L = Len(s) /\ L \in Nat
      BY Zenon, <1>1
    <3> HIDE DEF s
    <3>2. SubSeq(s, x + 1, L) \in Seq(Frame) /\ Len(SubSeq(s, x + 1, L)) = L - x
      BY <3>1
    <3> QED BY Zenon, <3>2 DEF s
  <2> QED BY Zenon, <2>1, <2>2
<1>5. CASE cuts = {}
  <2>1. r = [frames |-> <<>>, truncated |-> TRUE]
    BY Zenon, <1>3, <1>5
  <2>2. r \in Evidence /\ r.frames = <<>> /\ r.truncated /\ Len(r.frames) = 0
    BY <2>1 DEF Evidence
  <2>3. Length(<<>>) = 0
    BY Zenon, <1>1, LengthAppend
  <2>4. Grown(e, 1, r)
    <3> HIDE DEF r, L
    <3>1. InBudget(r)
      BY <1>2, <2>2, <2>3 DEF InBudget
    <3> QED BY <1>1, <2>2, <3>1 DEF Grown, L
  <2>5. f.length > max_bytes
    <3>1. L \in 0 .. L
      BY <1>1
    <3>2. OverBudget(cut(L), f)
      BY Zenon, <1>5, <3>1
    <3>3. Len(rest(L)) = 0 /\ rest(L) \in Seq(Frame) /\ cut(L).frames = rest(L)
      BY <1>1, <1>4, <3>1
    <3> HIDE DEF rest, cut
    <3>4. rest(L) = <<>>
      BY <3>3
    <3> QED BY <1>2, <2>3, <3>2, <3>3, <3>4 DEF OverBudget
  <2> QED BY Zenon, <2>4, <2>5
<1>6. CASE cuts # {}
  <2>1. n \in cuts
    <3>1. cuts \subseteq Nat
      BY <1>1
    <3> HIDE DEF cuts
    <3>2. \E x \in cuts : \A y \in cuts : x <= y
      BY Zenon, <1>6, <3>1, LeastNatural
    <3> QED BY Zenon, <3>2
  <2>2. n \in 0 .. L /\ ~OverBudget(cut(n), f)
    BY Zenon, <2>1
  <2>3. r = [frames |-> Append(rest(n), f), truncated |-> e.truncated \/ n > 0]
    BY Zenon, <1>3, <1>6
  <2>4. rest(n) \in Seq(Frame) /\ Len(rest(n)) = L - n /\ cut(n).frames = rest(n)
    BY Zenon, <1>4, <2>2
  <2> HIDE DEF n, rest, cut, r
  <2>5. r \in Evidence /\ Len(r.frames) = L - n + 1 /\ r.frames[L - n + 1] = f
        /\ r.frames = Append(rest(n), f)
    BY <1>1, <2>2, <2>3, <2>4 DEF Evidence
  <2>6. Length(r.frames) = Length(rest(n)) + f.length /\ Length(rest(n)) \in Nat
    BY Zenon, <2>4, <2>5, LengthAppend
  <2>7. InBudget(r)
    <3>1. ~(L - n >= max_frames) /\ ~(Length(rest(n)) + f.length > max_bytes)
      BY Zenon, <2>2, <2>4 DEF OverBudget
    <3>2. Length(r.frames) <= max_bytes
      BY <1>2, <2>6, <3>1
    <3>3. Len(r.frames) <= max_frames
      <4> HIDE DEF L
      <4> QED BY <1>1, <1>2, <2>2, <2>5, <3>1
    <3> QED BY Zenon, <3>2, <3>3 DEF InBudget
  <2>8. r.truncated = (e.truncated \/ n > 0)
    BY Zenon, <2>3
  <2>9. Grown(e, 1, r)
    <3>1. (n > 0) <=> Len(r.frames) < L + 1
      BY <1>1, <2>2, <2>5
    <3>2. Len(r.frames) <= L + 1
      BY <1>1, <2>2, <2>5
    <3> QED BY Zenon, <2>5, <2>7, <2>8, <3>1, <3>2 DEF Grown
  <2>10. L - n + 1 \in 1 .. Len(r.frames)
    BY <1>1, <2>2, <2>5
  <2> QED BY Zenon, <2>5, <2>9, <2>10 DEF r
<1> QED BY Zenon, <1>5, <1>6

\* drain_pre_request offers one frame after the other.
LEMMA RetainAllGrown ==
  ASSUME NeighborExchangeAssumption, NEW e \in Evidence, InBudget(e), NEW frames \in Seq(Frame)
  PROVE  Grown(e, Len(frames), RetainAll(e, frames))
<1> DEFINE L == Len(frames)
           Fits == {x \in Evidence : InBudget(x)}
           Eq(g) == g = [n \in 0 .. L |-> IF n = 0 THEN e ELSE Retain(g[n - 1], frames[n])]
           step == [n \in 1 .. L |-> [x \in Fits |-> Retain(x, frames[n])]]
           r == Retained(e, frames)
           A == {n \in 0 .. L : Grown(e, n, r[n])}
<1>1. L \in Nat /\ \A n \in 1 .. L : frames[n] \in Frame
  OBVIOUS
<1>2. \A x \in Fits, n \in 1 .. L : Grown(x, 1, Retain(x, frames[n]))
  BY Zenon, <1>1, RetainGrown
<1>3. step \in [1 .. L -> [Fits -> Fits]]
  <2>1. \A x \in Fits, n \in 1 .. L : Retain(x, frames[n]) \in Fits
    BY Zenon, <1>2 DEF Grown
  <2> HIDE DEF Fits, L
  <2> QED BY Zenon, <2>1
<1>4. PICK f : Iterates(f, Fits, e, L, step)
  <2>1. e \in Fits
    BY Zenon
  <2> HIDE DEF step, L, Fits
  <2> QED BY Zenon, <1>1, <1>3, <2>1, IteratesExist
<1>5. Eq(f)
  <2>1. \A n \in 1 .. L : n - 1 \in 0 .. L
    BY <1>1
  <2>2. \A n \in 1 .. L : f[n] = Retain(f[n - 1], frames[n])
    <3> HIDE DEF Fits, L
    <3> QED BY Zenon, <1>4, <2>1 DEF Iterates
  <2>3. \A n \in 0 .. L : n = 0 \/ n \in 1 .. L
    BY <1>1
  <2>4. \A n \in 0 .. L : f[n] = IF n = 0 THEN e ELSE Retain(f[n - 1], frames[n])
    BY Zenon, <1>4, <2>2, <2>3 DEF Iterates
  <2>5. f = [n \in 0 .. L |-> f[n]]
    BY Zenon, <1>4 DEF Iterates
  <2> HIDE DEF step, L
  <2> QED BY Zenon, <2>4, <2>5
<1>6. r = CHOOSE g : Eq(g)
  BY Zenon DEF Retained
<1>7. Eq(r)
  <2> HIDE DEF r, Eq
  <2> QED BY Zenon, <1>5, <1>6
<1> HIDE DEF r, L
<1>8. r[0] = e /\ \A n \in 1 .. L : r[n] = Retain(r[n - 1], frames[n])
  <2>1. \A n \in 0 .. L : r[n] = IF n = 0 THEN e ELSE Retain(r[n - 1], frames[n])
    BY Zenon, <1>7
  <2>2. 0 \in 0 .. L /\ \A n \in 1 .. L : n \in 0 .. L /\ n # 0
    BY <1>1
  <2> QED BY Zenon, <2>1, <2>2
<1>9. A = 0 .. L
  <2>1. 0 \in A
    <3>1. Len(e.frames) \in Nat /\ 0 \in 0 .. L
      BY <1>1 DEF Evidence
    <3>2. Grown(e, 0, e)
      BY <3>1 DEF Grown
    <3> QED BY Zenon, <1>8, <3>1, <3>2
  <2>2. ASSUME NEW n \in 1 .. L, n - 1 \in A PROVE n \in A
    <3> DEFINE x == r[n - 1]
               y == r[n]
    <3>1. Grown(e, n - 1, x)
      BY Zenon, <2>2
    <3>2. Grown(x, 1, y)
      <4>1. x \in Fits
        BY Zenon, <3>1 DEF Grown
      <4> QED BY Zenon, <1>2, <1>8, <4>1
    <3> HIDE DEF x, y
    <3>3. /\ e.truncated \in BOOLEAN /\ Len(e.frames) \in Nat /\ Len(x.frames) \in Nat
          /\ Len(y.frames) \in Nat /\ n \in Nat /\ n \in 0 .. L
      BY <1>1, <3>1, <3>2 DEF Evidence, Grown
    <3>4. Len(y.frames) <= Len(e.frames) + n
      BY <3>1, <3>2, <3>3 DEF Grown
    <3>5. Len(y.frames) < Len(e.frames) + n
            <=> (Len(x.frames) < Len(e.frames) + (n - 1) \/ Len(y.frames) < Len(x.frames) + 1)
      BY <3>1, <3>2, <3>3 DEF Grown
    <3>6. Grown(e, n, y)
      BY Zenon, <3>1, <3>2, <3>4, <3>5 DEF Grown
    <3> QED BY Zenon, <3>3, <3>6 DEF y
  <2> HIDE DEF A
  <2> QED BY Zenon, <1>1, <2>1, <2>2, Induction DEF A
<1>10. L \in 0 .. L
  BY <1>1
<1> QED BY Zenon, <1>9, <1>10 DEF RetainAll, r, L

\* The two halves of EvidenceInv: what is held, and what an answer is.
Held ==
  /\ discovery.queue \in Seq(Frame) /\ discovery.evidence \in Evidence /\ discovery.arrived \in Nat
  /\ Lost >= 0 /\ InBudget(discovery.evidence) /\ (discovery.evidence.truncated <=> Lost > 0)

Answered ==
  /\ discovery.marker \in Nat
  /\ discovery.pc \in {"sent", "wait"} => discovery.attempts > 0
  /\ discovery.outcome = "resolved" =>
       /\ discovery.pc \in {"shutdown", "done"} /\ discovery.attempts > 0
       /\ discovery.reply[1].received_at \in discovery.marker .. discovery.attempt_deadline
       /\ \/ discovery.reply[1].length > max_bytes
          \/ \E i \in 1 .. Len(discovery.evidence.frames) :
               discovery.evidence.frames[i] = discovery.reply[1]

LEMMA HeldAndAnswered == EvidenceInv <=> (Held /\ Answered)
BY Zenon DEF EvidenceInv, DiscoveryEvidence, Held, Answered

LEMMA HeldSame ==
  ASSUME Held, discovery'.queue = discovery.queue, discovery'.evidence = discovery.evidence,
         discovery'.arrived = discovery.arrived
  PROVE  Held'
BY Zenon DEF Held, Lost, InBudget, Length

\* k frames leave the queue and are offered to the evidence.
LEMMA HeldGrown ==
  ASSUME Held, NEW k \in Nat, Grown(discovery.evidence, k, discovery'.evidence),
         discovery'.queue \in Seq(Frame), Len(discovery'.queue) + k = Len(discovery.queue),
         discovery'.arrived = discovery.arrived
  PROVE  Held'
<1> DEFINE a == discovery.arrived
           q == Len(discovery.queue)
           r == Len(discovery'.queue)
           x == Len(discovery.evidence.frames)
           y == Len(discovery'.evidence.frames)
<1>1. a \in Nat /\ q \in Nat /\ r \in Nat
  BY DEF Held
<1>2. discovery'.evidence \in Evidence /\ InBudget(discovery'.evidence) /\ y <= x + k
      /\ (discovery'.evidence.truncated <=> (discovery.evidence.truncated \/ y < x + k))
  BY Zenon DEF Grown
<1>3. x \in Nat /\ y \in Nat
  BY <1>2 DEF Held, Evidence
<1>4. a - q - x >= 0 /\ (discovery.evidence.truncated <=> a - q - x > 0) /\ r + k = q
  BY Zenon DEF Held, Lost
<1> HIDE DEF a, q, r, x, y
<1>5. a - r - y >= 0 /\ ((a - q - x > 0 \/ y < x + k) <=> a - r - y > 0)
  BY <1>1, <1>2, <1>3, <1>4
<1>6. discovery'.evidence.truncated <=> a - r - y > 0
  BY Zenon, <1>2, <1>4, <1>5
<1>7. Lost' = a - r - y
  BY Zenon DEF Lost, a, r, y
<1>8. InBudget(discovery.evidence)'
  BY Zenon, <1>2 DEF InBudget, Length
<1>9. discovery'.arrived \in Nat
  BY Zenon, <1>1 DEF a
<1> QED BY Zenon, <1>2, <1>5, <1>6, <1>7, <1>8, <1>9 DEF Held

\* Until an answer is accepted, none is there.
LEMMA NotAnswered ==
  ASSUME discovery'.marker \in Nat, discovery'.pc \in {"sent", "wait"} => discovery'.attempts > 0,
         discovery'.outcome # "resolved"
  PROVE  Answered'
BY Zenon DEF Answered

LEMMA EvidenceStep ==
  ASSUME NeighborExchangeAssumption, RequestInv, EvidenceInv, [ExchangeNext]_exchangeVars
  PROVE  EvidenceInv'
<1> SUFFICES Held' /\ Answered'
  BY Zenon DEF EvidenceInv, DiscoveryEvidence, Held, Answered
<1>0. Held /\ Answered
  BY Zenon, HeldAndAnswered
<1> USE DEF RequestInv, DiscoveryTypes
<1>t. /\ discovery.marker \in Nat /\ discovery.attempts \in Nat
      /\ discovery.outcome = "resolved" => discovery.pc \in {"shutdown", "done"}
      /\ discovery.pc \in {"sent", "wait"} => discovery.attempts > 0
  BY <1>0 DEF Answered, NeighborExchangeAssumption
<1>q. discovery.queue \in Seq(Frame) /\ discovery.evidence \in Evidence /\ InBudget(discovery.evidence)
      /\ Len(discovery.queue) \in Nat
  BY <1>0 DEF Held
<1>1. CASE DiscoveryTick \/ UNCHANGED exchangeVars
  <2>1. discovery' = discovery
    BY Zenon, <1>1 DEF DiscoveryTick, exchangeVars
  <2>2. Held'
    BY Zenon, <1>0, <2>1, HeldSame
  <2> QED BY Zenon, <1>0, <2>1, <2>2 DEF Answered
<1>2. ASSUME discovery'.queue = discovery.queue, discovery'.evidence = discovery.evidence,
             discovery'.arrived = discovery.arrived, discovery'.marker \in Nat,
             discovery'.pc \in {"sent", "wait"} => discovery'.attempts > 0,
             discovery'.outcome # "resolved"
      PROVE  Held' /\ Answered'
  BY Zenon, <1>0, <1>2, HeldSame, NotAnswered
<1>3. CASE Arm
  <2>1. \/ discovery' = [discovery EXCEPT !.pc = "ready"]
        \/ discovery' = [discovery EXCEPT !.pc = "done", !.outcome = "failed"]
    BY Zenon, <1>3 DEF Arm
  <2>2. discovery.pc = "arm"
    BY Zenon, <1>3 DEF Arm
  <2> QED BY <1>2, <1>t, <2>1, <2>2
<1>4. ASSUME discovery.pc \in Exchanging, NEW o \in {"failed", "not_found"},
             discovery' = [discovery EXCEPT !.pc = "shutdown", !.outcome = o]
      PROVE  Held' /\ Answered'
  BY <1>2, <1>4, <1>t
<1>5. CASE Ready
  <2> DEFINE n == Least(Len(discovery.queue), max_frames)
             e == RetainAll(discovery.evidence, SubSeq(discovery.queue, 1, n))
             q == SubSeq(discovery.queue, n + 1, Len(discovery.queue))
  <2>1. CASE discovery' = [discovery EXCEPT !.pc = "attempt", !.evidence = e, !.queue = q]
    <3>1. n \in 0 .. Len(discovery.queue)
      BY <1>q DEF Least, NeighborExchangeAssumption
    <3> HIDE DEF n
    <3>2. /\ SubSeq(discovery.queue, 1, n) \in Seq(Frame) /\ Len(SubSeq(discovery.queue, 1, n)) = n
          /\ q \in Seq(Frame) /\ Len(q) + n = Len(discovery.queue)
      BY <1>q, <3>1
    <3>3. Grown(discovery.evidence, n, e)
      BY Zenon, <1>q, <3>2, RetainAllGrown
    <3> HIDE DEF e, q
    <3>4. /\ discovery'.evidence = e /\ discovery'.queue = q /\ discovery'.arrived = discovery.arrived
          /\ discovery'.marker = discovery.marker /\ discovery'.outcome = discovery.outcome
          /\ discovery'.pc = "attempt"
      BY <2>1
    <3>5. n \in Nat
      BY <3>1
    <3>6. Held'
      BY Zenon, <1>0, <3>2, <3>3, <3>4, <3>5, HeldGrown
    <3>7. discovery.outcome # "resolved"
      BY <1>5, <1>t DEF Ready
    <3> QED BY <1>t, <3>4, <3>6, <3>7, NotAnswered
  <2>2. CASE \E o \in {"failed", "not_found"} : discovery' = [discovery EXCEPT !.pc = "shutdown", !.outcome = o]
    BY <1>4, <1>5, <2>2 DEF Ready, Exchanging
  <2> QED BY Zenon, <1>5, <2>1, <2>2 DEF Ready
<1>6. CASE Attempt
  <2> DEFINE d == Least(time + attempt_timeout, discovery.deadline)
  <2>1. CASE discovery' = [discovery EXCEPT !.pc = "send", !.attempt_deadline = d]
    <3> HIDE DEF d
    <3> QED BY <1>2, <1>6, <1>t, <2>1 DEF Attempt
  <2>2. CASE discovery' = [discovery EXCEPT !.pc = "shutdown", !.outcome = "not_found"]
    BY <1>4, <1>6, <2>2 DEF Attempt, Exchanging
  <2> QED BY Zenon, <1>6, <2>1, <2>2 DEF Attempt
<1>7. CASE Send
  <2>1. CASE discovery' = [discovery EXCEPT !.pc = "sent", !.attempts = @ + 1, !.marker = time]
    BY <1>2, <1>7, <1>t, <2>1 DEF Send
  <2>2. CASE discovery' = [discovery EXCEPT !.pc = "shutdown", !.outcome = "not_found"]
    BY <1>4, <1>7, <2>2 DEF Send, Exchanging
  <2> QED BY Zenon, <1>7, <2>1, <2>2 DEF Send
<1>8. CASE SendReturns
  <2>1. CASE discovery' = [discovery EXCEPT !.pc = "wait"]
    BY <1>2, <1>8, <1>t, <2>1 DEF SendReturns
  <2>2. CASE discovery' = [discovery EXCEPT !.pc = "shutdown", !.outcome = "failed"]
    BY <1>4, <1>8, <2>2 DEF SendReturns, Exchanging
  <2> QED BY Zenon, <1>8, <2>1, <2>2 DEF SendReturns
<1>9. ASSUME discovery.pc = "wait", discovery.queue # <<>>, NEW f, f = Head(discovery.queue)
      PROVE  /\ f \in Frame /\ Tail(discovery.queue) \in Seq(Frame)
             /\ Len(Tail(discovery.queue)) + 1 = Len(discovery.queue)
             /\ Grown(discovery.evidence, 1, Retain(discovery.evidence, f))
             /\ discovery.outcome # "resolved" /\ discovery.attempts > 0
  <2>1. /\ f \in Frame /\ Tail(discovery.queue) \in Seq(Frame)
        /\ Len(Tail(discovery.queue)) + 1 = Len(discovery.queue)
    BY <1>9, <1>q
  <2>2. discovery.outcome # "resolved" /\ discovery.attempts > 0
    BY <1>9, <1>t
  <2> QED BY Zenon, <1>q, <2>1, <2>2, RetainGrown
<1>10. ASSUME discovery.pc = "wait", discovery.queue # <<>>, NEW pc \in {"wait", "attempt"},
              discovery' = [discovery EXCEPT !.pc = pc, !.queue = Tail(@),
                                             !.evidence = Retain(@, Head(discovery.queue))]
       PROVE  Held' /\ Answered'
  <2> DEFINE f == Head(discovery.queue)
             q == Tail(discovery.queue)
             e == Retain(discovery.evidence, f)
  <2>1. /\ q \in Seq(Frame) /\ Len(q) + 1 = Len(discovery.queue) /\ Grown(discovery.evidence, 1, e)
        /\ discovery.outcome # "resolved" /\ discovery.attempts > 0
    BY Zenon, <1>9, <1>10
  <2>2. discovery' = [discovery EXCEPT !.pc = pc, !.queue = q, !.evidence = e]
    BY Zenon, <1>10
  <2> HIDE DEF f, q, e
  <2>3. /\ discovery'.evidence = e /\ discovery'.queue = q /\ discovery'.arrived = discovery.arrived
        /\ discovery'.marker = discovery.marker /\ discovery'.outcome = discovery.outcome
        /\ discovery'.attempts = discovery.attempts
    BY <2>2
  <2>4. 1 \in Nat
    OBVIOUS
  <2>5. Held'
    BY Zenon, <1>0, <2>1, <2>3, <2>4, HeldGrown
  <2> QED BY Zenon, <1>t, <2>1, <2>3, <2>5, NotAnswered
<1>11. CASE WaitOver
  <2>1. CASE discovery' = [discovery EXCEPT !.pc = "attempt"]
    BY <1>2, <1>11, <1>t, <2>1 DEF WaitOver
  <2> QED BY Zenon, <1>10, <1>11, <2>1 DEF WaitOver
<1>12. CASE Receive
  <2> DEFINE f == Head(discovery.queue)
             q == Tail(discovery.queue)
             e == RetainMatching(discovery.evidence, f)
  <2>0. discovery.pc = "wait" /\ discovery.queue # <<>>
    BY Zenon, <1>12 DEF Receive
  <2>1. CASE Fresh(f) /\ MatchesRequest(f)
    <3>1. /\ f \in Frame /\ q \in Seq(Frame) /\ Len(q) + 1 = Len(discovery.queue)
          /\ discovery.attempts > 0
      BY Zenon, <1>9, <2>0
    <3>2. /\ Grown(discovery.evidence, 1, e)
          /\ f.length > max_bytes \/ \E i \in 1 .. Len(e.frames) : e.frames[i] = f
      <4> HIDE DEF f
      <4> QED BY Zenon, <1>q, <3>1, RetainMatchingGrown
    <3>3. f.received_at \in discovery.marker .. discovery.attempt_deadline
      <4> HIDE DEF f
      <4> QED BY <1>t, <2>1, <3>1 DEF Fresh, Frame, NoStamp
    <3>4. discovery' = [discovery EXCEPT !.pc = "shutdown", !.outcome = "resolved", !.queue = q,
                                         !.reply = <<f>>, !.evidence = e]
      BY Zenon, <1>12, <2>1 DEF Receive
    <3> HIDE DEF f, q, e
    <3>5. /\ discovery'.evidence = e /\ discovery'.queue = q /\ discovery'.arrived = discovery.arrived
          /\ discovery'.marker = discovery.marker /\ discovery'.pc = "shutdown"
          /\ discovery'.attempts = discovery.attempts /\ discovery'.reply[1] = f
          /\ discovery'.attempt_deadline = discovery.attempt_deadline
      BY <3>4
    <3>6. 1 \in Nat
      OBVIOUS
    <3>7. Held'
      BY Zenon, <1>0, <3>1, <3>2, <3>5, <3>6, HeldGrown
    <3>8. Answered'
      BY Zenon, <1>t, <3>1, <3>2, <3>3, <3>5 DEF Answered
    <3> QED BY Zenon, <3>7, <3>8
  <2>2. CASE ~(Fresh(f) /\ MatchesRequest(f))
    <3>1. discovery' = [discovery EXCEPT !.queue = q, !.evidence = Retain(discovery.evidence, f)]
      BY Zenon, <1>12, <2>2 DEF Receive
    <3> DEFINE r == Retain(discovery.evidence, f)
    <3>2. discovery' = [discovery EXCEPT !.pc = "wait", !.queue = q, !.evidence = r]
      <4> HIDE DEF q, r
      <4> QED BY <2>0, <3>1 DEF r
    <3> QED BY Zenon, <1>10, <2>0, <3>2
  <2> QED BY Zenon, <2>1, <2>2
<1>13. CASE ReceiveFails
  BY <1>4, <1>13 DEF ReceiveFails, Exchanging
<1>14. CASE Shutdown
  <2>1. PICK o \in {discovery.outcome, "failed"} : discovery' = [discovery EXCEPT !.pc = "done", !.outcome = o]
    BY Zenon, <1>14 DEF Shutdown
  <2>2. /\ discovery'.queue = discovery.queue /\ discovery'.evidence = discovery.evidence
        /\ discovery'.arrived = discovery.arrived /\ discovery'.marker = discovery.marker
        /\ discovery'.attempts = discovery.attempts /\ discovery'.reply = discovery.reply
        /\ discovery'.attempt_deadline = discovery.attempt_deadline /\ discovery'.pc = "done"
        /\ discovery'.outcome = o /\ (o = "resolved" => discovery.outcome = "resolved")
    BY <2>1
  <2>3. Held'
    BY Zenon, <1>0, <2>2, HeldSame
  <2>4. Answered'
    BY Zenon, <1>0, <2>2 DEF Answered
  <2> QED BY Zenon, <2>3, <2>4
<1>15. CASE CancelDiscovery
  <2>1. discovery.pc \in Exchanging /\ discovery' = [discovery EXCEPT !.deadline = time]
    BY Zenon, <1>15 DEF CancelDiscovery
  <2> QED BY <1>2, <1>t, <2>1 DEF Exchanging
<1>16. ASSUME NEW reply \in BOOLEAN, NEW n \in Lengths, NEW stamp \in {time, NoStamp},
              Arrive(reply, n, stamp)
       PROVE  Held' /\ Answered'
  <2> DEFINE f == [reply |-> reply, length |-> n, received_at |-> stamp]
             q == Append(discovery.queue, f)
  <2>1. f \in Frame
    BY DEF Frame
  <2> HIDE DEF f
  <2>2. q \in Seq(Frame) /\ Len(q) = Len(discovery.queue) + 1
    BY <1>q, <2>1
  <2>3. discovery.pc \in Exchanging
        /\ discovery' = [discovery EXCEPT !.arrived = @ + 1, !.queue = q]
    BY Zenon, <1>16 DEF Arrive, f
  <2> HIDE DEF q
  <2>4. /\ discovery'.queue = q /\ discovery'.evidence = discovery.evidence
        /\ discovery'.arrived = discovery.arrived + 1 /\ discovery'.marker = discovery.marker
        /\ discovery'.attempts = discovery.attempts /\ discovery'.pc = discovery.pc
        /\ discovery'.outcome = discovery.outcome
    BY <2>3
  <2>5. discovery.outcome # "resolved"
    BY <1>t, <2>3 DEF Exchanging
  <2>6. Held'
    <3>1. discovery.arrived \in Nat /\ Len(discovery.evidence.frames) \in Nat
      BY <1>0 DEF Held, Evidence
    <3>2. discovery'.arrived \in Nat
      BY <2>4, <3>1
    <3>3. Lost' = Lost
      BY <1>q, <2>2, <2>4, <3>1 DEF Lost
    <3>4. InBudget(discovery.evidence)'
      BY Zenon, <1>q, <2>4 DEF InBudget, Length
    <3> QED BY Zenon, <1>0, <2>2, <2>4, <3>2, <3>3, <3>4 DEF Held
  <2> QED BY Zenon, <1>t, <2>4, <2>5, <2>6, NotAnswered
<1> QED
  BY Zenon, <1>1, <1>3, <1>5, <1>6, <1>7, <1>8, <1>11, <1>12, <1>13, <1>14, <1>15, <1>16
  DEF ExchangeNext, DiscoveryWork

\* The answer of a discovery came between a request of its own and that request's deadline and is
\* among the frames kept, which stay within their limits and tell when any was lost.
THEOREM EvidenceTheorem ==
  ASSUME NeighborExchangeAssumption
  PROVE  ExchangeSpec => []DiscoveryEvidence
<1>1. ExchangeInit => RequestInv
  BY DEF ExchangeInit, RequestInv, DiscoveryTypes, Exchanging, NeighborExchangeAssumption
<1>2. ExchangeInit => EvidenceInv
  <2> SUFFICES ASSUME ExchangeInit PROVE EvidenceInv
    OBVIOUS
  <2>1. <<>> \in Seq(Frame) /\ Length(<<>>) = 0
    <3>1. <<>> \in Seq(Frame) /\ Len(<<>>) = 0
      OBVIOUS
    <3> QED BY Zenon, <3>1, RunningLengths DEF Length
  <2>2. /\ discovery.queue = <<>> /\ discovery.evidence = [frames |-> <<>>, truncated |-> FALSE]
        /\ discovery.arrived = 0 /\ discovery.marker = 0 /\ discovery.outcome = "none"
        /\ discovery.pc = "arm"
    BY DEF ExchangeInit
  <2>3. InBudget(discovery.evidence)
    BY <2>1, <2>2 DEF InBudget, NeighborExchangeAssumption
  <2>4. Held
    BY <2>1, <2>2, <2>3 DEF Held, Lost, Evidence
  <2>5. Answered
    BY <2>2 DEF Answered
  <2> QED BY Zenon, <2>4, <2>5, HeldAndAnswered
<1>3. RequestInv /\ EvidenceInv /\ [ExchangeNext]_exchangeVars => (RequestInv /\ EvidenceInv)'
  BY Zenon, RequestStep, EvidenceStep
<1>4. EvidenceInv => DiscoveryEvidence
  BY Zenon DEF EvidenceInv
<1> QED
  BY <1>1, <1>2, <1>3, <1>4, PTL DEF ExchangeSpec
=============================================================================
