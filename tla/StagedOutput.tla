---------------------------- MODULE StagedOutput ----------------------------
(***************************************************************************)
(* Output files staged beside their destinations and published atomically. *)
(* packetcraftr-cli/src/staged_output.rs, staged_output/unix.rs and        *)
(* cancellation.rs, with the two commands that publish several files:      *)
(* analyze follow (no clobber) and documentation (replacement).            *)
(*                                                                         *)
(* Several processes may publish the same destinations.  A process may be  *)
(* interrupted once (cancellation), twice (a forced exit, whose handler    *)
(* runs beside the main thread) or killed at any step.  System calls are   *)
(* atomic; each is a step of its own.                                      *)
(***************************************************************************)
EXTENDS Integers

CONSTANTS
  Processes,
  Files,        \* Files[p]: process p publishes the destinations 1..Files[p]
  Dests,        \* every destination
  NoEntry        \* what a missing destination holds

StagedAssumption ==
  /\ Dests \subseteq Nat \ {0} /\ Files \in [Processes -> Dests]
  /\ \A p \in Processes : 1..Files[p] \subseteq Dests
  /\ NoEntry \notin Processes \cup {"old", "other"} /\ {"old", "other"} \cap Processes = {}

Of(p) == 1..Files[p]

VARIABLES
  dest,         \* the destination names: NoEntry, "old", "other", or the process whose file it is
  hidden,       \* hidden[p]: destinations whose staging name of p exists
  setting,      \* [publication, tmpfile, noreplace]: the Publication, and what the filesystem offers
  content,      \* content[p][d]: "none", "staged" or "synced"
  registered,   \* STAGED: the staging names a forced exit of p removes
  main,         \* main[p]: the step of the main thread
  cursor,       \* cursor[p]: the destination it works on
  reported,     \* reported[p]: destinations it counts as published
  placed,       \* history: destinations that p's file was put at
  unverified,   \* history: destinations whose verification could not be read
  handler,      \* handler[p]: "idle", "cancelled", "exiting", "exited"
  swept         \* history: staging names the handler found registered

stagedVars == <<dest, hidden, setting, content, registered, main, cursor, reported, placed, unverified, handler, swept>>

StagedInit ==
  /\ dest \in [Dests -> {NoEntry, "old"}]
  /\ hidden = [p \in Processes |-> {}]
  /\ setting \in [publication : {"NoClobber", "Replace"}, tmpfile : BOOLEAN, noreplace : BOOLEAN]
  /\ content = [p \in Processes |-> [d \in Dests |-> "none"]]
  /\ registered = [p \in Processes |-> {}]
  /\ main = [p \in Processes |-> "inspect"] /\ cursor = [p \in Processes |-> 1]
  /\ reported = [p \in Processes |-> {}] /\ unverified = [p \in Processes |-> {}]
  /\ placed = [p \in Processes |-> {}]
  /\ handler = [p \in Processes |-> "idle"] /\ swept = [p \in Processes |-> {}]

Running(p, step) == main[p] = step /\ handler[p] # "exited"
Cancelled(p) == handler[p] # "idle"
Publication == setting.publication

Goto(p, step) == main' = [main EXCEPT ![p] = step]

\* An error drops every staged file.
Fail(p) == Goto(p, "drop")

-----------------------------------------------------------------------------
(* StagedFile::stage_mode. *)

\* The destination is inspected before anything is created.
Inspect(p) ==
  /\ Running(p, "inspect")
  /\ IF Cancelled(p) \/ (Publication = "NoClobber" /\ dest[cursor[p]] # NoEntry) \/ dest[cursor[p]] = "other"
       THEN Fail(p) ELSE Goto(p, "stage")
  /\ UNCHANGED <<placed, dest, hidden, setting, content, registered, cursor, reported, unverified, handler, swept>>

\* Directory::stage: an unnamed file, or one with a hidden name.
Stage(p) ==
  /\ Running(p, "stage")
  /\ \/ /\ content' = [content EXCEPT ![p][cursor[p]] = "staged"]
        /\ hidden' = IF setting.tmpfile THEN hidden ELSE [hidden EXCEPT ![p] = @ \cup {cursor[p]}]
        /\ Goto(p, IF setting.tmpfile THEN "staged" ELSE "register")
     \/ Fail(p) /\ UNCHANGED <<content, hidden>>
  /\ UNCHANGED <<placed, dest, setting, registered, cursor, reported, unverified, handler, swept>>

\* Named::new: the name is listed for a forced exit; before that it is removed if the
\* descriptor cannot be duplicated.
Register(p) ==
  /\ Running(p, "register")
  /\ \/ /\ registered' = [registered EXCEPT ![p] = @ \cup {cursor[p]}]
        /\ Goto(p, IF content[p][cursor[p]] = "synced" THEN "own" ELSE "staged")
        /\ UNCHANGED hidden
     \/ /\ hidden' = [hidden EXCEPT ![p] = @ \ {cursor[p]}]
        /\ Fail(p) /\ UNCHANGED registered
  /\ UNCHANGED <<placed, dest, setting, content, cursor, reported, unverified, handler, swept>>

\* DirectionFiles stages every file first; documentation writes and syncs each as it goes.
Staged(p) ==
  /\ Running(p, "staged")
  /\ IF Publication = "Replace" THEN Goto(p, "sync") /\ UNCHANGED cursor
     ELSE IF cursor[p] < Files[p] THEN Goto(p, "inspect") /\ cursor' = [cursor EXCEPT ![p] = @ + 1]
     ELSE Goto(p, "sync") /\ cursor' = [cursor EXCEPT ![p] = 1]
  /\ UNCHANGED <<placed, dest, hidden, setting, content, registered, reported, unverified, handler, swept>>

\* Mutant of Sync: a file is published as soon as it is synced.
SyncOne(p) ==
  /\ Running(p, "sync")
  /\ \/ /\ ~Cancelled(p)
        /\ content' = [content EXCEPT ![p][cursor[p]] = "synced"]
        /\ Goto(p, "persist") /\ UNCHANGED cursor
     \/ Fail(p) /\ UNCHANGED <<content, cursor>>
  /\ UNCHANGED <<placed, dest, hidden, setting, registered, reported, unverified, handler, swept>>

\* write and StagedFile::sync: nothing is published until every file is synced.  A write,
\* the sync or a check of the deadline may fail.
Sync(p) ==
  /\ Running(p, "sync")
  /\ \/ /\ ~Cancelled(p)
        /\ content' = [content EXCEPT ![p][cursor[p]] = "synced"]
        /\ IF cursor[p] = Files[p]
             THEN Goto(p, "persist") /\ cursor' = [cursor EXCEPT ![p] = 1]
             ELSE /\ Goto(p, IF Publication = "Replace" THEN "inspect" ELSE "sync")
                  /\ cursor' = [cursor EXCEPT ![p] = @ + 1]
     \/ Fail(p) /\ UNCHANGED <<content, cursor>>
  /\ UNCHANGED <<placed, dest, hidden, setting, registered, reported, unverified, handler, swept>>

-----------------------------------------------------------------------------
(* StagedFile::persist and Staged::publish. *)

\* The commit boundary: the last check, and check_replaceable.
Persist(p) ==
  /\ Running(p, "persist")
  /\ \/ /\ ~Cancelled(p) /\ ~(Publication = "Replace" /\ dest[cursor[p]] = "other")
        /\ Goto(p, IF ~setting.tmpfile THEN "own"
                   ELSE IF Publication = "Replace" THEN "linkstaging" ELSE "link")
     \/ Fail(p)
  /\ UNCHANGED <<placed, dest, hidden, setting, content, registered, cursor, reported, unverified, handler, swept>>

\* An unnamed file replaces through a hidden name of its own.
LinkStaging(p) ==
  /\ Running(p, "linkstaging")
  /\ \/ hidden' = [hidden EXCEPT ![p] = @ \cup {cursor[p]}] /\ Goto(p, "register")
     \/ Fail(p) /\ UNCHANGED hidden
  /\ UNCHANGED <<placed, dest, setting, content, registered, cursor, reported, unverified, handler, swept>>

Placed(p) ==
  /\ dest' = [dest EXCEPT ![cursor[p]] = p]
  /\ placed' = [placed EXCEPT ![p] = @ \cup {cursor[p]}]

\* linkat: fails when the destination exists.  An unnamed file has no staging name to drop.
Link(p) ==
  /\ Running(p, "link")
  /\ \/ /\ dest[cursor[p]] = NoEntry
        /\ setting.tmpfile \/ cursor[p] \in hidden[p]
        /\ Placed(p) /\ Goto(p, IF setting.tmpfile THEN "verify" ELSE "dropname")
     \/ Fail(p) /\ UNCHANGED <<dest, placed>>
  /\ UNCHANGED <<hidden, setting, content, registered, cursor, reported, unverified, handler, swept>>

\* publish_named: the staging name must still be there.
Own(p) ==
  /\ Running(p, "own")
  /\ IF cursor[p] \in hidden[p] THEN Goto(p, "rename") ELSE Fail(p)
  /\ UNCHANGED <<placed, dest, hidden, setting, content, registered, cursor, reported, unverified, handler, swept>>

\* Mutant of Rename: an existence check and a replacing rename.
RenameOver(p) ==
  /\ Running(p, "rename")
  /\ \/ /\ cursor[p] \in hidden[p]
        /\ Placed(p) /\ hidden' = [hidden EXCEPT ![p] = @ \ {cursor[p]}] /\ Goto(p, "dropname")
     \/ Fail(p) /\ UNCHANGED <<dest, placed, hidden>>
  /\ UNCHANGED <<setting, content, registered, cursor, reported, unverified, handler, swept>>

\* renameat, or rename_noreplace with its link fallback; the handler may have removed the name.
Rename(p) ==
  /\ Running(p, "rename")
  /\ \/ /\ cursor[p] \in hidden[p]
        /\ Publication = "NoClobber" => dest[cursor[p]] = NoEntry /\ setting.noreplace
        /\ Placed(p) /\ hidden' = [hidden EXCEPT ![p] = @ \ {cursor[p]}] /\ Goto(p, "dropname")
     \/ /\ Publication = "NoClobber" /\ ~setting.noreplace /\ cursor[p] \in hidden[p]
        /\ Goto(p, "link") /\ UNCHANGED <<dest, placed, hidden>>
     \/ Fail(p) /\ UNCHANGED <<dest, placed, hidden>>
  /\ UNCHANGED <<setting, content, registered, cursor, reported, unverified, handler, swept>>

\* Named::drop: the staging name goes first, then its registration.
DropName(p) ==
  /\ Running(p, "dropname")
  /\ hidden' = [hidden EXCEPT ![p] = @ \ {cursor[p]}] /\ Goto(p, "unregister")
  /\ UNCHANGED <<placed, dest, setting, content, registered, cursor, reported, unverified, handler, swept>>

Unregister(p) ==
  /\ Running(p, "unregister")
  /\ registered' = [registered EXCEPT ![p] = @ \ {cursor[p]}] /\ Goto(p, "verify")
  /\ UNCHANGED <<placed, dest, hidden, setting, content, cursor, reported, unverified, handler, swept>>

\* verify_published, and the command's loop over its files.
Verify(p) ==
  /\ Running(p, "verify")
  /\ \/ /\ dest[cursor[p]] = p
        /\ reported' = [reported EXCEPT ![p] = @ \cup {cursor[p]}]
        /\ IF cursor[p] = Files[p] THEN Goto(p, "ok") /\ UNCHANGED cursor
                            ELSE Goto(p, "persist") /\ cursor' = [cursor EXCEPT ![p] = @ + 1]
        /\ UNCHANGED unverified
     \/ /\ dest[cursor[p]] \notin {p, NoEntry}
        /\ Goto(p, IF Publication = "NoClobber" THEN "unlink" ELSE "drop")
        /\ UNCHANGED <<reported, cursor, unverified>>
     \/ /\ unverified' = [unverified EXCEPT ![p] = @ \cup {cursor[p]}]
        /\ Fail(p) /\ UNCHANGED <<reported, cursor>>
  /\ UNCHANGED <<placed, dest, hidden, setting, content, registered, handler, swept>>

\* verify_published: an entry that is not the staged file is removed.
Unlink(p) ==
  /\ Running(p, "unlink")
  /\ dest' = [dest EXCEPT ![cursor[p]] = NoEntry] /\ Fail(p)
  /\ UNCHANGED <<placed, hidden, setting, content, registered, cursor, reported, unverified, handler, swept>>

\* The staged files that were not published are dropped, then their registrations.
DropStaged(p) ==
  /\ Running(p, "drop")
  /\ hidden' = [hidden EXCEPT ![p] = {}] /\ Goto(p, "unlist")
  /\ UNCHANGED <<placed, dest, setting, content, registered, cursor, reported, unverified, handler, swept>>

Unlist(p) ==
  /\ Running(p, "unlist")
  /\ registered' = [registered EXCEPT ![p] = {}] /\ Goto(p, "failed")
  /\ UNCHANGED <<placed, dest, hidden, setting, content, cursor, reported, unverified, handler, swept>>

-----------------------------------------------------------------------------
(* cancellation.rs: the signal handler. *)

Live(p) == main[p] \notin {"ok", "failed"} /\ handler[p] # "exited"

\* The first interrupt cancels.
Interrupt(p) ==
  /\ Live(p) /\ handler[p] = "idle"
  /\ handler' = [handler EXCEPT ![p] = "cancelled"]
  /\ UNCHANGED <<placed, dest, hidden, setting, content, registered, main, cursor, reported, unverified, swept>>

\* The second interrupt: remove_staged, unless the main thread holds the registry.
Sweep(p) ==
  /\ Live(p) /\ handler[p] = "cancelled"
  /\ handler' = [handler EXCEPT ![p] = "exiting"]
  /\ \/ /\ hidden' = [hidden EXCEPT ![p] = @ \ registered[p]]
        /\ swept' = [swept EXCEPT ![p] = registered[p]]
     \/ /\ main[p] \in {"register", "unregister", "unlist"}
        /\ UNCHANGED <<hidden, swept>>
  /\ UNCHANGED <<placed, dest, setting, content, registered, main, cursor, reported, unverified>>

Exit(p) ==
  /\ Live(p) /\ handler[p] = "exiting"
  /\ handler' = [handler EXCEPT ![p] = "exited"]
  /\ UNCHANGED <<placed, dest, hidden, setting, content, registered, main, cursor, reported, unverified, swept>>

\* The process is killed: no destructor and no handler runs.
Kill(p) ==
  /\ Live(p)
  /\ handler' = [handler EXCEPT ![p] = "exited"]
  /\ UNCHANGED <<placed, dest, hidden, setting, content, registered, main, cursor, reported, unverified, swept>>

\* Another program creates a destination.
Create(d) ==
  /\ dest[d] = NoEntry
  /\ \E new \in {"old", "other"} : dest' = [dest EXCEPT ![d] = new]
  /\ UNCHANGED <<placed, hidden, setting, content, registered, main, cursor, reported, unverified, handler, swept>>

\* Another program puts its own file in the place of a published one.
Overwrite(d) ==
  /\ dest[d] \in Processes
  /\ dest' = [dest EXCEPT ![d] = "old"]
  /\ UNCHANGED <<placed, hidden, setting, content, registered, main, cursor, reported, unverified, handler, swept>>

Work(p) ==
  \/ Inspect(p) \/ Stage(p) \/ Register(p) \/ Staged(p) \/ Sync(p)
  \/ Persist(p) \/ LinkStaging(p) \/ Link(p) \/ Own(p) \/ Rename(p) \/ DropName(p) \/ Unregister(p)
  \/ Verify(p) \/ Unlink(p) \/ DropStaged(p) \/ Unlist(p)

StagedNext ==
  \/ \E p \in Processes : Work(p) \/ Interrupt(p) \/ Sweep(p) \/ Exit(p) \/ Kill(p)
  \/ \E d \in Dests : Create(d) \/ Overwrite(d)

StagedSpec == StagedInit /\ [][StagedNext]_stagedVars

-----------------------------------------------------------------------------
(* Properties. *)

\* Whatever step a process is interrupted or killed at, a destination that holds its file
\* holds a synced one, and all the files of that command were synced before the first.
FilesSynced ==
  \A d \in Dests : dest[d] \in Processes => \A f \in Of(dest[d]) : content[dest[d]][f] = "synced"

\* Publication never loses a destination that exists.  Without clobbering, a process changes
\* only an entry at a name its own publication created; a replacement puts the new file in its
\* place without a moment in which it is missing.
KeepsDestination ==
  \A d \in Dests : dest[d] # NoEntry /\ dest'[d] # dest[d] =>
    \/ dest'[d] = "old"
    \/ Publication = "Replace" /\ dest'[d] \in Processes
    \/ /\ Publication = "NoClobber" /\ dest'[d] = NoEntry
       /\ \E p \in Processes :
            main[p] = "unlink" /\ main'[p] = "drop" /\ cursor[p] = d /\ d \in placed[p]

\* No step of any process loses a destination that exists.
DestinationKept == [][KeepsDestination]_stagedVars

\* A command that ends counts the destinations that got its files, and no file it published
\* goes uncounted, whichever step failed; the exception is one it could not read back.
ReportHonest ==
  \A p \in Processes : main[p] \in {"ok", "failed"} =>
    /\ \A d \in Dests : dest[d] = p => d \in reported[p] \cup unverified[p]
    /\ reported[p] \subseteq placed[p]
    /\ main[p] = "ok" => reported[p] = Of(p)

\* No staging name outlives a command that ends, in success, failure or cancellation, and a
\* forced exit leaves no name that was listed when its handler looked.
NoLeftovers ==
  \A p \in Processes :
    /\ main[p] \in {"ok", "failed"} => hidden[p] = {} /\ registered[p] = {}
    /\ handler[p] = "exited" => hidden[p] \cap swept[p] = {}

\* What is published is complete, counted and leaves nothing behind.
PublishedComplete == FilesSynced /\ ReportHonest /\ NoLeftovers

-----------------------------------------------------------------------------
(* The inductive invariant of PublishedComplete and DestinationKept. *)

Steps == {"inspect", "stage", "register", "staged", "sync", "persist", "linkstaging", "link", "own",
          "rename", "dropname", "unregister", "verify", "unlink", "drop", "unlist", "ok", "failed"}

StagedTypes ==
  /\ dest \in [Dests -> Processes \cup {NoEntry, "old", "other"}]
  /\ hidden \in [Processes -> SUBSET Dests] /\ registered \in [Processes -> SUBSET Dests]
  /\ reported \in [Processes -> SUBSET Dests] /\ placed \in [Processes -> SUBSET Dests]
  /\ unverified \in [Processes -> SUBSET Dests] /\ swept \in [Processes -> SUBSET Dests]
  /\ setting \in [publication : {"NoClobber", "Replace"}, tmpfile : BOOLEAN, noreplace : BOOLEAN]
  /\ content \in [Processes -> [Dests -> {"none", "staged", "synced"}]]
  /\ main \in [Processes -> Steps] /\ cursor \in [Processes -> Nat]
  /\ \A p \in Processes : cursor[p] \in Of(p)

AllSynced(p) == \A f \in Of(p) : content[p][f] = "synced"

\* A name is registered before the first publication, or, for an unnamed file, as part of it.
Staging(p) ==
  main[p] \in {"inspect", "stage", "staged", "sync"} \/ (main[p] = "register" /\ ~setting.tmpfile)
Naming(p) == main[p] \in {"own", "rename", "dropname", "unregister", "verify"}
             \/ (main[p] = "register" /\ setting.tmpfile)
Publishing(p) == main[p] \in {"persist", "linkstaging", "link", "unlink"} \/ Naming(p)

\* What is synced by the time a file is published.
SyncFollows(p) ==
  /\ placed[p] # {} \/ Publishing(p) => AllSynced(p)
  /\ Staging(p) => placed[p] = {}
  /\ main[p] = "sync" \/ (Publication = "Replace" /\ Staging(p)) =>
       \A f \in 1..cursor[p] - 1 : content[p][f] = "synced"
  /\ main[p] = "register" => (content[p][cursor[p]] = "synced" <=> setting.tmpfile)
  /\ main[p] = "linkstaging" => setting.tmpfile
  /\ setting.tmpfile /\ main[p] \in {"linkstaging", "register", "own", "rename"} => Publication = "Replace"

\* What is counted of what was published.
CountFollows(p) ==
  /\ reported[p] \subseteq placed[p] /\ placed[p] \subseteq Of(p)
  /\ Publishing(p) => 1..cursor[p] - 1 \subseteq reported[p]
  /\ main[p] = "ok" => reported[p] = Of(p)
  /\ main[p] \in {"dropname", "unregister", "verify", "unlink"} => cursor[p] \in placed[p]
  /\ main[p] = "unlink" => Publication = "NoClobber"
  /\ \A d \in Dests : dest[d] = p =>
       /\ d \in placed[p]
       /\ \/ d \in reported[p] \cup unverified[p]
          \/ main[p] \in {"dropname", "unregister", "verify"} /\ d = cursor[p]

\* Which staging names exist, are registered or were swept.
NamesFollow(p) ==
  /\ hidden[p] \cup registered[p] \subseteq Of(p) /\ hidden[p] \cap swept[p] = {}
  /\ main[p] \in {"inspect", "stage"} \/ (main[p] = "register" /\ ~setting.tmpfile) =>
       registered[p] \cup swept[p] \subseteq 1..cursor[p] - 1
  /\ main[p] = "staged" \/ (main[p] = "sync" /\ Publication = "Replace") =>
       registered[p] \cup swept[p] \subseteq 1..cursor[p]
  /\ Publishing(p) => hidden[p] \cup registered[p] \subseteq cursor[p]..Files[p]
  /\ main[p] \in {"unregister", "verify"} => cursor[p] \notin hidden[p]
  /\ main[p] = "verify" => cursor[p] \notin registered[p]
  /\ main[p] \in {"unlist", "ok", "failed"} => hidden[p] = {}
  /\ main[p] \in {"ok", "failed"} => registered[p] = {}

\* An unnamed file has a staging name only while it is published.
UnnamedFollow(p) ==
  setting.tmpfile =>
    /\ Staging(p) \/ main[p] \in {"persist", "linkstaging", "link"} => hidden[p] \cup registered[p] = {}
    /\ Staging(p) => swept[p] = {}
    /\ main[p] \in {"persist", "linkstaging"} => swept[p] \subseteq 1..cursor[p] - 1
    /\ Naming(p) \/ main[p] = "link" =>
         swept[p] \subseteq 1..cursor[p] /\ hidden[p] \cup registered[p] \subseteq {cursor[p]}

StagedInv ==
  /\ StagedTypes
  /\ \A p \in Processes : SyncFollows(p) /\ CountFollows(p) /\ NamesFollow(p) /\ UnnamedFollow(p)
=============================================================================
