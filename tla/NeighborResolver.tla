-------------------------- MODULE NeighborResolver --------------------------
(***************************************************************************)
(* Neighbor resolution around its exchange: the cache every caller shares, *)
(* the cache one operation pins its answers in, and the order in which a   *)
(* resolution reads and fills them.                                        *)
(* packetcraftr/src/neighbor/{cache,resolver,options}.rs.                  *)
(*                                                                         *)
(* A key stands for a NeighborCacheKey and for the hardware address of the *)
(* neighbor it names.  Each lock of a cache is one step; the clock is read *)
(* where the code reads it, so a caller may be overtaken between the       *)
(* reading and the lock.  The exchange itself is module NeighborExchange;  *)
(* here it is the step between a miss and its outcome.                     *)
(***************************************************************************)
EXTENDS Integers, FiniteSets

CONSTANTS
  Callers,             \* threads calling Active::resolve
  Members,             \* the callers whose State has an operation cache, one for all
  Keys,
  Targets,             \* the neighbors the operation may resolve
  max_cache_entries,   \* Options
  cache_ttl,
  operation_entries,   \* State::operation_entries
  Calls,               \* bound: calls of resolve
  Horizon              \* bound: the clock; the operation's cache_ttl, an hour, is longer

\* Options::validate, and what State::operation_entries says of itself: "at least one per
\* neighbor it may resolve".
NeighborAssumption ==
  /\ Members \subseteq Callers /\ IsFiniteSet(Keys)
  /\ Targets \subseteq Keys /\ Cardinality(Targets) <= operation_entries
  /\ max_cache_entries \in Nat \ {0} /\ cache_ttl \in Nat \ {0}
  /\ operation_entries \in Nat /\ Calls \in Nat /\ Horizon \in Nat

VARIABLES
  clock,
  cache,         \* NeighborCache of "shared" and of "operation"
  call,          \* one resolve per caller
  calls,         \* bound counter
  answered       \* history: keys the operation has an answer for

neighborVars == <<clock, cache, call, calls, answered>>

Caches == {"shared", "operation"}
NoKey == "none"

\* Options::for_operation
Life(c) == IF c = "shared" THEN cache_ttl ELSE Horizon + 1
Capacity(c) ==
  IF c = "shared" \/ operation_entries < max_cache_entries THEN max_cache_entries ELSE operation_entries

EmptyCache == [entries |-> <<>>, expiry |-> {}, insertion |-> {}, sequence |-> 0]
Idle == [pc |-> "idle", key |-> NoKey, now |-> 0, known |-> FALSE]

NeighborInit ==
  /\ clock = 0
  /\ cache = [c \in Caches |-> EmptyCache]
  /\ call = [u \in Callers |-> Idle]
  /\ calls = 0 /\ answered = {}

-----------------------------------------------------------------------------
(* The cache.  An index entry is <<time, sequence, key>>, ordered by the   *)
(* first two.                                                              *)

Before(a, b) == a[1] < b[1] \/ (a[1] = b[1] /\ a[2] < b[2])
First(index) == CHOOSE a \in index : \A b \in index \ {a} : Before(a, b)

Without(f, k) == [x \in DOMAIN f \ {k} |-> f[x]]

\* CacheEntries::remove
RemoveEntry(c, k) ==
  IF k \notin DOMAIN c.entries THEN c
  ELSE LET e == c.entries[k]
       IN  [c EXCEPT !.entries = Without(@, k),
                     !.expiry = @ \ {<<e.expires_at, e.sequence, k>>},
                     !.insertion = @ \ {<<e.inserted_at, e.sequence, k>>}]

\* CacheEntries::expire: the expiry index is taken from the front while it is due.
RemoveAll(c, gone) ==
  [c EXCEPT !.entries = [k \in DOMAIN @ \ gone |-> @[k]],
            !.expiry = {i \in @ : i[3] \notin gone},
            !.insertion = {i \in @ : i[3] \notin gone}]
ExpireEntries(c, now) == RemoveAll(c, {i[3] : i \in {j \in c.expiry : j[1] <= now}})

\* Mutant of Evict: the entry stored first goes, not the one with the oldest reading.
EvictStoredFirst(c, k, limit) ==
  IF k \notin DOMAIN c.entries /\ Cardinality(DOMAIN c.entries) >= limit /\ c.insertion # {}
  THEN RemoveEntry(c, (CHOOSE i \in c.insertion : \A j \in c.insertion : i[2] <= j[2])[3])
  ELSE c

\* insert_with_clock: a new key in a full cache replaces the oldest insertion.
Evict(c, k, limit) ==
  IF k \notin DOMAIN c.entries /\ Cardinality(DOMAIN c.entries) >= limit /\ c.insertion # {}
  THEN RemoveEntry(c, First(c.insertion)[3])
  ELSE c

\* insert_with_clock, under the lock; now was read before it.  The origin is history.
Insert(c, k, mac, origin, now, life, limit) ==
  LET room == RemoveEntry(Evict(ExpireEntries(c, now), k, limit), k)
      entry == [mac_address |-> mac, inserted_at |-> now, expires_at |-> now + life,
                sequence |-> room.sequence, origin |-> origin]
  IN  [entries |-> [x \in DOMAIN room.entries \cup {k} |-> IF x = k THEN entry ELSE room.entries[x]],
       expiry |-> room.expiry \cup {<<now + life, room.sequence, k>>},
       insertion |-> room.insertion \cup {<<now, room.sequence, k>>},
       sequence |-> room.sequence + 1]

Hit(c, k) == k \in DOMAIN c.entries /\ c.entries[k].expires_at > clock

\* get_with_clock: the clock is read under the lock and an expired entry is dropped.
Get(c, k) == IF Hit(c, k) THEN c ELSE RemoveEntry(c, k)

-----------------------------------------------------------------------------
(* State::lookup. *)

To(u, pc) == call' = [call EXCEPT ![u].pc = pc]

\* Active::resolve is called.
Resolve(u, k) ==
  /\ call[u].pc = "idle" /\ calls < Calls /\ (u \in Members => k \in Targets)
  /\ calls' = calls + 1
  /\ call' = [call EXCEPT ![u] =
       [pc |-> IF u \in Members THEN "operation" ELSE "shared", key |-> k, now |-> 0,
        known |-> u \in Members /\ k \in answered]]
  /\ UNCHANGED <<clock, cache, answered>>

\* A resolution ends; an operation that got an answer knows it.
Return(u, outcome) ==
  /\ call' = [call EXCEPT ![u] = Idle]
  /\ answered' = IF u \in Members /\ outcome \in {"cached", "resolved"}
                   THEN answered \cup {call[u].key} ELSE answered

GetOperation(u) ==
  /\ call[u].pc = "operation"
  /\ cache' = [cache EXCEPT !["operation"] = Get(@, call[u].key)]
  /\ IF Hit(cache["operation"], call[u].key)
       THEN Return(u, "cached")
       ELSE To(u, "shared") /\ UNCHANGED answered
  /\ UNCHANGED <<clock, calls>>

\* Mutant of GetShared: the operation does not keep a shared answer.
GetSharedUnpinned(u) ==
  /\ call[u].pc = "shared"
  /\ cache' = [cache EXCEPT !["shared"] = Get(@, call[u].key)]
  /\ IF ~Hit(cache["shared"], call[u].key)
       THEN To(u, "exchange") /\ UNCHANGED answered
       ELSE Return(u, "cached")
  /\ UNCHANGED <<clock, calls>>

GetShared(u) ==
  /\ call[u].pc = "shared"
  /\ cache' = [cache EXCEPT !["shared"] = Get(@, call[u].key)]
  /\ IF ~Hit(cache["shared"], call[u].key)
       THEN To(u, "exchange") /\ UNCHANGED answered
       ELSE IF u \in Members THEN To(u, "pin") /\ UNCHANGED answered
            ELSE Return(u, "cached")
  /\ UNCHANGED <<clock, calls>>

-----------------------------------------------------------------------------
(* NeighborCache::insert: the clock is read, then the lock is taken.       *)

Reading == [pin |-> "pin_locked", remember_operation |-> "operation_locked",
            remember |-> "shared_locked"]

ReadClock(u) ==
  /\ call[u].pc \in DOMAIN Reading
  /\ call' = [call EXCEPT ![u].pc = Reading[call[u].pc], ![u].now = clock]
  /\ UNCHANGED <<clock, cache, calls, answered>>

Stored(u, c) ==
  cache' = [cache EXCEPT ![c] =
              Insert(@, call[u].key, call[u].key, call[u].pc, call[u].now, Life(c), Capacity(c))]

\* State::lookup: the operation keeps a shared answer it relied on.
Pin(u) ==
  /\ call[u].pc = "pin_locked"
  /\ Stored(u, "operation") /\ Return(u, "cached")
  /\ UNCHANGED <<clock, calls>>

\* exchange and the checks after it (NeighborExchange): only a clean answer is remembered.
Exchange(u) ==
  /\ call[u].pc = "exchange"
  /\ \/ To(u, IF u \in Members THEN "remember_operation" ELSE "remember") /\ UNCHANGED answered
     \/ Return(u, "not_found")
  /\ UNCHANGED <<clock, cache, calls>>

\* State::remember, the operation's cache first.
RememberOperation(u) ==
  /\ call[u].pc = "operation_locked"
  /\ Stored(u, "operation") /\ To(u, "remember")
  /\ UNCHANGED <<clock, calls, answered>>

Remember(u) ==
  /\ call[u].pc = "shared_locked"
  /\ Stored(u, "shared") /\ Return(u, "resolved")
  /\ UNCHANGED <<clock, calls>>

Tick ==
  /\ clock < Horizon
  /\ clock' = clock + 1
  /\ UNCHANGED <<cache, call, calls, answered>>

NeighborNext ==
  \/ Tick
  \/ \E u \in Callers :
       \/ \E k \in Keys : Resolve(u, k)
       \/ GetOperation(u) \/ GetShared(u) \/ ReadClock(u) \/ Pin(u)
       \/ Exchange(u) \/ RememberOperation(u) \/ Remember(u)

NeighborSpec == NeighborInit /\ [][NeighborNext]_neighborVars

-----------------------------------------------------------------------------
(* Properties. *)

Entry(c, k) == cache[c].entries[k]

\* A cache never holds more entries than configured, and its two orderings list exactly
\* the entries it holds, whatever order insertions, expiries and evictions came in.
CacheIndexed ==
  \A c \in Caches : LET held == DOMAIN cache[c].entries IN
    /\ Cardinality(held) <= Capacity(c)
    /\ cache[c].expiry = {<<Entry(c, k).expires_at, Entry(c, k).sequence, k>> : k \in held}
    /\ cache[c].insertion = {<<Entry(c, k).inserted_at, Entry(c, k).sequence, k>> : k \in held}
    /\ \A j, k \in held : Entry(c, j).sequence = Entry(c, k).sequence => j = k
    /\ \A k \in held : Entry(c, k).sequence < cache[c].sequence

\* Once an operation has an answer, no later resolution inside it sends a request for that
\* neighbor, even when the shared entry has expired or was evicted.
OneDiscoveryPerOperation ==
  \A u \in Callers : call[u].known => call[u].pc # "exchange"

\* The shared cache holds only what a discovery of that neighbor put there, and for no
\* longer than cache_ttl from then: an operation that relies on an entry for longer does not
\* prolong it for anyone else.
SharedNotProlonged ==
  \A k \in DOMAIN cache["shared"].entries : LET e == Entry("shared", k) IN
    e.origin = "shared_locked" /\ e.mac_address = k /\ e.expires_at <= clock + cache_ttl

\* An insertion that drops a live entry of another key leaves no other entry that has
\* already expired: however late a writer takes the lock, the stalest entry goes first.
DropsStalest ==
  \A c \in Caches : \A k \in DOMAIN cache[c].entries \ DOMAIN cache'[c].entries :
    Entry(c, k).expires_at > clock =>
      \A j \in DOMAIN cache[c].entries \cap DOMAIN cache'[c].entries :
        Entry(c, j) = cache'[c].entries[j] => Entry(c, j).expires_at > clock

\* Every insertion into either cache drops the stalest entries first.
StalestGoesFirst == [][DropsStalest]_neighborVars

\* The cache agrees with its index, an operation asks once, and nobody prolongs a shared entry.
CacheCoherent == CacheIndexed /\ OneDiscoveryPerOperation /\ SharedNotProlonged

-----------------------------------------------------------------------------
(* The inductive invariant of CacheCoherent and StalestGoesFirst. *)

Locked == {"pin_locked", "operation_locked", "shared_locked"}
MemberSteps == {"operation", "pin", "pin_locked", "remember_operation", "operation_locked"}
Places == MemberSteps \cup {"idle", "shared", "exchange", "remember", "shared_locked"}

EntryType ==
  [mac_address : Keys, inserted_at : Nat, expires_at : Nat, sequence : Nat, origin : Locked]

\* Two orderings of the entries a cache value holds; none was stored after now, and none
\* lives longer than another.
Indexed(c, life, now) ==
  /\ c = [entries |-> c.entries, expiry |-> c.expiry, insertion |-> c.insertion, sequence |-> c.sequence]
  /\ c.sequence \in Nat /\ DOMAIN c.entries \subseteq Keys /\ c.entries \in [DOMAIN c.entries -> EntryType]
  /\ c.expiry = {<<c.entries[k].expires_at, c.entries[k].sequence, k>> : k \in DOMAIN c.entries}
  /\ c.insertion = {<<c.entries[k].inserted_at, c.entries[k].sequence, k>> : k \in DOMAIN c.entries}
  /\ \A j, k \in DOMAIN c.entries : c.entries[j].sequence = c.entries[k].sequence => j = k
  /\ \A k \in DOMAIN c.entries :
       /\ c.entries[k].sequence < c.sequence
       /\ c.entries[k].expires_at = c.entries[k].inserted_at + life /\ c.entries[k].inserted_at <= now

CallTypes ==
  /\ clock \in 0..Horizon /\ answered \subseteq Targets
  /\ call \in [Callers -> [pc : Places, key : Keys \cup {NoKey}, now : Nat, known : BOOLEAN]]
  /\ \A u \in Callers : call[u].now <= clock /\ (call[u].pc # "idle" => call[u].key \in Keys)

CacheInv ==
  /\ DOMAIN cache = Caches
  /\ \A c \in Caches : /\ Indexed(cache[c], Life(c), clock)
                       /\ Cardinality(DOMAIN cache[c].entries) <= Capacity(c)
  /\ \A k \in DOMAIN cache["shared"].entries :
       Entry("shared", k).origin = "shared_locked" /\ Entry("shared", k).mac_address = k

\* What the operation was told stays in its cache, and there is room for the rest.
PinnedInv ==
  /\ DOMAIN cache["operation"].entries \subseteq Targets
  /\ answered \subseteq DOMAIN cache["operation"].entries
  /\ \A u \in Callers :
       /\ call[u].pc \in MemberSteps => u \in Members
       /\ u \in Members /\ call[u].pc # "idle" => call[u].key \in Targets
       /\ u \in Members /\ call[u].pc \in {"remember", "shared_locked"} =>
            call[u].key \in DOMAIN cache["operation"].entries
       /\ call[u].known => call[u].pc = "operation" /\ call[u].key \in answered

NeighborInv == CallTypes /\ CacheInv /\ PinnedInv
=============================================================================
