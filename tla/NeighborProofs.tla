--------------------------- MODULE NeighborProofs ---------------------------
(***************************************************************************)
(* Proofs about the neighbor caches, for any number of callers, keys and   *)
(* entries.                                                                *)
(***************************************************************************)
EXTENDS NeighborResolver, FiniteSetTheorems, WellFoundedInduction, TLAPS

LEMMA LeastNatural ==
  ASSUME NEW T, T \subseteq Nat, T # {}
  PROVE  \E x \in T : \A y \in T : x <= y
<1>1. PICK x \in T : \A y \in T : ~(<<y, x>> \in OpToRel(<, Nat))
  BY Zenon, NatLessThanWellFounded, WFMin
<1>2. \A y \in T : ~(y < x)
  BY Zenon, <1>1 DEF OpToRel
<1> QED BY <1>2

\* An index of distinct sequence numbers has a first entry, and First finds it.
LEMMA FirstIsLeast ==
  ASSUME NEW index, index \subseteq Nat \X Nat \X Keys, index # {},
         \A a, b \in index : a[2] = b[2] => a = b
  PROVE  /\ First(index) \in index
         /\ \A b \in index \ {First(index)} : Before(First(index), b)
<1> DEFINE T == {a[1] : a \in index}
<1>0. \A a \in index : a[1] \in Nat /\ a[2] \in Nat
  OBVIOUS
<1>1. PICK t \in T : \A y \in T : t <= y
  <2>1. T \subseteq Nat /\ T # {}
    BY <1>0
  <2> QED BY Zenon, <2>1, LeastNatural
<1> DEFINE S == {a[2] : a \in {b \in index : b[1] = t}}
<1>2. PICK s \in S : \A y \in S : s <= y
  <2>1. S \subseteq Nat
    BY <1>0
  <2>2. S # {}
    BY <1>1
  <2> QED BY Zenon, <2>1, <2>2, LeastNatural
<1>3. PICK a \in index : a[1] = t /\ a[2] = s
  BY <1>2
<1>4. ASSUME NEW b \in index \ {a} PROVE Before(a, b)
  <2>1. b[1] \in Nat /\ b[2] \in Nat /\ t <= b[1] /\ b[2] # a[2]
    BY <1>1, <1>3
  <2>2. CASE b[1] = t
    <3>1. b[2] \in S
      BY <2>2
    <3>2. s <= b[2] /\ s \in Nat
      BY <1>0, <1>2, <1>3, <3>1
    <3> QED BY <1>3, <2>1, <2>2, <3>2 DEF Before
  <2>3. CASE b[1] # t
    BY <1>3, <2>1, <2>3 DEF Before
  <2> QED BY <2>2, <2>3
<1> QED BY <1>3, <1>4 DEF First

\* What a cache value is once the keys of S are gone from it.
Kept(c, r, S, life, now) ==
  /\ Indexed(r, life, now) /\ r.sequence = c.sequence
  /\ DOMAIN r.entries = DOMAIN c.entries \ S
  /\ \A k \in DOMAIN r.entries : r.entries[k] = c.entries[k]

LEMMA RemoveKept ==
  ASSUME NEW c, NEW life, NEW now, Indexed(c, life, now), NEW k
  PROVE  Kept(c, RemoveEntry(c, k), {k}, life, now)
<1> USE DEF Kept
<1>1. CASE k \notin DOMAIN c.entries
  BY <1>1 DEF RemoveEntry, Indexed
<1>2. CASE k \in DOMAIN c.entries
  <2> DEFINE r == RemoveEntry(c, k)
             e == c.entries[k]
  <2>1. r = [entries |-> [x \in DOMAIN c.entries \ {k} |-> c.entries[x]],
             expiry |-> c.expiry \ {<<e.expires_at, e.sequence, k>>},
             insertion |-> c.insertion \ {<<e.inserted_at, e.sequence, k>>},
             sequence |-> c.sequence]
    BY Zenon, <1>2 DEF RemoveEntry, Without, Indexed
  <2> HIDE DEF r
  <2>2. /\ DOMAIN r.entries = DOMAIN c.entries \ {k} /\ \A x \in DOMAIN r.entries : r.entries[x] = c.entries[x]
    BY <2>1
  <2>3. r.expiry = {<<r.entries[x].expires_at, r.entries[x].sequence, x>> : x \in DOMAIN r.entries}
    <3>1. \A i : i \in r.expiry <=> i \in c.expiry /\ i # <<e.expires_at, e.sequence, k>>
      BY <2>1
    <3>2. c.expiry = {<<c.entries[x].expires_at, c.entries[x].sequence, x>> : x \in DOMAIN c.entries}
      BY DEF Indexed
    <3>3. ASSUME NEW i \in r.expiry PROVE \E x \in DOMAIN r.entries : i = <<r.entries[x].expires_at, r.entries[x].sequence, x>>
      BY <2>2, <3>1, <3>2
    <3>4. ASSUME NEW x \in DOMAIN r.entries PROVE <<r.entries[x].expires_at, r.entries[x].sequence, x>> \in r.expiry
      BY <2>2, <3>1, <3>2
    <3> QED BY <3>3, <3>4
  <2>4. r.insertion = {<<r.entries[x].inserted_at, r.entries[x].sequence, x>> : x \in DOMAIN r.entries}
    <3>1. \A i : i \in r.insertion <=> i \in c.insertion /\ i # <<e.inserted_at, e.sequence, k>>
      BY <2>1
    <3>2. c.insertion = {<<c.entries[x].inserted_at, c.entries[x].sequence, x>> : x \in DOMAIN c.entries}
      BY DEF Indexed
    <3>3. ASSUME NEW i \in r.insertion PROVE \E x \in DOMAIN r.entries : i = <<r.entries[x].inserted_at, r.entries[x].sequence, x>>
      BY <2>2, <3>1, <3>2
    <3>4. ASSUME NEW x \in DOMAIN r.entries PROVE <<r.entries[x].inserted_at, r.entries[x].sequence, x>> \in r.insertion
      BY <2>2, <3>1, <3>2
    <3> QED BY <3>3, <3>4
  <2>5. r.sequence = c.sequence /\ r.entries \in [DOMAIN r.entries -> EntryType]
    BY <2>1, <2>2 DEF Indexed
  <2>6. r = [entries |-> r.entries, expiry |-> r.expiry, insertion |-> r.insertion, sequence |-> r.sequence]
    BY <2>1
  <2>7. Indexed(r, life, now)
    BY <2>2, <2>3, <2>4, <2>5, <2>6 DEF Indexed
  <2> QED BY <2>2, <2>5, <2>7 DEF r
<1> QED BY <1>1, <1>2

LEMMA ExpireKept ==
  ASSUME NEW c, NEW life, NEW now, Indexed(c, life, now), NEW t \in Nat
  PROVE  Kept(c, ExpireEntries(c, t), {k \in DOMAIN c.entries : c.entries[k].expires_at <= t}, life, now)
<1> USE DEF Kept
<1> DEFINE r == ExpireEntries(c, t)
           gone == {i[3] : i \in {j \in c.expiry : j[1] <= t}}
           due == {k \in DOMAIN c.entries : c.entries[k].expires_at <= t}
<1>1. gone = due
  <2>1. c.expiry = {<<c.entries[x].expires_at, c.entries[x].sequence, x>> : x \in DOMAIN c.entries}
    BY DEF Indexed
  <2>2. ASSUME NEW k \in due PROVE k \in gone
    <3> DEFINE i == <<c.entries[k].expires_at, c.entries[k].sequence, k>>
    <3>1. i \in c.expiry /\ i[1] <= t /\ i[3] = k
      BY <2>1
    <3> QED BY <3>1
  <2>3. ASSUME NEW k \in gone PROVE k \in due
    BY <2>1
  <2> QED BY <2>2, <2>3
<1>2. r = [entries |-> [k \in DOMAIN c.entries \ due |-> c.entries[k]],
           expiry |-> {i \in c.expiry : i[3] \notin due},
           insertion |-> {i \in c.insertion : i[3] \notin due}, sequence |-> c.sequence]
  <2>1. r = RemoveAll(c, due)
    BY Zenon, <1>1 DEF ExpireEntries
  <2>2. c = [entries |-> c.entries, expiry |-> c.expiry, insertion |-> c.insertion, sequence |-> c.sequence]
    BY DEF Indexed
  <2> HIDE DEF r, due
  <2> QED BY Zenon, <2>1, <2>2 DEF RemoveAll
<1> HIDE DEF r, due
<1>3. DOMAIN r.entries = DOMAIN c.entries \ due /\ \A x \in DOMAIN r.entries : r.entries[x] = c.entries[x]
  BY <1>2
<1>4. r.expiry = {<<r.entries[x].expires_at, r.entries[x].sequence, x>> : x \in DOMAIN r.entries}
  <2>1. \A i : i \in r.expiry <=> i \in c.expiry /\ i[3] \notin due
    BY <1>2
  <2>2. c.expiry = {<<c.entries[x].expires_at, c.entries[x].sequence, x>> : x \in DOMAIN c.entries}
    BY DEF Indexed
  <2>3. ASSUME NEW i \in r.expiry PROVE \E x \in DOMAIN r.entries : i = <<r.entries[x].expires_at, r.entries[x].sequence, x>>
    BY <1>3, <2>1, <2>2
  <2>4. ASSUME NEW x \in DOMAIN r.entries PROVE <<r.entries[x].expires_at, r.entries[x].sequence, x>> \in r.expiry
    BY <1>3, <2>1, <2>2
  <2> QED BY <2>3, <2>4
<1>5. r.insertion = {<<r.entries[x].inserted_at, r.entries[x].sequence, x>> : x \in DOMAIN r.entries}
  <2>1. \A i : i \in r.insertion <=> i \in c.insertion /\ i[3] \notin due
    BY <1>2
  <2>2. c.insertion = {<<c.entries[x].inserted_at, c.entries[x].sequence, x>> : x \in DOMAIN c.entries}
    BY DEF Indexed
  <2>3. ASSUME NEW i \in r.insertion PROVE \E x \in DOMAIN r.entries : i = <<r.entries[x].inserted_at, r.entries[x].sequence, x>>
    BY <1>3, <2>1, <2>2
  <2>4. ASSUME NEW x \in DOMAIN r.entries PROVE <<r.entries[x].inserted_at, r.entries[x].sequence, x>> \in r.insertion
    BY <1>3, <2>1, <2>2
  <2> QED BY <2>3, <2>4
<1>6. r.sequence = c.sequence /\ r.entries \in [DOMAIN r.entries -> EntryType]
  BY <1>2, <1>3 DEF Indexed
<1>7. r = [entries |-> r.entries, expiry |-> r.expiry, insertion |-> r.insertion, sequence |-> r.sequence]
  BY <1>2
<1>8. Indexed(r, life, now)
  BY <1>3, <1>4, <1>5, <1>6, <1>7 DEF Indexed
<1> QED BY <1>3, <1>6, <1>8 DEF r, due


\* The entry a full cache gives up was stored no later than any other.
LEMMA EvictKept ==
  ASSUME NeighborAssumption, NEW c, NEW life, NEW now, Indexed(c, life, now), NEW k, NEW limit \in Nat \ {0}
  PROVE  \/ /\ k \in DOMAIN c.entries \/ Cardinality(DOMAIN c.entries) < limit
            /\ Evict(c, k, limit) = c
         \/ /\ k \notin DOMAIN c.entries /\ Cardinality(DOMAIN c.entries) >= limit
            /\ \E x \in DOMAIN c.entries :
                 /\ Kept(c, Evict(c, k, limit), {x}, life, now)
                 /\ \A j \in DOMAIN c.entries : c.entries[x].inserted_at <= c.entries[j].inserted_at
<1>1. /\ DOMAIN c.entries \subseteq Keys /\ c.entries \in [DOMAIN c.entries -> EntryType]
      /\ c.insertion = {<<c.entries[j].inserted_at, c.entries[j].sequence, j>> : j \in DOMAIN c.entries}
      /\ \A i, j \in DOMAIN c.entries : c.entries[i].sequence = c.entries[j].sequence => i = j
  BY DEF Indexed
<1>2. IsFiniteSet(DOMAIN c.entries) /\ Cardinality(DOMAIN c.entries) \in Nat
  BY <1>1, FS_Subset, FS_CardinalityType DEF NeighborAssumption
<1>4. CASE k \in DOMAIN c.entries \/ Cardinality(DOMAIN c.entries) < limit
  BY <1>2, <1>4 DEF Evict
<1>5. CASE k \notin DOMAIN c.entries /\ Cardinality(DOMAIN c.entries) >= limit
  <2>1. DOMAIN c.entries # {}
    BY <1>2, <1>5, FS_EmptySet
  <2>2. c.insertion # {}
    <3>1. PICK j \in DOMAIN c.entries : TRUE
      BY <2>1
    <3>2. <<c.entries[j].inserted_at, c.entries[j].sequence, j>> \in c.insertion
      BY <1>1
    <3> QED BY <3>2
  <2>3. \A j \in DOMAIN c.entries : c.entries[j].inserted_at \in Nat /\ c.entries[j].sequence \in Nat
    BY <1>1 DEF EntryType
  <2>4. c.insertion \subseteq Nat \X Nat \X Keys
    BY <1>1, <2>3
  <2>5. \A a, b \in c.insertion : a[2] = b[2] => a = b
    BY <1>1
  <2> DEFINE f == First(c.insertion)
  <2>6. f \in c.insertion /\ \A b \in c.insertion \ {f} : Before(f, b)
    BY <2>2, <2>4, <2>5, FirstIsLeast
  <2>7. PICK x \in DOMAIN c.entries : f = <<c.entries[x].inserted_at, c.entries[x].sequence, x>>
    BY <1>1, <2>6
  <2>8. Evict(c, k, limit) = RemoveEntry(c, x)
    BY <1>5, <2>2, <2>7 DEF Evict
  <2>9. ASSUME NEW j \in DOMAIN c.entries PROVE c.entries[x].inserted_at <= c.entries[j].inserted_at
    <3> DEFINE b == <<c.entries[j].inserted_at, c.entries[j].sequence, j>>
    <3>1. b \in c.insertion
      BY <1>1
    <3>2. b = f \/ Before(f, b)
      BY <2>6, <3>1
    <3>3. CASE b = f
      BY <2>3, <2>7, <3>3
    <3>4. CASE Before(f, b)
      BY <2>3, <2>7, <3>4 DEF Before
    <3> QED BY <3>2, <3>3, <3>4
  <2> QED BY <1>5, <2>8, <2>9, RemoveKept
<1>6. Cardinality(DOMAIN c.entries) < limit \/ Cardinality(DOMAIN c.entries) >= limit
  BY <1>2
<1> QED BY Zenon, <1>4, <1>5, <1>6

\* What insertion leaves of c: the new entry, and the others but the expired and, in a full
\* cache, the oldest.  The two orderings and the limit are kept.
Inserted(c, r, k, mac, origin, t, life, limit, now) ==
  /\ Indexed(r, life, now) /\ Cardinality(DOMAIN r.entries) <= limit
  /\ k \in DOMAIN r.entries /\ r.entries[k].origin = origin /\ r.entries[k].mac_address = mac
  /\ r.entries[k].sequence = c.sequence
  /\ DOMAIN r.entries \subseteq DOMAIN c.entries \cup {k}
  /\ \A j \in DOMAIN r.entries \ {k} : r.entries[j] = c.entries[j]
  /\ \A x \in DOMAIN c.entries \ DOMAIN r.entries :
       \/ c.entries[x].expires_at <= t
       \/ /\ k \notin DOMAIN c.entries /\ Cardinality(DOMAIN c.entries) >= limit
          /\ \A j \in DOMAIN r.entries \ {k} : c.entries[x].inserted_at <= c.entries[j].inserted_at

LEMMA InsertKept ==
  ASSUME NeighborAssumption, NEW c, NEW life \in Nat, NEW now \in Nat, Indexed(c, life, now),
         NEW k \in Keys, NEW mac \in Keys, NEW origin \in Locked, NEW t \in Nat, t <= now,
         NEW limit \in Nat \ {0}, Cardinality(DOMAIN c.entries) <= limit,
         NEW r, r = Insert(c, k, mac, origin, t, life, limit)
  PROVE  Inserted(c, r, k, mac, origin, t, life, limit, now)
<1> DEFINE live == ExpireEntries(c, t)
           left == Evict(live, k, limit)
           room == RemoveEntry(left, k)
           entry == [mac_address |-> mac, inserted_at |-> t, expires_at |-> t + life,
                     sequence |-> room.sequence, origin |-> origin]
<1>0. IsFiniteSet(DOMAIN c.entries)
  BY FS_Subset DEF Indexed, NeighborAssumption
<1>1. Kept(c, live, {j \in DOMAIN c.entries : c.entries[j].expires_at <= t}, life, now)
  BY ExpireKept
<1>2. PICK S : /\ Kept(live, left, S, life, now)
               /\ S # {} => /\ k \notin DOMAIN live.entries /\ Cardinality(DOMAIN live.entries) >= limit
                            /\ \E x \in DOMAIN live.entries : S = {x} /\
                                 \A j \in DOMAIN live.entries : live.entries[x].inserted_at <= live.entries[j].inserted_at
               /\ S = {} => k \in DOMAIN live.entries \/ Cardinality(DOMAIN live.entries) < limit
  <2> HIDE DEF live
  <2>1. Indexed(live, life, now)
    BY <1>1 DEF Kept
  <2>2. CASE left = live /\ (k \in DOMAIN live.entries \/ Cardinality(DOMAIN live.entries) < limit)
    <3>1. Kept(live, left, {}, life, now)
      BY <2>1, <2>2 DEF Kept
    <3> QED BY <2>2, <3>1
  <2>3. CASE /\ k \notin DOMAIN live.entries /\ Cardinality(DOMAIN live.entries) >= limit
             /\ \E x \in DOMAIN live.entries :
                  /\ Kept(live, left, {x}, life, now)
                  /\ \A j \in DOMAIN live.entries : live.entries[x].inserted_at <= live.entries[j].inserted_at
    BY <2>3
  <2> QED BY Zenon, <2>1, <2>2, <2>3, EvictKept
<1>3. Kept(left, room, {k}, life, now)
  BY <1>2, RemoveKept DEF Kept
<1>4. r = [entries |-> [x \in DOMAIN room.entries \cup {k} |-> IF x = k THEN entry ELSE room.entries[x]],
           expiry |-> room.expiry \cup {<<t + life, room.sequence, k>>},
           insertion |-> room.insertion \cup {<<t, room.sequence, k>>},
           sequence |-> room.sequence + 1]
  BY DEF Insert
<1> HIDE DEF live, left, room, entry
<1>5. Indexed(room, life, now) /\ k \notin DOMAIN room.entries /\ room.sequence = c.sequence
  BY <1>1, <1>2, <1>3 DEF Kept
<1>6. /\ DOMAIN r.entries = DOMAIN room.entries \cup {k} /\ r.entries[k] = entry
      /\ \A x \in DOMAIN room.entries : r.entries[x] = room.entries[x]
  BY <1>4, <1>5
<1>7. Indexed(r, life, now)
  <2>1. c.sequence \in Nat
    BY DEF Indexed
  <2>2. entry \in EntryType /\ entry.inserted_at = t /\ entry.expires_at = t + life /\ entry.sequence = c.sequence
    BY <1>5, <2>1 DEF entry, EntryType
  <2>3. r.sequence = c.sequence + 1
    BY <1>4, <1>5
  <2>4. DOMAIN r.entries \subseteq Keys /\ r.entries \in [DOMAIN r.entries -> EntryType]
    <3>1. DOMAIN room.entries \subseteq Keys /\ room.entries \in [DOMAIN room.entries -> EntryType]
      BY <1>5 DEF Indexed
    <3>2. r.entries = [x \in DOMAIN r.entries |-> r.entries[x]]
      BY <1>4
    <3>3. \A x \in DOMAIN r.entries : r.entries[x] \in EntryType
      BY <1>6, <2>2, <3>1
    <3> QED BY <1>6, <3>1, <3>2, <3>3
  <2>5. \A j \in DOMAIN room.entries : room.entries[j].sequence \in Nat /\ room.entries[j].sequence < c.sequence
    BY <1>5 DEF Indexed, EntryType
  <2>6. \A j, x \in DOMAIN r.entries : r.entries[j].sequence = r.entries[x].sequence => j = x
    <3>1. \A j, x \in DOMAIN room.entries : room.entries[j].sequence = room.entries[x].sequence => j = x
      BY <1>5 DEF Indexed
    <3> QED BY <1>6, <2>1, <2>2, <2>5, <3>1
  <2>7. ASSUME NEW j \in DOMAIN r.entries
        PROVE  /\ r.entries[j].sequence < r.sequence
               /\ r.entries[j].expires_at = r.entries[j].inserted_at + life /\ r.entries[j].inserted_at <= now
    <3>1. CASE j = k
      BY <1>6, <2>1, <2>2, <2>3, <3>1
    <3>2. CASE j # k
      <4>1. /\ room.entries[j].expires_at = room.entries[j].inserted_at + life
            /\ room.entries[j].inserted_at <= now
        BY <1>5, <1>6, <3>2 DEF Indexed
      <4> QED BY <1>6, <2>1, <2>3, <2>5, <3>2, <4>1
    <3> QED BY <3>1, <3>2
  <2>8. r.expiry = {<<r.entries[j].expires_at, r.entries[j].sequence, j>> : j \in DOMAIN r.entries}
    <3>1. room.expiry = {<<room.entries[j].expires_at, room.entries[j].sequence, j>> : j \in DOMAIN room.entries}
      BY <1>5 DEF Indexed
    <3>2. r.expiry = room.expiry \cup {<<entry.expires_at, entry.sequence, k>>}
      BY <1>4, <1>5, <2>2
    <3> QED BY <1>6, <3>1, <3>2
  <2>9. r.insertion = {<<r.entries[j].inserted_at, r.entries[j].sequence, j>> : j \in DOMAIN r.entries}
    <3>1. room.insertion = {<<room.entries[j].inserted_at, room.entries[j].sequence, j>> : j \in DOMAIN room.entries}
      BY <1>5 DEF Indexed
    <3>2. r.insertion = room.insertion \cup {<<entry.inserted_at, entry.sequence, k>>}
      BY <1>4, <1>5, <2>2
    <3> QED BY <1>6, <3>1, <3>2
  <2>10. r = [entries |-> r.entries, expiry |-> r.expiry, insertion |-> r.insertion, sequence |-> r.sequence]
    BY <1>4
  <2> QED BY <2>1, <2>3, <2>4, <2>6, <2>7, <2>8, <2>9, <2>10 DEF Indexed
<1>8. /\ DOMAIN live.entries \subseteq DOMAIN c.entries /\ DOMAIN left.entries = DOMAIN live.entries \ S
      /\ DOMAIN room.entries = DOMAIN left.entries \ {k}
  BY <1>1, <1>2, <1>3 DEF Kept
<1>9. Cardinality(DOMAIN r.entries) <= limit
  <2>1. /\ IsFiniteSet(DOMAIN live.entries) /\ Cardinality(DOMAIN live.entries) \in Nat
        /\ Cardinality(DOMAIN live.entries) <= limit
    <3>1. /\ IsFiniteSet(DOMAIN live.entries) /\ Cardinality(DOMAIN live.entries) <= Cardinality(DOMAIN c.entries)
      BY <1>0, <1>8, FS_Subset
    <3>2. Cardinality(DOMAIN live.entries) \in Nat /\ Cardinality(DOMAIN c.entries) \in Nat
      BY <1>0, <3>1, FS_CardinalityType
    <3> QED BY <3>1, <3>2
  <2>2. CASE k \in DOMAIN live.entries
    <3>1. DOMAIN r.entries = DOMAIN live.entries
      <4>1. S = {}
        BY <1>2, <2>2
      <4> QED BY <1>6, <1>8, <2>2, <4>1
    <3> QED BY <2>1, <3>1
  <2>3. CASE k \notin DOMAIN live.entries /\ S = {}
    <3>1. DOMAIN r.entries = DOMAIN live.entries \cup {k} /\ Cardinality(DOMAIN live.entries) < limit
      BY <1>2, <1>6, <1>8, <2>3
    <3>2. Cardinality(DOMAIN live.entries \cup {k}) = Cardinality(DOMAIN live.entries) + 1
      BY Zenon, <2>1, <2>3, FS_AddElement
    <3> QED BY <2>1, <3>1, <3>2
  <2>4. CASE k \notin DOMAIN live.entries /\ S # {}
    <3>1. PICK x \in DOMAIN live.entries : S = {x}
      BY <1>2, <2>4
    <3>2. DOMAIN r.entries = (DOMAIN live.entries \ {x}) \cup {k} /\ k \notin DOMAIN live.entries \ {x}
      BY <1>6, <1>8, <2>4, <3>1
    <3>3. IsFiniteSet(DOMAIN live.entries \ {x})
          /\ Cardinality(DOMAIN live.entries \ {x}) = Cardinality(DOMAIN live.entries) - 1
      BY <2>1, FS_RemoveElement
    <3>4. Cardinality((DOMAIN live.entries \ {x}) \cup {k}) = Cardinality(DOMAIN live.entries \ {x}) + 1
      BY Zenon, <3>2, <3>3, FS_AddElement
    <3> QED BY <2>1, <3>2, <3>3, <3>4
  <2> QED BY <2>2, <2>3, <2>4
<1>10. \A j \in DOMAIN r.entries \ {k} : r.entries[j] = c.entries[j]
  BY <1>1, <1>2, <1>3, <1>6 DEF Kept
<1>11. ASSUME NEW x \in DOMAIN c.entries \ DOMAIN r.entries, ~(c.entries[x].expires_at <= t)
       PROVE  /\ k \notin DOMAIN c.entries /\ Cardinality(DOMAIN c.entries) >= limit
              /\ \A j \in DOMAIN r.entries \ {k} : c.entries[x].inserted_at <= c.entries[j].inserted_at
  <2>1. x \in DOMAIN live.entries /\ x # k
    BY <1>1, <1>6, <1>11 DEF Kept
  <2>2. x \in S
    BY <1>6, <1>8, <1>11, <2>1
  <2>3. /\ k \notin DOMAIN live.entries /\ Cardinality(DOMAIN live.entries) >= limit
        /\ \A j \in DOMAIN live.entries : live.entries[x].inserted_at <= live.entries[j].inserted_at
    BY <1>2, <2>2
  <2>4. Cardinality(DOMAIN c.entries) >= limit /\ DOMAIN live.entries = DOMAIN c.entries
    <3>1. Cardinality(DOMAIN live.entries) <= Cardinality(DOMAIN c.entries)
      BY <1>0, <1>8, FS_Subset
    <3>2. IsFiniteSet(DOMAIN live.entries)
      BY <1>0, <1>8, FS_Subset
    <3>3. Cardinality(DOMAIN live.entries) \in Nat /\ Cardinality(DOMAIN c.entries) \in Nat
      BY <1>0, <3>2, FS_CardinalityType
    <3>4. Cardinality(DOMAIN live.entries) = Cardinality(DOMAIN c.entries)
      BY <2>3, <3>1, <3>3
    <3>5. DOMAIN live.entries = DOMAIN c.entries
      BY <1>0, <1>8, <3>4, FS_Subset
    <3> QED BY <2>3, <3>3, <3>4, <3>5
  <2>5. ASSUME NEW j \in DOMAIN r.entries \ {k} PROVE c.entries[x].inserted_at <= c.entries[j].inserted_at
    <3>1. j \in DOMAIN live.entries
      BY <1>6, <1>8
    <3>2. live.entries[x] = c.entries[x] /\ live.entries[j] = c.entries[j]
      BY <1>1, <2>1, <3>1 DEF Kept
    <3> QED BY <2>3, <3>1, <3>2
  <2> QED BY <2>3, <2>4, <2>5
<1>12. /\ k \in DOMAIN r.entries /\ r.entries[k].origin = origin /\ r.entries[k].mac_address = mac
       /\ r.entries[k].sequence = c.sequence /\ DOMAIN r.entries \subseteq DOMAIN c.entries \cup {k}
  BY <1>5, <1>6, <1>8 DEF entry
<1> QED BY Zenon, <1>7, <1>9, <1>10, <1>11, <1>12 DEF Inserted

LEMMA CacheLimits ==
  ASSUME NeighborAssumption, NEW c \in Caches
  PROVE  /\ Life(c) \in Nat /\ Capacity(c) \in Nat \ {0}
         /\ Life("operation") = Horizon + 1 /\ Capacity("operation") >= operation_entries
         /\ Life("shared") = cache_ttl
BY DEF NeighborAssumption, Caches, Life, Capacity

LEMMA IndexedLater ==
  ASSUME NEW c, NEW life, NEW now \in Nat, Indexed(c, life, now)
  PROVE  Indexed(c, life, now + 1)
<1>1. \A k \in DOMAIN c.entries : c.entries[k].inserted_at \in Nat
  BY DEF Indexed, EntryType
<1> QED BY <1>1 DEF Indexed

LEMMA IndexedSame ==
  ASSUME NEW c \in Caches, Indexed(cache'[c], Life(c), clock')
  PROVE  Indexed(cache[c], Life(c), clock)'
BY Zenon DEF Indexed, Life, EntryType, Locked

\* One cache takes a new value; the other stays as it is.
LEMMA CacheUpdated ==
  ASSUME NeighborAssumption, CacheInv, NEW c0 \in Caches, NEW r,
         cache' = [cache EXCEPT ![c0] = r], clock' = clock,
         Indexed(r, Life(c0), clock), Cardinality(DOMAIN r.entries) <= Capacity(c0),
         c0 = "shared" => \A k \in DOMAIN r.entries :
                            r.entries[k].origin = "shared_locked" /\ r.entries[k].mac_address = k
  PROVE  CacheInv'
<1>1. DOMAIN cache' = Caches /\ cache'[c0] = r /\ \A c \in Caches \ {c0} : cache'[c] = cache[c]
  BY DEF CacheInv
<1>2. ASSUME NEW c \in Caches
      PROVE  /\ Indexed(cache'[c], Life(c), clock')
             /\ Cardinality(DOMAIN cache'[c].entries) <= Capacity(c)
  <2>1. CASE c = c0
    BY <1>1, <2>1
  <2>2. CASE c # c0
    BY <1>1, <2>2 DEF CacheInv
  <2> QED BY <2>1, <2>2
<1>3. \A c \in Caches : Indexed(cache[c], Life(c), clock)'
  BY <1>2, IndexedSame
<1>4. \A c \in Caches : (Cardinality(DOMAIN cache[c].entries) <= Capacity(c))'
  BY <1>2 DEF Capacity
<1>5. \A k \in DOMAIN cache'["shared"].entries :
        /\ cache'["shared"].entries[k].origin = "shared_locked" /\ cache'["shared"].entries[k].mac_address = k
  <2>1. CASE c0 = "shared"
    BY <1>1, <2>1
  <2>2. CASE c0 # "shared"
    BY <1>1, <2>2 DEF CacheInv, Caches, Entry
  <2> QED BY <2>1, <2>2
<1> QED BY <1>1, <1>3, <1>4, <1>5 DEF CacheInv, Entry, Caches

\* A lookup at most drops the entry it looked for.
LEMMA GetKept ==
  ASSUME NeighborAssumption, NEW c, NEW life, NEW limit \in Nat, Indexed(c, life, clock),
         Cardinality(DOMAIN c.entries) <= limit, NEW k,
         NEW r, r = Get(c, k)
  PROVE  /\ Indexed(r, life, clock) /\ Cardinality(DOMAIN r.entries) <= limit
         /\ DOMAIN r.entries \subseteq DOMAIN c.entries
         /\ \A j \in DOMAIN r.entries : r.entries[j] = c.entries[j]
         /\ \A j \in DOMAIN c.entries \ DOMAIN r.entries : ~(c.entries[j].expires_at > clock)
         /\ Hit(c, k) => r = c
<1>1. CASE Hit(c, k)
  BY <1>1 DEF Get
<1>2. CASE ~Hit(c, k)
  <2>1. r = RemoveEntry(c, k)
    BY <1>2 DEF Get
  <2>2. /\ Indexed(r, life, clock) /\ DOMAIN r.entries = DOMAIN c.entries \ {k}
        /\ \A j \in DOMAIN r.entries : r.entries[j] = c.entries[j]
    BY <2>1, RemoveKept DEF Kept
  <2>3. IsFiniteSet(DOMAIN c.entries)
    BY FS_Subset DEF Indexed, NeighborAssumption
  <2>4. Cardinality(DOMAIN r.entries) <= Cardinality(DOMAIN c.entries) /\ IsFiniteSet(DOMAIN r.entries)
    BY <2>2, <2>3, FS_Subset
  <2>5. Cardinality(DOMAIN r.entries) \in Nat /\ Cardinality(DOMAIN c.entries) \in Nat
    BY <2>3, <2>4, FS_CardinalityType
  <2>6. Cardinality(DOMAIN r.entries) <= limit
    BY <2>4, <2>5
  <2>7. ASSUME NEW j \in DOMAIN c.entries \ DOMAIN r.entries PROVE ~(c.entries[j].expires_at > clock)
    BY <1>2, <2>2 DEF Hit
  <2> QED BY <1>2, <2>2, <2>6, <2>7
<1> QED BY <1>1, <1>2

\* An operation's entry outlives the operation, and there is room for every target.
LEMMA PinnedStays ==
  ASSUME NeighborAssumption, CallTypes, CacheInv, PinnedInv
  PROVE  /\ \A k \in DOMAIN cache["operation"].entries : cache["operation"].entries[k].expires_at > clock
         /\ \A k : Get(cache["operation"], k) = cache["operation"]
         /\ \A k : Hit(cache["operation"], k) <=> k \in DOMAIN cache["operation"].entries
         /\ \A k \in Targets \ DOMAIN cache["operation"].entries :
              Cardinality(DOMAIN cache["operation"].entries) < Capacity("operation")
<1> DEFINE c == cache["operation"]
<1>1. Indexed(c, Horizon + 1, clock) /\ clock \in Nat /\ clock <= Horizon /\ Horizon \in Nat
  BY CacheLimits DEF CacheInv, CallTypes, NeighborAssumption, Caches
<1>2. ASSUME NEW k \in DOMAIN c.entries PROVE c.entries[k].expires_at > clock
  <2>1. c.entries[k].inserted_at \in Nat /\ c.entries[k].expires_at = c.entries[k].inserted_at + (Horizon + 1)
    BY <1>1 DEF Indexed, EntryType
  <2> QED BY <1>1, <2>1
<1>3. \A k : Hit(c, k) <=> k \in DOMAIN c.entries
  BY <1>2 DEF Hit
<1>4. \A k : Get(c, k) = c
  BY <1>3 DEF Get, RemoveEntry
<1>5. ASSUME NEW k \in Targets \ DOMAIN c.entries PROVE Cardinality(DOMAIN c.entries) < Capacity("operation")
  <2>1. IsFiniteSet(Targets) /\ DOMAIN c.entries \cup {k} \subseteq Targets
    BY FS_Subset DEF NeighborAssumption, PinnedInv
  <2>2. IsFiniteSet(DOMAIN c.entries) /\ Cardinality(DOMAIN c.entries \cup {k}) <= Cardinality(Targets)
    BY <2>1, FS_Subset
  <2>3. Cardinality(DOMAIN c.entries \cup {k}) = Cardinality(DOMAIN c.entries) + 1
    BY Zenon, <2>2, FS_AddElement
  <2>4. Cardinality(DOMAIN c.entries) \in Nat /\ Cardinality(Targets) \in Nat
    BY <2>1, <2>2, FS_CardinalityType
  <2>5. Cardinality(Targets) <= operation_entries /\ operation_entries \in Nat
    BY DEF NeighborAssumption
  <2>6. Capacity("operation") >= operation_entries /\ Capacity("operation") \in Nat
    BY CacheLimits DEF Caches
  <2> QED BY <2>2, <2>3, <2>4, <2>5, <2>6
<1> QED BY <1>2, <1>3, <1>4, <1>5


\* What a step stores: the facts of InsertKept about the cache it stores into.
LEMMA StoredKept ==
  ASSUME NeighborAssumption, CallTypes, CacheInv, NEW u \in Callers, NEW c \in Caches,
         call[u].pc \in Locked, c = "shared" => call[u].pc = "shared_locked", Stored(u, c), clock' = clock
  PROVE  /\ CacheInv' /\ call[u].key \in DOMAIN cache'[c].entries
         /\ DOMAIN cache'[c].entries \subseteq DOMAIN cache[c].entries \cup {call[u].key}
         /\ \A d \in Caches \ {c} : cache'[d] = cache[d]
         /\ cache'[c].entries[call[u].key].sequence = cache[c].sequence
         /\ \A j \in DOMAIN cache'[c].entries \ {call[u].key} : cache'[c].entries[j] = cache[c].entries[j]
         /\ \A x \in DOMAIN cache[c].entries \ DOMAIN cache'[c].entries :
              \/ cache[c].entries[x].expires_at <= call[u].now
              \/ /\ call[u].key \notin DOMAIN cache[c].entries
                 /\ Cardinality(DOMAIN cache[c].entries) >= Capacity(c)
                 /\ \A j \in DOMAIN cache'[c].entries \ {call[u].key} :
                      cache[c].entries[x].inserted_at <= cache[c].entries[j].inserted_at
<1> DEFINE k == call[u].key
           t == call[u].now
           o == call[u].pc
           r == Insert(cache[c], k, k, o, t, Life(c), Capacity(c))
<1>1. k \in Keys /\ t \in Nat /\ t <= clock /\ clock \in Nat
  <2>1. call[u] \in [pc : Places, key : Keys \cup {NoKey}, now : Nat, known : BOOLEAN]
    BY DEF CallTypes
  <2>2. o # "idle"
    BY DEF Locked
  <2> QED BY <2>1, <2>2 DEF CallTypes
<1>2. Life(c) \in Nat /\ Capacity(c) \in Nat \ {0}
  BY CacheLimits
<1>3. Indexed(cache[c], Life(c), clock) /\ Cardinality(DOMAIN cache[c].entries) <= Capacity(c)
  BY DEF CacheInv
<1>4. cache' = [cache EXCEPT ![c] = r] /\ cache'[c] = r /\ \A d \in Caches \ {c} : cache'[d] = cache[d]
  BY DEF Stored, CacheInv
<1> HIDE DEF k, t, o, r
<1>5. /\ Indexed(r, Life(c), clock) /\ Cardinality(DOMAIN r.entries) <= Capacity(c)
      /\ k \in DOMAIN r.entries /\ r.entries[k].origin = o /\ r.entries[k].mac_address = k
      /\ r.entries[k].sequence = cache[c].sequence
      /\ DOMAIN r.entries \subseteq DOMAIN cache[c].entries \cup {k}
      /\ \A j \in DOMAIN r.entries \ {k} : r.entries[j] = cache[c].entries[j]
      /\ \A x \in DOMAIN cache[c].entries \ DOMAIN r.entries :
           \/ cache[c].entries[x].expires_at <= t
           \/ /\ k \notin DOMAIN cache[c].entries /\ Cardinality(DOMAIN cache[c].entries) >= Capacity(c)
              /\ \A j \in DOMAIN r.entries \ {k} : cache[c].entries[x].inserted_at <= cache[c].entries[j].inserted_at
  <2>1. o \in Locked
    BY DEF o
  <2> DEFINE v == cache[c]
             life == Life(c)
             limit == Capacity(c)
  <2>2. r = Insert(v, k, k, o, t, life, limit)
    BY DEF r
  <2>3. /\ life \in Nat /\ limit \in Nat \ {0} /\ Indexed(v, life, clock)
        /\ Cardinality(DOMAIN v.entries) <= limit
    BY <1>2, <1>3
  <2> HIDE DEF v, life, limit
  <2>4. Inserted(v, r, k, k, o, t, life, limit, clock)
    BY Zenon, <1>1, <2>1, <2>2, <2>3, InsertKept
  <2> QED BY Zenon, <2>4 DEF Inserted, v, life, limit
<1>6. c = "shared" => \A j \in DOMAIN r.entries : r.entries[j].origin = "shared_locked" /\ r.entries[j].mac_address = j
  <2> SUFFICES ASSUME c = "shared", NEW j \in DOMAIN r.entries
               PROVE  r.entries[j].origin = "shared_locked" /\ r.entries[j].mac_address = j
    OBVIOUS
  <2>1. CASE j = k
    BY <1>5, <2>1 DEF o
  <2>2. CASE j # k
    <3>1. j \in DOMAIN cache["shared"].entries /\ r.entries[j] = cache["shared"].entries[j]
      BY <1>5, <2>2
    <3> QED BY <3>1 DEF CacheInv, Entry
  <2> QED BY <2>1, <2>2
<1>7. CacheInv'
  BY Zenon, <1>4, <1>5, <1>6, CacheUpdated
<1> QED BY Zenon, <1>4, <1>5, <1>7 DEF k, t

LEMMA CallsTyped ==
  ASSUME NeighborAssumption, NeighborInv, NeighborNext
  PROVE  CallTypes'
<1> DEFINE R == [pc : Places, key : Keys \cup {NoKey}, now : Nat, known : BOOLEAN]
<1>0. /\ clock \in 0..Horizon /\ answered \subseteq Targets /\ call \in [Callers -> R]
      /\ \A v \in Callers : call[v].now <= clock /\ (call[v].pc # "idle" => call[v].key \in Keys)
      /\ Horizon \in Nat /\ Targets \subseteq Keys
  BY DEF NeighborInv, CallTypes, NeighborAssumption
<1>a. clock \in Nat /\ 0 <= clock /\ clock <= clock
  BY <1>0
<1>1. CASE Tick
  BY <1>0, <1>1 DEF Tick, CallTypes
<1>2. ASSUME NEW u \in Callers, NEW r \in R, call' = [call EXCEPT ![u] = r], clock' = clock, answered' \subseteq Targets,
             r.now <= clock, r.pc # "idle" => r.key \in Keys
      PROVE  CallTypes'
  <2> HIDE DEF R
  <2>1. call' \in [Callers -> R]
    BY <1>0, <1>2
  <2>2. \A v \in Callers : call'[v].now <= clock' /\ (call'[v].pc # "idle" => call'[v].key \in Keys)
    BY <1>0, <1>2
  <2> QED BY <1>0, <1>2, <2>1, <2>2 DEF CallTypes, R
<1>3. ASSUME NEW u \in Callers, NEW p \in Places \ {"idle"}, call[u].pc # "idle", To(u, p), clock' = clock,
             answered' \subseteq Targets
      PROVE  CallTypes'
  <2> DEFINE r == [call[u] EXCEPT !.pc = p]
  <2>1. call[u] \in R
    BY <1>0
  <2>2. r \in R /\ r.now = call[u].now /\ r.key = call[u].key
    BY <2>1
  <2>3. call' = [call EXCEPT ![u] = r]
    BY <1>3 DEF To
  <2> QED BY Zenon, <1>0, <1>2, <1>3, <2>2, <2>3
<1>4. ASSUME NEW u \in Callers, NEW o, Return(u, o), clock' = clock, call[u].pc # "idle"
      PROVE  CallTypes'
  <2>1. Idle \in R /\ Idle.now = 0 /\ Idle.pc = "idle"
    BY DEF Idle, Places
  <2>2. answered' \subseteq Targets
    BY <1>0, <1>4 DEF Return, NeighborInv, PinnedInv
  <2>3. call' = [call EXCEPT ![u] = Idle]
    BY <1>4 DEF Return
  <2> HIDE DEF R
  <2> QED BY Zenon, <1>a, <1>2, <1>4, <2>1, <2>2, <2>3
<1>5. ASSUME NEW u \in Callers, NEW k \in Keys, Resolve(u, k) PROVE CallTypes'
  <2> DEFINE r == [pc |-> IF u \in Members THEN "operation" ELSE "shared", key |-> k, now |-> 0,
                   known |-> u \in Members /\ k \in answered]
  <2>1. r \in R /\ r.now = 0 /\ r.key = k
    BY DEF Places, MemberSteps
  <2>2. call' = [call EXCEPT ![u] = r] /\ clock' = clock /\ answered' = answered
    BY <1>5 DEF Resolve
  <2> HIDE DEF R, r
  <2> QED BY Zenon, <1>0, <1>a, <1>2, <2>1, <2>2
<1>6. ASSUME NEW u \in Callers, ReadClock(u) PROVE CallTypes'
  <2> DEFINE p == Reading[call[u].pc]
             r == [call[u] EXCEPT !.pc = p, !.now = clock]
  <2>1. p \in Places \ {"idle"} /\ call[u].pc # "idle"
    BY <1>6 DEF ReadClock, Reading, Places, MemberSteps
  <2>2. call[u] \in R
    BY <1>0
  <2> HIDE DEF p
  <2>3. r \in R /\ r.now = clock /\ r.key = call[u].key
    BY Zenon, <1>a, <2>1, <2>2
  <2>4. call' = [call EXCEPT ![u] = r] /\ clock' = clock /\ answered' = answered
    BY Zenon, <1>6 DEF ReadClock, p
  <2>5. r.key \in Keys /\ answered' \subseteq Targets
    BY <1>0, <2>1, <2>3, <2>4
  <2> HIDE DEF R, r
  <2> QED BY Zenon, <1>a, <1>2, <2>3, <2>4, <2>5
<1> USE DEF Places, MemberSteps
<1>7. ASSUME NEW u \in Callers, GetOperation(u) \/ GetShared(u) PROVE CallTypes'
  BY <1>0, <1>3, <1>4, <1>7 DEF GetOperation, GetShared
<1>8. ASSUME NEW u \in Callers, Pin(u) \/ Remember(u) PROVE CallTypes'
  BY <1>4, <1>8 DEF Pin, Remember
<1>9. ASSUME NEW u \in Callers, Exchange(u) \/ RememberOperation(u) PROVE CallTypes'
  BY <1>0, <1>3, <1>4, <1>9 DEF Exchange, RememberOperation
<1> QED BY <1>1, <1>5, <1>6, <1>7, <1>8, <1>9 DEF NeighborNext

LEMMA CachesKept ==
  ASSUME NeighborAssumption, NeighborInv, NeighborNext
  PROVE  CacheInv'
<1>0. CallTypes /\ CacheInv /\ PinnedInv
  BY DEF NeighborInv
<1>1. CASE Tick
  <2>1. clock \in Nat /\ clock' = clock + 1 /\ cache' = cache
    BY <1>0, <1>1 DEF Tick, CallTypes
  <2>2. ASSUME NEW c \in Caches PROVE Indexed(cache[c], Life(c), clock)'
    <3>1. Indexed(cache[c], Life(c), clock + 1)
      BY <1>0, <2>1, IndexedLater DEF CacheInv
    <3> QED BY <2>1, <3>1, IndexedSame
  <2> QED BY <1>0, <2>1, <2>2 DEF CacheInv, Caches, Capacity, Entry
<1>2. ASSUME cache' = cache, clock' = clock PROVE CacheInv'
  <2>1. ASSUME NEW c \in Caches PROVE Indexed(cache[c], Life(c), clock)'
    <3>1. Indexed(cache[c], Life(c), clock)
      BY <1>0 DEF CacheInv
    <3> QED BY <1>2, <3>1, IndexedSame
  <2> QED BY <1>0, <1>2, <2>1 DEF CacheInv, Caches, Capacity, Entry
<1>3. ASSUME NEW u \in Callers, GetOperation(u) PROVE CacheInv'
  <2>1. cache' = [cache EXCEPT !["operation"] = cache["operation"]] /\ clock' = clock
    BY Zenon, <1>0, <1>3, PinnedStays DEF GetOperation
  <2> HIDE DEF CacheInv
  <2>2. Indexed(cache["operation"], Life("operation"), clock)
        /\ Cardinality(DOMAIN cache["operation"].entries) <= Capacity("operation") /\ "operation" \in Caches
    BY <1>0 DEF CacheInv, Caches
  <2> QED BY Zenon, <1>0, <2>1, <2>2, CacheUpdated
<1>4. ASSUME NEW u \in Callers, GetShared(u) PROVE CacheInv'
  <2> DEFINE c == cache["shared"]
             r == Get(c, call[u].key)
  <2>1. cache' = [cache EXCEPT !["shared"] = r] /\ clock' = clock
    BY <1>4 DEF GetShared
  <2>2. Indexed(c, Life("shared"), clock)
        /\ Cardinality(DOMAIN c.entries) <= Capacity("shared") /\ "shared" \in Caches
        /\ \A k \in DOMAIN c.entries : c.entries[k].origin = "shared_locked" /\ c.entries[k].mac_address = k
    BY <1>0 DEF CacheInv, Caches, Entry
  <2>3. Capacity("shared") \in Nat
    BY <2>2, CacheLimits
  <2>4. /\ Indexed(r, Life("shared"), clock) /\ Cardinality(DOMAIN r.entries) <= Capacity("shared")
        /\ DOMAIN r.entries \subseteq DOMAIN c.entries /\ \A j \in DOMAIN r.entries : r.entries[j] = c.entries[j]
    <3>1. r = Get(c, call[u].key)
      OBVIOUS
    <3> HIDE DEF r, c
    <3> QED BY <2>2, <2>3, <3>1, GetKept
  <2> HIDE DEF r, c
  <2>5. \A k \in DOMAIN r.entries : r.entries[k].origin = "shared_locked" /\ r.entries[k].mac_address = k
    BY <2>2, <2>4
  <2> QED BY Zenon, <1>0, <2>1, <2>2, <2>4, <2>5, CacheUpdated
<1>5. ASSUME NEW u \in Callers, Pin(u) \/ RememberOperation(u) PROVE CacheInv'
  <2>1. Stored(u, "operation") /\ clock' = clock /\ call[u].pc \in Locked /\ "operation" \in Caches
    BY <1>5 DEF Pin, RememberOperation, Locked, Caches
  <2> QED BY <1>0, <2>1, StoredKept
<1>6. ASSUME NEW u \in Callers, Remember(u) PROVE CacheInv'
  <2>1. Stored(u, "shared") /\ clock' = clock /\ call[u].pc = "shared_locked"
        /\ call[u].pc \in Locked /\ "shared" \in Caches
    BY <1>6 DEF Remember, Locked, Caches
  <2> QED BY <1>0, <2>1, StoredKept
<1>7. ASSUME NEW u \in Callers, (\E k \in Keys : Resolve(u, k)) \/ ReadClock(u) \/ Exchange(u)
      PROVE  CacheInv'
  BY <1>2, <1>7 DEF Resolve, ReadClock, Exchange
<1> QED BY <1>1, <1>3, <1>4, <1>5, <1>6, <1>7 DEF NeighborNext


LEMMA PinnedKept ==
  ASSUME NeighborAssumption, NeighborInv, NeighborNext
  PROVE  PinnedInv'
<1> DEFINE held == DOMAIN cache["operation"].entries
           Facts(v) == /\ call[v].pc \in MemberSteps => v \in Members
                       /\ v \in Members /\ call[v].pc # "idle" => call[v].key \in Targets
                       /\ v \in Members /\ call[v].pc \in {"remember", "shared_locked"} => call[v].key \in held
                       /\ call[v].known => call[v].pc = "operation" /\ call[v].key \in answered
<1>0. CallTypes /\ CacheInv /\ PinnedInv
  BY DEF NeighborInv
<1>a. /\ held \subseteq Targets /\ answered \subseteq held /\ \A v \in Callers : Facts(v)
      /\ "operation" \in DOMAIN cache /\ "shared" \in DOMAIN cache
      /\ call \in [Callers -> [pc : Places, key : Keys \cup {NoKey}, now : Nat, known : BOOLEAN]]
  BY <1>0 DEF PinnedInv, CacheInv, Caches, CallTypes
<1>b. ASSUME NEW u \in Callers, held \subseteq held', held' \subseteq Targets, answered \subseteq answered',
             answered' \subseteq held', \A v \in Callers \ {u} : call'[v] = call[v], Facts(u)'
      PROVE  PinnedInv'
  <2>1. \A v \in Callers \ {u} : Facts(v)'
    BY <1>a, <1>b
  <2> QED BY <1>b, <2>1 DEF PinnedInv, MemberSteps
<1>c. ASSUME NEW u \in Callers, NEW c \in {"pin_locked", "operation_locked"}, call[u].pc = c,
             Stored(u, "operation"), clock' = clock
      PROVE  held' = held \cup {call[u].key} /\ call[u].key \in Targets /\ u \in Members
  <2>1. u \in Members /\ call[u].key \in Targets
    BY <1>a, <1>c DEF MemberSteps
  <2>2. /\ call[u].key \in held' /\ held' \subseteq held \cup {call[u].key}
        /\ \A x \in held \ held' :
             \/ cache["operation"].entries[x].expires_at <= call[u].now
             \/ call[u].key \notin held /\ Cardinality(held) >= Capacity("operation")
    <3>1. call[u].pc \in Locked /\ "operation" \in Caches
      BY <1>c DEF Locked, Caches
    <3> QED BY <1>0, <1>c, <3>1, StoredKept
  <2>3. held \subseteq held'
    <3>1. \A x \in held : cache["operation"].entries[x].expires_at > clock /\ cache["operation"].entries[x].expires_at \in Nat
      <4>1. Indexed(cache["operation"], Life("operation"), clock)
        BY <1>0 DEF CacheInv, Caches
      <4>2. \A x \in held : cache["operation"].entries[x].expires_at \in Nat
        BY Zenon, <4>1 DEF Indexed, EntryType
      <4> QED BY <1>0, <4>2, PinnedStays
    <3>2. call[u].now <= clock /\ call[u].now \in Nat /\ clock \in Nat
      BY <1>0 DEF CallTypes
    <3>3. \A x \in held : ~(cache["operation"].entries[x].expires_at <= call[u].now)
      BY <3>1, <3>2
    <3>4. call[u].key \notin held => ~(Cardinality(held) >= Capacity("operation"))
      <4>1. Capacity("operation") \in Nat
        BY CacheLimits DEF Caches
      <4>2. Cardinality(held) \in Nat
        <5>1. IsFiniteSet(held)
          BY <1>a, FS_Subset DEF NeighborAssumption
        <5> QED BY <5>1, FS_CardinalityType
      <4> QED BY <1>0, <2>1, <4>1, <4>2, PinnedStays
    <3> QED BY <2>2, <3>3, <3>4
  <2> QED BY <2>1, <2>2, <2>3
<1>1. CASE Tick
  BY <1>0, <1>1 DEF Tick, PinnedInv, MemberSteps
<1>2. ASSUME NEW u \in Callers, NEW k \in Keys, Resolve(u, k) PROVE PinnedInv'
  <2>1. /\ call'[u] = [pc |-> IF u \in Members THEN "operation" ELSE "shared", key |-> k, now |-> 0,
                       known |-> u \in Members /\ k \in answered]
        /\ \A v \in Callers \ {u} : call'[v] = call[v]
        /\ u \in Members => k \in Targets
    BY <1>2, <1>a DEF Resolve
  <2>2. cache' = cache /\ answered' = answered
    BY <1>2 DEF Resolve
  <2>3. call'[u].key = k /\ call'[u].pc = (IF u \in Members THEN "operation" ELSE "shared")
    BY <2>1
  <2>4. call'[u].known <=> u \in Members /\ k \in answered
    <3> DEFINE b == u \in Members /\ k \in answered
    <3>1. call'[u] = [pc |-> IF u \in Members THEN "operation" ELSE "shared", key |-> k, now |-> 0, known |-> b]
      BY <2>1
    <3> HIDE DEF b
    <3>2. call'[u].known = b
      BY <3>1
    <3> QED BY <3>2, Zenon DEF b
  <2>5. Facts(u)'
    BY <2>1, <2>2, <2>3, <2>4 DEF MemberSteps
  <2> QED BY <1>a, <1>b, <2>1, <2>2, <2>5
<1>3. ASSUME NEW u \in Callers, ReadClock(u) PROVE PinnedInv'
  <2>1. /\ call'[u].key = call[u].key /\ call'[u].known = call[u].known /\ call'[u].pc = Reading[call[u].pc]
        /\ \A v \in Callers \ {u} : call'[v] = call[v]
    BY <1>3, <1>a DEF ReadClock
  <2>2. cache' = cache /\ answered' = answered /\ call[u].pc \in {"pin", "remember_operation", "remember"}
    BY <1>3 DEF ReadClock, Reading
  <2>3. /\ call[u].pc = "pin" => call'[u].pc = "pin_locked"
        /\ call[u].pc = "remember_operation" => call'[u].pc = "operation_locked"
        /\ call[u].pc = "remember" => call'[u].pc = "shared_locked"
    BY <2>1, <2>2 DEF Reading
  <2>4. Facts(u)'
    BY <1>a, <2>1, <2>2, <2>3 DEF MemberSteps
  <2> QED BY <1>a, <1>b, <2>1, <2>2, <2>4
<1>4. ASSUME NEW u \in Callers, NEW p, To(u, p)
      PROVE  /\ call'[u].pc = p /\ call'[u].key = call[u].key /\ call'[u].known = call[u].known
             /\ \A v \in Callers \ {u} : call'[v] = call[v]
  BY <1>4, <1>a DEF To
<1>5. ASSUME NEW u \in Callers, NEW o, Return(u, o)
      PROVE  /\ call'[u].pc = "idle" /\ call'[u].known = FALSE /\ \A v \in Callers \ {u} : call'[v] = call[v]
             /\ answered \subseteq answered'
             /\ answered' \subseteq (IF u \in Members /\ o \in {"cached", "resolved"} THEN answered \cup {call[u].key} ELSE answered)
  BY <1>5, <1>a DEF Return, Idle
<1>6. ASSUME NEW u \in Callers, GetOperation(u) PROVE PinnedInv'
  <2>1. held' = held
    BY <1>0, <1>6, <1>a, PinnedStays DEF GetOperation
  <2>2. CASE Hit(cache["operation"], call[u].key)
    <3>1. Return(u, "cached") /\ call[u].key \in held
      BY <1>0, <1>6, <2>2, PinnedStays DEF GetOperation
    <3>2. Facts(u)'
      BY Zenon, <1>5, <3>1 DEF MemberSteps
    <3> QED BY Zenon, <1>a, <1>b, <1>5, <2>1, <3>1, <3>2
  <2>3. CASE ~Hit(cache["operation"], call[u].key)
    <3>1. To(u, "shared") /\ answered' = answered /\ call[u].key \notin held /\ call[u].pc = "operation"
      BY <1>0, <1>6, <2>3, PinnedStays DEF GetOperation
    <3>2. Facts(u)'
      BY <1>a, <1>4, <3>1 DEF MemberSteps
    <3> QED BY Zenon, <1>a, <1>b, <1>4, <2>1, <3>1, <3>2
  <2> QED BY <2>2, <2>3
<1>7. ASSUME NEW u \in Callers, GetShared(u) PROVE PinnedInv'
  <2>1. held' = held /\ call[u].pc = "shared" /\ ~call[u].known
    <3>1. call[u].pc = "shared" /\ cache'["operation"] = cache["operation"]
      BY <1>7, <1>a DEF GetShared
    <3> QED BY <1>a, <3>1
  <2>2. CASE To(u, "exchange") /\ answered' = answered
    <3>1. Facts(u)'
      BY <1>a, <1>4, <2>1, <2>2 DEF MemberSteps
    <3> QED BY <1>a, <1>b, <1>4, <2>1, <2>2, <3>1
  <2>3. CASE u \in Members /\ To(u, "pin") /\ answered' = answered
    <3>1. Facts(u)'
      BY <1>a, <1>4, <2>1, <2>3 DEF MemberSteps
    <3> QED BY <1>a, <1>b, <1>4, <2>1, <2>3, <3>1
  <2>4. CASE u \notin Members /\ Return(u, "cached")
    <3>1. Facts(u)'
      BY Zenon, <1>5, <2>4 DEF MemberSteps
    <3> QED BY Zenon, <1>a, <1>b, <1>5, <2>1, <2>4, <3>1
  <2> QED BY <1>7, <2>2, <2>3, <2>4 DEF GetShared
<1>8. ASSUME NEW u \in Callers, Pin(u) PROVE PinnedInv'
  <2>1. Return(u, "cached") /\ held' = held \cup {call[u].key} /\ call[u].key \in Targets
    BY <1>c, <1>8 DEF Pin
  <2>2. Facts(u)'
    BY Zenon, <1>5, <2>1 DEF MemberSteps
  <2> QED BY Zenon, <1>a, <1>b, <1>5, <2>1, <2>2
<1>9. ASSUME NEW u \in Callers, RememberOperation(u) PROVE PinnedInv'
  <2>1. /\ To(u, "remember") /\ held' = held \cup {call[u].key} /\ call[u].key \in Targets /\ u \in Members
        /\ call[u].pc = "operation_locked" /\ answered' = answered
    BY <1>c, <1>9 DEF RememberOperation
  <2>2. Facts(u)'
    BY <1>a, <1>4, <2>1 DEF MemberSteps
  <2> QED BY <1>a, <1>b, <1>4, <2>1, <2>2
<1>10. ASSUME NEW u \in Callers, Exchange(u) PROVE PinnedInv'
  <2>1. cache' = cache /\ call[u].pc = "exchange" /\ ~call[u].known
    BY <1>10, <1>a DEF Exchange
  <2>2. CASE Return(u, "not_found")
    <3>1. Facts(u)'
      BY Zenon, <1>5, <2>2 DEF MemberSteps
    <3>2. answered' = answered
      BY <2>2 DEF Return
    <3> QED BY Zenon, <1>a, <1>b, <1>5, <2>1, <2>2, <3>1, <3>2
  <2>3. CASE u \in Members /\ To(u, "remember_operation") /\ answered' = answered
    <3>1. Facts(u)'
      BY <1>a, <1>4, <2>1, <2>3 DEF MemberSteps
    <3> QED BY <1>a, <1>b, <1>4, <2>1, <2>3, <3>1
  <2>4. CASE u \notin Members /\ To(u, "remember") /\ answered' = answered
    <3>1. Facts(u)'
      BY <1>a, <1>4, <2>1, <2>4 DEF MemberSteps
    <3> QED BY <1>a, <1>b, <1>4, <2>1, <2>4, <3>1
  <2> QED BY <1>10, <2>2, <2>3, <2>4 DEF Exchange
<1>11. ASSUME NEW u \in Callers, Remember(u) PROVE PinnedInv'
  <2>1. Return(u, "resolved") /\ held' = held /\ (u \in Members => call[u].key \in held)
    BY <1>11, <1>a DEF Remember, Stored
  <2>2. Facts(u)'
    BY Zenon, <1>5, <2>1 DEF MemberSteps
  <2> QED BY Zenon, <1>a, <1>b, <1>5, <2>1, <2>2
<1> QED BY <1>1, <1>2, <1>3, <1>6, <1>7, <1>8, <1>9, <1>10, <1>11 DEF NeighborNext


LEMMA NeighborStart ==
  ASSUME NeighborAssumption, NeighborInit
  PROVE  NeighborInv
<1> USE DEF NeighborInit
<1>1. CallTypes
  BY DEF CallTypes, Idle, Places, NeighborAssumption
<1>2. \A c \in Caches : cache[c] = EmptyCache
  OBVIOUS
<1>3. /\ EmptyCache.entries = <<>> /\ EmptyCache.expiry = {} /\ EmptyCache.insertion = {}
      /\ EmptyCache.sequence = 0 /\ DOMAIN EmptyCache.entries = {}
  BY DEF EmptyCache
<1>4. ASSUME NEW c \in Caches PROVE Indexed(EmptyCache, Life(c), clock)
  <2>1. EmptyCache = [entries |-> EmptyCache.entries, expiry |-> EmptyCache.expiry,
                            insertion |-> EmptyCache.insertion, sequence |-> EmptyCache.sequence]
    BY Zenon, <1>3 DEF EmptyCache
  <2>2. EmptyCache.entries \in [DOMAIN EmptyCache.entries -> EntryType]
    BY <1>3
  <2> QED BY <1>3, <2>1, <2>2 DEF Indexed
<1>5. \A c \in Caches : Cardinality(DOMAIN EmptyCache.entries) <= Capacity(c)
  <2>1. Cardinality(DOMAIN EmptyCache.entries) = 0
    BY <1>3, FS_EmptySet
  <2> QED BY <2>1, CacheLimits
<1>6. CacheInv
  BY <1>2, <1>3, <1>4, <1>5 DEF CacheInv, Caches
<1>7. PinnedInv
  BY <1>2, <1>3 DEF PinnedInv, Caches, Idle, MemberSteps
<1> QED BY <1>1, <1>6, <1>7 DEF NeighborInv

LEMMA NeighborStep ==
  ASSUME NeighborAssumption, NeighborInv, [NeighborNext]_neighborVars
  PROVE  NeighborInv'
<1>1. CASE NeighborNext
  BY <1>1, CallsTyped, CachesKept, PinnedKept DEF NeighborInv
<1>2. CASE UNCHANGED neighborVars
  <2>1. CallTypes' /\ PinnedInv'
    BY <1>2 DEF NeighborInv, CallTypes, PinnedInv, neighborVars, Places,
               MemberSteps, NoKey
  <2>2. ASSUME NEW c \in Caches PROVE Indexed(cache[c], Life(c), clock)'
    <3>1. Indexed(cache[c], Life(c), clock) /\ cache' = cache /\ clock' = clock
      BY <1>2 DEF NeighborInv, CacheInv, neighborVars
    <3> QED BY <3>1, IndexedSame
  <2>3. CacheInv'
    BY <1>2, <2>2 DEF NeighborInv, CacheInv, neighborVars, Caches, Capacity, Entry
  <2> QED BY <2>1, <2>3 DEF NeighborInv
<1> QED BY <1>1, <1>2

\* The neighbor caches, whichever order callers read the clock, take the locks and are overtaken
\* in (NeighborCache::get and insert_with_clock): neither holds more than its limit, both orderings
\* list exactly its entries, an operation sends no second request for a neighbor it has an answer
\* for, and nobody prolongs a shared entry.
THEOREM CacheTheorem ==
  ASSUME NeighborAssumption
  PROVE  NeighborSpec => []CacheCoherent
<1>1. NeighborInit => NeighborInv
  BY NeighborStart
<1>2. NeighborInv /\ [NeighborNext]_neighborVars => NeighborInv'
  BY NeighborStep
<1>3. NeighborInv => CacheCoherent
  <2> SUFFICES ASSUME NeighborInv PROVE CacheCoherent
    OBVIOUS
  <2>1. CacheIndexed
    BY Zenon DEF NeighborInv, CacheInv, Indexed, CacheIndexed, Entry
  <2>2. OneDiscoveryPerOperation
    BY DEF NeighborInv, PinnedInv, OneDiscoveryPerOperation
  <2>3. ASSUME NEW k \in DOMAIN cache["shared"].entries
        PROVE  /\ cache["shared"].entries[k].origin = "shared_locked" /\ cache["shared"].entries[k].mac_address = k
               /\ cache["shared"].entries[k].expires_at <= clock + cache_ttl
    <3>1. Indexed(cache["shared"], cache_ttl, clock) /\ clock \in Nat /\ cache_ttl \in Nat
      BY CacheLimits DEF NeighborInv, CacheInv, Caches, CallTypes, NeighborAssumption
    <3>2. /\ cache["shared"].entries[k].expires_at = cache["shared"].entries[k].inserted_at + cache_ttl
          /\ cache["shared"].entries[k].inserted_at <= clock /\ cache["shared"].entries[k].inserted_at \in Nat
      BY Zenon, <3>1 DEF Indexed, EntryType
    <3> QED BY <3>1, <3>2 DEF NeighborInv, CacheInv, Entry
  <2>4. SharedNotProlonged
    BY <2>3 DEF SharedNotProlonged, Entry
  <2> QED BY <2>1, <2>2, <2>4 DEF CacheCoherent
<1> QED BY <1>1, <1>2, <1>3, PTL DEF NeighborSpec

\* A live entry is dropped only for an insertion into a full cache, and then no entry that has
\* already expired stays behind, however late the writer took the lock (insert_with_clock's expiry
\* and eviction by the oldest reading).
THEOREM StalestTheorem ==
  ASSUME NeighborAssumption
  PROVE  NeighborSpec => StalestGoesFirst
<1>1. NeighborInit => NeighborInv
  BY NeighborStart
<1>2. NeighborInv /\ [NeighborNext]_neighborVars => NeighborInv'
  BY NeighborStep
<1>3. NeighborInv /\ [NeighborNext]_neighborVars => [DropsStalest]_neighborVars
  <2> SUFFICES ASSUME NeighborInv, NeighborNext PROVE DropsStalest
    OBVIOUS
  <2> DEFINE Sound(c) == \A k \in DOMAIN cache[c].entries \ DOMAIN cache'[c].entries :
                cache[c].entries[k].expires_at > clock =>
                  \A j \in DOMAIN cache[c].entries \cap DOMAIN cache'[c].entries :
                    cache[c].entries[j] = cache'[c].entries[j] => cache[c].entries[j].expires_at > clock
  <2>0. CallTypes /\ CacheInv /\ PinnedInv /\ clock \in Nat
    BY DEF NeighborInv, CallTypes
  <2>a. ASSUME NEW c \in Caches
        PROVE  /\ Indexed(cache[c], Life(c), clock) /\ Life(c) \in Nat
               /\ \A k \in DOMAIN cache[c].entries :
                    /\ cache[c].entries[k].inserted_at \in Nat /\ cache[c].entries[k].expires_at \in Nat
                    /\ cache[c].entries[k].sequence \in Nat /\ cache[c].entries[k].sequence < cache[c].sequence
                    /\ cache[c].entries[k].expires_at = cache[c].entries[k].inserted_at + Life(c)
    <3>1. Indexed(cache[c], Life(c), clock) /\ Life(c) \in Nat
      BY <2>0, CacheLimits DEF CacheInv
    <3> QED BY Zenon, <3>1 DEF Indexed, EntryType
  <2>1. ASSUME NEW c \in Caches, cache'[c] = cache[c] PROVE Sound(c)
    BY <2>1
  <2>2. ASSUME NEW u \in Callers, NEW c \in Caches, call[u].pc \in Locked,
               c = "shared" => call[u].pc = "shared_locked", Stored(u, c), clock' = clock
        PROVE  \A d \in Caches : Sound(d)
    <3> DEFINE k == call[u].key
    <3>1. /\ \A d \in Caches \ {c} : cache'[d] = cache[d]
          /\ cache'[c].entries[k].sequence = cache[c].sequence
          /\ \A x \in DOMAIN cache[c].entries \ DOMAIN cache'[c].entries :
               \/ cache[c].entries[x].expires_at <= call[u].now
               \/ \A j \in DOMAIN cache'[c].entries \ {k} : cache[c].entries[x].inserted_at <= cache[c].entries[j].inserted_at
      BY <2>0, <2>2, StoredKept
    <3>2. call[u].now \in Nat /\ call[u].now <= clock
      BY <2>0 DEF CallTypes
    <3> HIDE DEF k
    <3>3. ASSUME NEW x \in DOMAIN cache[c].entries \ DOMAIN cache'[c].entries, cache[c].entries[x].expires_at > clock,
                 NEW j \in DOMAIN cache[c].entries \cap DOMAIN cache'[c].entries, cache[c].entries[j] = cache'[c].entries[j]
          PROVE  cache[c].entries[j].expires_at > clock
      <4>0. /\ cache[c].entries[j].sequence \in Nat /\ cache[c].entries[j].sequence < cache[c].sequence
            /\ cache[c].entries[j].inserted_at \in Nat /\ cache[c].entries[x].inserted_at \in Nat /\ Life(c) \in Nat
            /\ cache[c].entries[j].expires_at = cache[c].entries[j].inserted_at + Life(c)
            /\ cache[c].entries[x].expires_at = cache[c].entries[x].inserted_at + Life(c)
        BY <2>a, <3>3
      <4>a. cache[c].sequence \in Nat
        BY Zenon, <2>a DEF Indexed
      <4>1. j # k
        BY <3>1, <3>3, <4>0, <4>a
      <4>b. ~(cache[c].entries[x].expires_at <= call[u].now)
        BY <2>0, <3>2, <3>3, <4>0
      <4>2. cache[c].entries[x].inserted_at <= cache[c].entries[j].inserted_at
        BY <3>1, <3>3, <4>1, <4>b
      <4> QED BY <2>0, <3>3, <4>0, <4>2
    <3>4. Sound(c)
      BY <3>3
    <3> QED BY <2>1, <3>1, <3>4
  <2>3. ASSUME NEW u \in Callers, GetOperation(u) PROVE \A c \in Caches : Sound(c)
    BY Zenon, <2>0, <2>1, <2>3, PinnedStays DEF GetOperation, CacheInv
  <2>4. ASSUME NEW u \in Callers, GetShared(u) PROVE \A c \in Caches : Sound(c)
    <3>1. /\ cache'["shared"] = Get(cache["shared"], call[u].key) /\ "shared" \in Caches
          /\ \A c \in Caches \ {"shared"} : cache'[c] = cache[c]
      BY <2>0, <2>4 DEF GetShared, CacheInv, Caches
    <3>2. Capacity("shared") \in Nat /\ Cardinality(DOMAIN cache["shared"].entries) <= Capacity("shared")
      BY <2>0, <3>1, CacheLimits DEF CacheInv
    <3>3. \A j \in DOMAIN cache["shared"].entries \ DOMAIN cache'["shared"].entries :
            ~(cache["shared"].entries[j].expires_at > clock)
      <4>1. Indexed(cache["shared"], Life("shared"), clock)
        BY Zenon, <2>a, <3>1
      <4> QED BY SMTT(30), <3>1, <3>2, <4>1, GetKept
    <3>4. Sound("shared")
      BY <3>3
    <3> QED BY Zenon, <2>1, <3>1, <3>4
  <2>5. ASSUME NEW u \in Callers, Pin(u) \/ RememberOperation(u) \/ Remember(u)
        PROVE  \A c \in Caches : Sound(c)
    BY Zenon, <2>2, <2>5 DEF Pin, RememberOperation, Remember, Locked, Caches
  <2>6. ASSUME cache' = cache PROVE \A c \in Caches : Sound(c)
    BY <2>1, <2>6
  <2>7. \A c \in Caches : Sound(c)
    BY Zenon, <2>3, <2>4, <2>5, <2>6 DEF NeighborNext, Tick, Resolve, ReadClock, Exchange
  <2> QED BY <2>7 DEF DropsStalest, Entry
<1> QED BY <1>1, <1>2, <1>3, PTL DEF NeighborSpec, StalestGoesFirst
=============================================================================
