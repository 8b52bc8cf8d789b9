---------------------------- MODULE PacketBuffer ----------------------------
(***************************************************************************)
(* The buffer a packet is built in (build/buffer.rs): layers are encoded   *)
(* from the innermost outwards, and each wraps what is already there in a  *)
(* prefix and a suffix.  The bytes sit in the middle of a larger storage,  *)
(* and are moved to its centre or to a larger one when a side runs out.    *)
(***************************************************************************)
EXTENDS Integers, TLAPS

CONSTANTS
  Pieces,            \* the prefixes and suffixes: a length n and the bytes at 0 .. n - 1
  Estimates,         \* what with_estimate may be given: pass-through bytes and layers
  Maxima,            \* Limits::max_packet_size
  MINIMUM_CAPACITY, HEADER_ROOM, SUFFIX_ROOM, MAX_SHARED_SLACK

BufferAssumption ==
  /\ \A p \in Pieces : p.n \in Nat /\ DOMAIN p.at = 0..(p.n - 1)
  /\ \A e \in Estimates : e.payload \in Nat /\ e.layers \in Nat
  /\ Maxima \subseteq Nat
  /\ MINIMUM_CAPACITY \in Nat /\ HEADER_ROOM \in Nat /\ SUFFIX_ROOM \in Nat
  /\ MAX_SHARED_SLACK \in Nat

VARIABLES
  maximum,
  capacity, storage,  \* storage.len() and its bytes
  start, end,
  state,              \* "open", "full": the last wrap failed, "shared", "copied": into_bytes
  length, content     \* history: what the wraps should have made

vars == <<maximum, capacity, storage, start, end, state, length, content>>

Least(a, b) == IF a <= b THEN a ELSE b
Greatest(a, b) == IF a >= b THEN a ELSE b

Zeroed(n) == [i \in 0..(n - 1) |-> 0]

\* with_estimate
Init ==
  \E e \in Estimates, m \in Maxima :
    /\ maximum = m
    /\ capacity = Least(e.layers * HEADER_ROOM + e.payload + SUFFIX_ROOM, m)
    /\ storage = Zeroed(capacity)
    /\ start = capacity - Least(SUFFIX_ROOM, capacity) /\ end = start
    /\ state = "open"
    /\ length = 0 /\ content = Zeroed(0)

\* The bytes of a storage in which prefix, payload and suffix were put at offset from.
Filled(size, old, from, prefix, suffix, n) ==
  LET prefix_end == from + prefix.n
      payload_end == prefix_end + n
  IN  [i \in 0..(size - 1) |->
         IF i >= from /\ i < prefix_end THEN prefix.at[i - from]
         ELSE IF i >= prefix_end /\ i < payload_end THEN storage[i - prefix_end + start]
         ELSE IF i >= payload_end /\ i < payload_end + suffix.n THEN suffix.at[i - payload_end]
         ELSE old[i]]

Wrapped(prefix, suffix, n) ==
  [i \in 0..(prefix.n + n + suffix.n - 1) |->
     IF i < prefix.n THEN prefix.at[i]
     ELSE IF i < prefix.n + n THEN content[i - prefix.n]
     ELSE suffix.at[i - prefix.n - n]]

\* Where grow_and_wrap puts the bytes: the spare room goes to the side that grows.
grow_start(prefix, suffix, spare) ==
  IF prefix.n > 0 /\ suffix.n = 0 THEN spare
  ELSE IF prefix.n = 0 /\ suffix.n > 0 THEN 0
  ELSE spare \div 2

\* The bytes are put at offset from of a storage of that size.
Place(size, old, from, prefix, suffix) ==
  LET n == end - start
  IN  /\ capacity' = size
      /\ storage' = Filled(size, old, from, prefix, suffix, n)
      /\ start' = from /\ end' = from + prefix.n + n + suffix.n
      /\ length' = prefix.n + length + suffix.n
      /\ content' = Wrapped(prefix, suffix, length)
      /\ UNCHANGED <<maximum, state>>

Fits(prefix, suffix) ==
  /\ state = "open"
  /\ prefix.n + (end - start) + suffix.n <= maximum

InPlace(prefix, suffix) == start >= prefix.n /\ capacity - end >= suffix.n

\* wrap, when both sides have room.
WrapInPlace(prefix, suffix) ==
  /\ Fits(prefix, suffix) /\ InPlace(prefix, suffix)
  /\ Place(capacity, storage, start - prefix.n, prefix, suffix)

recenter_and_wrap(prefix, suffix) ==
  LET total == prefix.n + (end - start) + suffix.n
  IN  /\ Fits(prefix, suffix) /\ ~InPlace(prefix, suffix)
      /\ capacity - (end - start) >= prefix.n + suffix.n
      /\ Place(capacity, storage, (capacity - total) \div 2, prefix, suffix)

grow_and_wrap(prefix, suffix) ==
  LET total == prefix.n + (end - start) + suffix.n
      minimum == Least(MINIMUM_CAPACITY, maximum)
      size == Least(Greatest(Greatest(capacity * 2, minimum), total), maximum)
  IN  /\ Fits(prefix, suffix) /\ ~InPlace(prefix, suffix)
      /\ capacity - (end - start) < prefix.n + suffix.n
      /\ Place(size, Zeroed(size), grow_start(prefix, suffix, size - total), prefix, suffix)

\* wrap: more than max_packet_size; the build ends.
WrapRefused(prefix, suffix) ==
  /\ state = "open" /\ ~Fits(prefix, suffix)
  /\ state' = "full"
  /\ UNCHANGED <<maximum, capacity, storage, start, end, length, content>>

Wrap(prefix, suffix) ==
  \/ WrapInPlace(prefix, suffix)
  \/ recenter_and_wrap(prefix, suffix)
  \/ grow_and_wrap(prefix, suffix)
  \/ WrapRefused(prefix, suffix)

\* into_bytes: the storage itself, a slice of it, or a copy when too much would be kept.
into_bytes ==
  /\ state = "open"
  /\ IF capacity - (end - start) <= MAX_SHARED_SLACK
     THEN state' = "shared" /\ UNCHANGED <<capacity, storage, start, end>>
     ELSE /\ state' = "copied"
          /\ capacity' = end - start /\ start' = 0 /\ end' = end - start
          /\ storage' = [i \in 0..(end - start - 1) |-> storage[start + i]]
  /\ UNCHANGED <<maximum, length, content>>

\* The packet is built, or the build has failed.
Ended == state # "open" /\ UNCHANGED vars

Next == into_bytes \/ Ended \/ \E prefix, suffix \in Pieces : Wrap(prefix, suffix)

Spec == Init /\ [][Next]_vars

\* "start <= end <= storage.len() is the buffer invariant every wrap restores"
\* (build/buffer.rs), and the slice between them is exactly what the wraps put there, within
\* max_packet_size, wherever it was moved to.
BufferExact ==
  /\ 0 <= start /\ start <= end /\ end <= capacity
  /\ capacity <= maximum
  /\ end - start = length
  /\ \A i \in 0..(length - 1) : storage[start + i] = content[i]

-----------------------------------------------------------------------------
(***************************************************************************)
(* For every size of the rooms, limits and pieces, a packet buffer holds   *)
(* exactly what was wrapped into it.                                       *)
(***************************************************************************)
\* The inductive invariant: BufferExact with the types it needs.
BufferInv ==
  /\ maximum \in Nat /\ capacity \in Nat /\ start \in Nat /\ end \in Nat /\ length \in Nat
  /\ BufferExact

\* The product of two natural numbers is one.
LEMMA ProductNat == ASSUME NEW a \in Nat, NEW b \in Nat PROVE a * b \in Nat
  OBVIOUS

\* Half of the spare room is between none and all of it.
LEMMA Half == ASSUME NEW a \in Nat PROVE a \div 2 \in Nat /\ a \div 2 <= a
  OBVIOUS

\* Init: an empty buffer within the limit.
LEMMA BufferInitially == ASSUME BufferAssumption, Init PROVE BufferInv
<1>1. PICK e \in Estimates, m \in Maxima :
        /\ maximum = m
        /\ capacity = Least(e.layers * HEADER_ROOM + e.payload + SUFFIX_ROOM, m)
        /\ start = capacity - Least(SUFFIX_ROOM, capacity) /\ end = start
        /\ length = 0
  BY DEF Init
<1>2. /\ m \in Nat /\ e.layers * HEADER_ROOM \in Nat /\ e.payload \in Nat /\ SUFFIX_ROOM \in Nat
  BY <1>1, ProductNat DEF BufferAssumption
<1>3. capacity \in Nat /\ capacity <= maximum
  BY <1>1, <1>2 DEF Least
<1>4. start \in Nat /\ start <= capacity
  BY <1>1, <1>2, <1>3 DEF Least
<1> QED
  BY <1>1, <1>2, <1>3, <1>4 DEF BufferInv, BufferExact

\* Place: prefix, payload and suffix side by side anywhere inside a storage are the content.
LEMMA PlaceExact ==
  ASSUME BufferInv, NEW size \in Nat, NEW old, NEW from \in Nat,
         NEW prefix \in Pieces, NEW suffix \in Pieces, BufferAssumption,
         from + prefix.n + (end - start) + suffix.n <= size, size <= maximum,
         Place(size, old, from, prefix, suffix)
  PROVE  BufferInv'
<1> DEFINE p == prefix.n
           s == suffix.n
           n == end - start
<1>1. p \in Nat /\ s \in Nat /\ n \in Nat /\ n = length
  BY DEF BufferAssumption, BufferInv, BufferExact
<1>2. /\ capacity' = size /\ start' = from /\ end' = from + p + n + s
      /\ length' = p + length + s /\ maximum' = maximum
      /\ storage' = Filled(size, old, from, prefix, suffix, n)
      /\ content' = Wrapped(prefix, suffix, length)
  BY DEF Place
<1>3. /\ maximum' \in Nat /\ capacity' \in Nat /\ start' \in Nat /\ end' \in Nat /\ length' \in Nat
      /\ 0 <= start' /\ start' <= end' /\ end' <= capacity' /\ capacity' <= maximum'
      /\ end' - start' = length'
  BY <1>1, <1>2 DEF BufferInv
<1>4. ASSUME NEW i \in 0..(length' - 1) PROVE storage'[start' + i] = content'[i]
  <2> DEFINE j == from + i
  <2>1. j \in 0..(size - 1) /\ i \in 0..(p + n + s - 1) /\ start' + i = j
    BY <1>1, <1>2, <1>3, <1>4
  <2>2. storage'[j] =
          IF j >= from /\ j < from + p THEN prefix.at[j - from]
          ELSE IF j >= from + p /\ j < from + p + n THEN storage[j - (from + p) + start]
          ELSE IF j >= from + p + n /\ j < from + p + n + s THEN suffix.at[j - (from + p + n)]
          ELSE old[j]
    BY <1>2, <2>1 DEF Filled
  <2>3. content'[i] =
          IF i < p THEN prefix.at[i]
          ELSE IF i < p + n THEN content[i - p]
          ELSE suffix.at[i - p - n]
    BY <1>1, <1>2, <2>1 DEF Wrapped
  <2>4. CASE i < p
    <3>1. j - from = i /\ j >= from /\ j < from + p
      BY <1>1, <2>1, <2>4
    <3> QED BY <2>1, <2>2, <2>3, <2>4, <3>1
  <2>5. CASE i >= p /\ i < p + n
    <3>1. /\ ~(j < from + p) /\ j >= from + p /\ j < from + p + n
          /\ j - (from + p) + start = start + (i - p)
          /\ i - p \in 0..(length - 1) /\ ~(i < p)
      BY <1>1, <2>1, <2>5 DEF BufferInv
    <3>2. storage[start + (i - p)] = content[i - p]
      BY <3>1 DEF BufferInv, BufferExact
    <3> QED BY <2>1, <2>2, <2>3, <2>5, <3>1, <3>2
  <2>6. CASE i >= p + n
    <3>1. /\ ~(j < from + p) /\ ~(j < from + p + n) /\ j >= from + p + n /\ j < from + p + n + s
          /\ j - (from + p + n) = i - p - n
          /\ ~(i < p) /\ ~(i < p + n)
      BY <1>1, <2>1, <2>6
    <3> QED BY <2>1, <2>2, <2>3, <3>1
  <2> QED BY <1>1, <2>1, <2>4, <2>5, <2>6
<1> QED BY <1>3, <1>4 DEF BufferInv, BufferExact

\* Next: every way to wrap, and into_bytes, keep the invariant.
LEMMA BufferPreserved ==
  ASSUME BufferAssumption, BufferInv, [Next]_vars PROVE BufferInv'
<1>1. CASE UNCHANGED vars
  BY <1>1 DEF vars, BufferInv, BufferExact
<1>2. ASSUME NEW prefix \in Pieces, NEW suffix \in Pieces, Wrap(prefix, suffix) PROVE BufferInv'
  <2> DEFINE total == prefix.n + (end - start) + suffix.n
  <2>1. /\ prefix.n \in Nat /\ suffix.n \in Nat /\ total \in Nat
        /\ capacity \in Nat /\ start \in Nat /\ end \in Nat /\ maximum \in Nat
        /\ start <= end /\ end <= capacity /\ capacity <= maximum
    BY DEF BufferAssumption, BufferInv, BufferExact
  <2>2. CASE WrapInPlace(prefix, suffix)
    <3>1. /\ start - prefix.n \in Nat
          /\ (start - prefix.n) + prefix.n + (end - start) + suffix.n <= capacity
      BY <2>1, <2>2 DEF WrapInPlace, InPlace
    <3>2. Place(capacity, storage, start - prefix.n, prefix, suffix)
      BY <2>2 DEF WrapInPlace
    <3> QED BY <2>1, <3>1, <3>2, PlaceExact
  <2>3. CASE recenter_and_wrap(prefix, suffix)
    <3> DEFINE from == (capacity - total) \div 2
    <3>1. capacity - total \in Nat
      BY <2>1, <2>3 DEF recenter_and_wrap
    <3>2. from \in Nat /\ from <= capacity - total
      BY <3>1, Half
    <3>3. Place(capacity, storage, from, prefix, suffix)
      BY <2>3 DEF recenter_and_wrap
    <3> HIDE DEF from
    <3>4. from + prefix.n + (end - start) + suffix.n <= capacity
      BY <2>1, <3>2
    <3> QED BY <2>1, <3>2, <3>3, <3>4, PlaceExact
  <2>4. CASE grow_and_wrap(prefix, suffix)
    <3> DEFINE size == Least(Greatest(Greatest(capacity * 2, Least(MINIMUM_CAPACITY, maximum)), total), maximum)
               from == grow_start(prefix, suffix, size - total)
    <3>1. total <= maximum
      BY <2>4 DEF grow_and_wrap, Fits
    <3>2. size \in Nat /\ total <= size /\ size <= maximum
      BY <2>1, <3>1 DEF Least, Greatest, BufferAssumption
    <3>3. Place(size, Zeroed(size), from, prefix, suffix)
      BY <2>4 DEF grow_and_wrap
    <3> HIDE DEF size
    <3>4. from \in Nat /\ from <= size - total
      BY <2>1, <3>2, Half DEF grow_start
    <3> HIDE DEF from
    <3>5. from + prefix.n + (end - start) + suffix.n <= size
      BY <2>1, <3>2, <3>4
    <3> QED BY <3>2, <3>3, <3>4, <3>5, PlaceExact
  <2>5. CASE WrapRefused(prefix, suffix)
    BY <2>5 DEF WrapRefused, BufferInv, BufferExact
  <2> QED BY <1>2, <2>2, <2>3, <2>4, <2>5 DEF Wrap
<1>3. CASE into_bytes
  <2>1. CASE UNCHANGED <<capacity, storage, start, end>>
    BY <1>3, <2>1 DEF into_bytes, BufferInv, BufferExact
  <2>2. CASE /\ capacity' = end - start /\ start' = 0 /\ end' = end - start
             /\ storage' = [i \in 0..(end - start - 1) |-> storage[start + i]]
    <3>1. /\ maximum' = maximum /\ length' = length /\ content' = content
          /\ end - start = length /\ length \in Nat /\ capacity \in Nat /\ end \in Nat
          /\ start \in Nat /\ maximum \in Nat /\ end <= capacity /\ capacity <= maximum
      BY <1>3 DEF into_bytes, BufferInv, BufferExact
    <3>2. ASSUME NEW i \in 0..(length' - 1) PROVE storage'[start' + i] = content'[i]
      <4>1. i \in 0..(end - start - 1) /\ i \in 0..(length - 1) /\ start' + i = i
        BY <2>2, <3>1, <3>2
      <4>2. storage[start + i] = content[i]
        BY <4>1 DEF BufferInv, BufferExact
      <4> QED BY <2>2, <3>1, <4>1, <4>2
    <3>3. /\ 0 <= start' /\ start' <= end' /\ end' <= capacity' /\ capacity' <= maximum'
          /\ end' - start' = length'
          /\ maximum' \in Nat /\ capacity' \in Nat /\ start' \in Nat /\ end' \in Nat
          /\ length' \in Nat
      BY <2>2, <3>1
    <3> QED BY <3>2, <3>3 DEF BufferInv, BufferExact
  <2> QED BY <1>3, <2>1, <2>2 DEF into_bytes
<1>4. CASE Ended
  BY <1>4 DEF Ended, vars, BufferInv, BufferExact
<1> QED BY <1>1, <1>2, <1>3, <1>4 DEF Next

\* For all rooms, limits and pieces: "start <= end <= storage.len() is the buffer invariant
\* every wrap restores" (build/buffer.rs), and the slice between start and end is exactly the
\* prefixes and suffixes the layers have wrapped around each other, within max_packet_size.
THEOREM BufferAlwaysExact == ASSUME BufferAssumption PROVE Spec => []BufferExact
<1>1. Init => BufferInv
  BY BufferInitially
<1>2. BufferInv /\ [Next]_vars => BufferInv'
  BY BufferPreserved
<1>3. BufferInv => BufferExact
  BY DEF BufferInv
<1> QED BY <1>1, <1>2, <1>3, PTL DEF Spec
=============================================================================
