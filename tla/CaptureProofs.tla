---------------------------- MODULE CaptureProofs ---------------------------
(***************************************************************************)
(* Proofs about LiveCapture: no frame and no error of a capture is         *)
(* swallowed, and a reading worker has an owner, for every limit, frame    *)
(* length and span of the native counter, and any number of frames.        *)
(***************************************************************************)
EXTENDS LiveCapture, SequenceTheorems, WellFoundedInduction, TLAPS

-----------------------------------------------------------------------------
(* bytes_of. *)

\* The induction principle of the lemmas on bytes_of.
LEMMA LeastNatural ==
  ASSUME NEW T, T \subseteq Nat, T # {}
  PROVE  \E x \in T : \A y \in T : x <= y
<1>1. PICK x \in T : \A y \in T : ~(<<y, x>> \in OpToRel(<, Nat))
  BY Zenon, NatLessThanWellFounded, WFMin
<1>2. \A y \in T : ~(y < x)
  BY Zenon, <1>1 DEF OpToRel
<1> QED BY <1>2

Totals(f, frames) ==
  /\ f \in [0 .. Len(frames) -> Nat] /\ f[0] = 0
  /\ \A n \in 1 .. Len(frames) : f[n] = f[n - 1] + frames[n].bytes

\* Running totals exist, by induction on how far they go.
LEMMA TotalsExist ==
  ASSUME NEW frames, Len(frames) \in Nat, \A n \in 1 .. Len(frames) : frames[n].bytes \in Nat
  PROVE  \E f : Totals(f, frames)
<1> DEFINE Upto(f, m) == /\ f \in [0 .. m -> Nat] /\ f[0] = 0
                         /\ \A n \in 1 .. m : f[n] = f[n - 1] + frames[n].bytes
           Has(m) == \E f : Upto(f, m)
           T == {m \in 0 .. Len(frames) : ~Has(m)}
<1>1. Has(0)
  <2>1. Upto([n \in 0 .. 0 |-> 0], 0)
    OBVIOUS
  <2> QED BY Zenon, <2>1
<1>2. ASSUME NEW m \in 1 .. Len(frames), Has(m - 1) PROVE Has(m)
  <2>1. PICK f : Upto(f, m - 1)
    BY Zenon, <1>2
  <2> DEFINE b == frames[m].bytes
             g == [n \in 0 .. m |-> IF n = m THEN f[m - 1] + b ELSE f[n]]
  <2>2. b \in Nat /\ m \in Nat /\ m - 1 \in 0 .. m - 1
    OBVIOUS
  <2>3. f[m - 1] \in Nat
    BY <2>1, <2>2
  <2>4. g \in [0 .. m -> Nat]
    <3>1. ASSUME NEW n \in 0 .. m PROVE (IF n = m THEN f[m - 1] + b ELSE f[n]) \in Nat
      <4> HIDE DEF b
      <4> QED BY <2>1, <2>2, <2>3
    <3> QED BY Zenon, <3>1
  <2>5. g[0] = 0 /\ g[m] = f[m - 1] + b /\ \A n \in 0 .. m - 1 : g[n] = f[n]
    <3> HIDE DEF b
    <3> QED BY <2>1, <2>2
  <2>6. ASSUME NEW n \in 1 .. m PROVE g[n] = g[n - 1] + frames[n].bytes
    <3>1. CASE n = m
      <4> HIDE DEF g
      <4> QED BY <3>1, <2>5, <2>2
    <3>2. CASE n # m
      <4> HIDE DEF g
      <4>1. n \in 1 .. m - 1 /\ n \in 0 .. m - 1 /\ n - 1 \in 0 .. m - 1
        BY <3>2, <2>2
      <4> QED BY Zenon, <4>1, <2>5, <2>1
    <3> QED BY Zenon, <3>1, <3>2
  <2> HIDE DEF g
  <2>7. Upto(g, m)
    BY Zenon, <2>4, <2>5, <2>6
  <2> QED BY Zenon, <2>7
<1> HIDE DEF Has
<1>3. T = {}
  <2>1. SUFFICES ASSUME T # {} PROVE FALSE
    OBVIOUS
  <2>2. T \subseteq Nat
    OBVIOUS
  <2> HIDE DEF T
  <2>3. PICK m \in T : \A y \in T : m <= y
    BY Zenon, <2>1, <2>2, LeastNatural
  <2> USE DEF T
  <2>4. m \in 1 .. Len(frames) /\ m - 1 \in 0 .. Len(frames) /\ ~Has(m)
    BY <1>1, <2>3
  <2>5. m - 1 \notin T
    BY <2>3, <2>4
  <2> QED BY Zenon, <2>4, <2>5, <1>2
<1>4. Len(frames) \in 0 .. Len(frames)
  OBVIOUS
<1>5. Has(Len(frames))
  BY Zenon, <1>3, <1>4
<1> USE DEF Has
<1>6. PICK f : Upto(f, Len(frames))
  BY Zenon, <1>5
<1> QED BY Zenon, <1>6 DEF Totals

\* running_bytes computes them.
LEMMA RunningBytes ==
  ASSUME NEW frames, Len(frames) \in Nat, \A n \in 1 .. Len(frames) : frames[n].bytes \in Nat
  PROVE  Totals(running_bytes(frames), frames)
<1>1. PICK f : Totals(f, frames)
  BY Zenon, TotalsExist
<1> DEFINE Eq(g) == g = [n \in 0 .. Len(frames) |-> IF n = 0 THEN 0 ELSE g[n - 1] + frames[n].bytes]
           r == running_bytes(frames)
<1>2. Eq(f)
  BY <1>1 DEF Totals
<1>3. r = CHOOSE g : Eq(g)
  BY Zenon DEF running_bytes
<1>4. Eq(r)
  <2> HIDE DEF r, Eq
  <2> QED BY Zenon, <1>2, <1>3
<1> HIDE DEF r
<1>5. r[0] = 0 /\ \A n \in 1 .. Len(frames) : r[n] = r[n - 1] + frames[n].bytes
  <2>1. \A n \in 0 .. Len(frames) : r[n] = IF n = 0 THEN 0 ELSE r[n - 1] + frames[n].bytes
    BY Zenon, <1>4
  <2> QED BY <2>1
<1> DEFINE T == {n \in 0 .. Len(frames) : r[n] \notin Nat}
<1>6. T = {}
  <2>1. SUFFICES ASSUME T # {} PROVE FALSE
    OBVIOUS
  <2>2. T \subseteq Nat
    OBVIOUS
  <2> HIDE DEF T
  <2>3. PICK m \in T : \A y \in T : m <= y
    BY Zenon, <2>1, <2>2, LeastNatural
  <2> USE DEF T
  <2>4. m \in 1 .. Len(frames) /\ m - 1 \in 0 .. Len(frames) /\ r[m] \notin Nat
    BY <1>5, <2>3
  <2>5. r[m - 1] \in Nat
    BY <2>3, <2>4
  <2> QED BY <2>4, <2>5, <1>5
<1>7. \A n \in 0 .. Len(frames) : r[n] \in Nat
  BY Zenon, <1>6
<1>8. r \in [0 .. Len(frames) -> Nat]
  BY Zenon, <1>4, <1>7
<1> QED BY Zenon, <1>5, <1>8 DEF Totals, r

Sized(frames) == Len(frames) \in Nat /\ \A n \in 1 .. Len(frames) : frames[n].bytes \in Nat

\* The bytes of a run of frames are the difference of two running totals.
LEMMA BytesBetween ==
  ASSUME NEW frames, Sized(frames), NEW part, Sized(part), NEW k \in Nat,
         k + Len(part) <= Len(frames),
         \A i \in 1 .. Len(part) : part[i].bytes = frames[k + i].bytes
  PROVE  /\ bytes_of(part) \in Nat
         /\ running_bytes(frames)[k + Len(part)] = running_bytes(frames)[k] + bytes_of(part)
<1> DEFINE f == running_bytes(frames)
           g == running_bytes(part)
<1>1. Totals(f, frames) /\ Totals(g, part)
  BY Zenon, RunningBytes DEF Sized
<1> HIDE DEF f, g
<1> USE DEF Totals, Sized
<1> DEFINE T == {n \in 0 .. Len(part) : f[k + n] # f[k] + g[n]}
<1>2. T = {}
  <2>1. SUFFICES ASSUME T # {} PROVE FALSE
    OBVIOUS
  <2>2. T \subseteq Nat
    OBVIOUS
  <2> HIDE DEF T
  <2>3. PICK m \in T : \A y \in T : m <= y
    BY Zenon, <2>1, <2>2, LeastNatural
  <2> USE DEF T
  <2>4. f[k] \in Nat /\ g[0] = 0
    BY <1>1
  <2>5. m \in 1 .. Len(part) /\ m - 1 \in 0 .. Len(part) /\ f[k + m] # f[k] + g[m]
    BY <2>3, <2>4
  <2>6. f[k + (m - 1)] = f[k] + g[m - 1]
    BY <2>3, <2>5
  <2>7. k + m \in 1 .. Len(frames) /\ k + (m - 1) = (k + m) - 1 /\ k + (m - 1) \in 0 .. Len(frames)
    BY <2>5
  <2>8. f[k + m] = f[k + (m - 1)] + frames[k + m].bytes
    BY Zenon, <1>1, <2>7
  <2>9. g[m] = g[m - 1] + part[m].bytes /\ part[m].bytes = frames[k + m].bytes
    BY Zenon, <1>1, <2>5
  <2>10. g[m - 1] \in Nat /\ part[m].bytes \in Nat
    BY Zenon, <1>1, <2>5
  <2> DEFINE x == f[k]
             y == g[m - 1]
             b == part[m].bytes
  <2>11. f[k + m] = (x + y) + b /\ f[k + m] # x + (y + b)
    BY Zenon, <2>5, <2>6, <2>8, <2>9
  <2>12. x \in Nat /\ y \in Nat /\ b \in Nat
    BY Zenon, <2>4, <2>10
  <2> HIDE DEF x, y, b, T, Totals, Sized
  <2> QED BY <2>11, <2>12
<1>3. Len(part) \in 0 .. Len(part)
  OBVIOUS
<1>4. f[k + Len(part)] = f[k] + g[Len(part)] /\ g[Len(part)] \in Nat
  BY Zenon, <1>1, <1>2, <1>3
<1> QED BY Zenon, <1>4 DEF bytes_of, f, g

Frames == [id : 1 .. MaxSeen, bytes : Lengths]
Framed(q) == q \in Seq(Frames)

LEMMA FramesTyped ==
  ASSUME NEW frame \in Frames
  PROVE  frame.bytes \in Lengths /\ frame.bytes \in Nat /\ frame.bytes \in 1 .. max_bytes /\ frame.id \in Nat
<1>1. max_bytes \in Nat /\ Lengths \subseteq 1 .. max_bytes /\ MaxSeen \in Nat
  BY LimitsAssumption, LengthsAssumption, BoundsAssumption
<1>2. frame.bytes \in Lengths /\ frame.id \in 1 .. MaxSeen
  BY DEF Frames
<1>3. frame.bytes \in 1 .. max_bytes
  BY Zenon, <1>1, <1>2
<1> QED BY <1>1, <1>2, <1>3

LEMMA FramedSized ==
  ASSUME NEW q, Framed(q)
  PROVE  /\ Sized(q) /\ Len(q) \in Nat
         /\ \A i \in 1 .. Len(q) : q[i] \in Frames
<1>1. Len(q) \in Nat /\ \A i \in 1 .. Len(q) : q[i] \in Frames
  BY Zenon, LenProperties, ElementOfSeq DEF Framed
<1> QED BY Zenon, <1>1, FramesTyped DEF Sized

LEMMA BytesTyped ==
  ASSUME NEW q, Framed(q)
  PROVE  bytes_of(q) \in Nat /\ (q = <<>> => bytes_of(q) = 0)
<1>1. Sized(q) /\ Len(q) \in Nat
  BY Zenon, FramedSized
<1>2. Totals(running_bytes(q), q)
  BY Zenon, <1>1, RunningBytes DEF Sized
<1>3. Len(q) \in 0 .. Len(q) /\ (q = <<>> => Len(q) = 0)
  BY <1>1
<1> QED BY Zenon, <1>2, <1>3 DEF Totals, bytes_of

LEMMA BytesAppended ==
  ASSUME NEW q, Framed(q), NEW frame \in Frames
  PROVE  Framed(Append(q, frame)) /\ bytes_of(Append(q, frame)) = bytes_of(q) + frame.bytes
<1> DEFINE r == Append(q, frame)
<1>1. /\ Framed(r) /\ Len(r) = Len(q) + 1 /\ Len(q) \in Nat /\ r[Len(q) + 1] = frame
      /\ \A i \in 1 .. Len(q) : r[i] = q[i]
  BY AppendProperties, LenProperties DEF Framed
<1>2. \A i \in 1 .. Len(q) : q[i] = r[0 + i]
  BY <1>1
<1> HIDE DEF r
<1>3. Sized(q) /\ Sized(r)
  BY Zenon, <1>1, FramedSized
<1>4. 0 \in Nat /\ 0 + Len(q) <= Len(r) /\ 0 + Len(q) = Len(q) /\ Len(q) + 1 \in 1 .. Len(r) /\ (Len(q) + 1) - 1 = Len(q)
      /\ 0 \in 0 .. Len(r)
  BY <1>1
<1>5. bytes_of(q) \in Nat /\ running_bytes(r)[Len(q)] = running_bytes(r)[0] + bytes_of(q)
  BY <1>2, <1>3, <1>4, BytesBetween
<1>6. Totals(running_bytes(r), r)
  BY Zenon, <1>3, RunningBytes DEF Sized
<1>7. running_bytes(r)[0] = 0 /\ running_bytes(r)[Len(q) + 1] = running_bytes(r)[Len(q)] + frame.bytes
  BY Zenon, <1>1, <1>4, <1>6 DEF Totals
<1>8. bytes_of(r) = running_bytes(r)[Len(q) + 1]
  BY Zenon, <1>1 DEF bytes_of
<1> QED BY <1>1, <1>5, <1>7, <1>8 DEF r

LEMMA BytesSplit ==
  ASSUME NEW q, Framed(q), NEW n \in 0 .. Len(q)
  PROVE  /\ Framed(SubSeq(q, 1, n)) /\ Framed(SubSeq(q, n + 1, Len(q)))
         /\ Len(SubSeq(q, n + 1, Len(q))) = Len(q) - n
         /\ \A i \in 1 .. Len(q) - n : SubSeq(q, n + 1, Len(q))[i] = q[n + i]
         /\ bytes_of(q) = bytes_of(SubSeq(q, 1, n)) + bytes_of(SubSeq(q, n + 1, Len(q)))
<1> DEFINE a == SubSeq(q, 1, n)
           b == SubSeq(q, n + 1, Len(q))
<1>0. Len(q) \in Nat /\ n \in Nat
  BY DEF Framed
<1>e. \A i \in 1 .. Len(q) : q[i] \in Frames
  BY Zenon, FramedSized
<1>1. Framed(a) /\ Len(a) = n /\ \A i \in 1 .. n : a[i] = q[0 + i]
  <2>1. 1 \in Int /\ n \in Int /\ \A i \in 1 .. n : q[i] \in Frames
    BY <1>0, <1>e
  <2>2. /\ a \in Seq(Frames) /\ Len(a) = (IF 1 <= n THEN n - 1 + 1 ELSE 0)
        /\ \A i \in 1 .. n - 1 + 1 : a[i] = q[1 + i - 1]
    BY <2>1, SubSeqProperties
  <2> HIDE DEF a
  <2> QED BY <1>0, <2>2 DEF Framed
<1>2. Framed(b) /\ Len(b) = Len(q) - n /\ \A i \in 1 .. Len(q) - n : b[i] = q[n + i]
  <2>1. n + 1 \in Int /\ Len(q) \in Int /\ \A i \in n + 1 .. Len(q) : q[i] \in Frames
    BY <1>0, <1>e
  <2>2. /\ b \in Seq(Frames) /\ Len(b) = (IF n + 1 <= Len(q) THEN Len(q) - (n + 1) + 1 ELSE 0)
        /\ \A i \in 1 .. Len(q) - (n + 1) + 1 : b[i] = q[n + 1 + i - 1]
    BY <2>1, SubSeqProperties
  <2> HIDE DEF b
  <2> QED BY <1>0, <2>2 DEF Framed
<1> HIDE DEF a, b
<1>3. Sized(q) /\ Sized(a) /\ Sized(b)
  BY Zenon, <1>1, <1>2, FramedSized
<1>4. bytes_of(a) \in Nat /\ running_bytes(q)[n] = running_bytes(q)[0] + bytes_of(a)
  <2>1. /\ 0 \in Nat /\ 0 + Len(a) <= Len(q) /\ 0 + Len(a) = n
        /\ \A i \in 1 .. Len(a) : a[i].bytes = q[0 + i].bytes
    BY <1>0, <1>1
  <2>2. running_bytes(q)[0 + Len(a)] = running_bytes(q)[0] + bytes_of(a) /\ bytes_of(a) \in Nat
    BY Zenon, <2>1, <1>3, BytesBetween
  <2> QED BY <2>1, <2>2
<1>5. bytes_of(b) \in Nat /\ running_bytes(q)[Len(q)] = running_bytes(q)[n] + bytes_of(b)
  <2>1. /\ n + Len(b) <= Len(q) /\ n + Len(b) = Len(q)
        /\ \A i \in 1 .. Len(b) : b[i].bytes = q[n + i].bytes
    BY <1>0, <1>2
  <2>2. running_bytes(q)[n + Len(b)] = running_bytes(q)[n] + bytes_of(b) /\ bytes_of(b) \in Nat
    BY Zenon, <2>1, <1>0, <1>3, BytesBetween
  <2> QED BY Zenon, <2>1, <2>2
<1>6. Totals(running_bytes(q), q)
  BY Zenon, <1>3, RunningBytes DEF Sized
<1>7. running_bytes(q)[0] = 0
  BY Zenon, <1>6 DEF Totals
<1>8. bytes_of(q) = bytes_of(a) + bytes_of(b)
  BY <1>4, <1>5, <1>7 DEF bytes_of
<1> QED BY Zenon, <1>1, <1>2, <1>8 DEF a, b

LEMMA BytesPopped ==
  ASSUME NEW q, Framed(q), q # <<>>
  PROVE  /\ Framed(Tail(q)) /\ Len(Tail(q)) = Len(q) - 1 /\ Head(q) = q[1] /\ Len(q) \in Nat \ {0}
         /\ \A i \in 1 .. Len(q) - 1 : Tail(q)[i] = q[i + 1]
         /\ bytes_of(q) = Head(q).bytes + bytes_of(Tail(q))
<1> DEFINE t == Tail(q)
<1>1. Framed(t) /\ Len(t) = Len(q) - 1 /\ Head(q) = q[1] /\ Len(q) \in Nat \ {0} /\ \A i \in 1 .. Len(q) - 1 : t[i] = q[i + 1]
  <2>1. Framed(t) /\ Len(t) = Len(q) - 1 /\ Len(q) \in Nat \ {0} /\ \A i \in 1 .. Len(t) : t[i] = q[i + 1]
    BY Zenon, HeadTailProperties, EmptySeq DEF Framed
  <2>2. Head(q) = q[1]
    BY DEF Framed
  <2> QED BY Zenon, <2>1, <2>2
<1> HIDE DEF t
<1>2. Sized(q) /\ Sized(t)
  BY Zenon, <1>1, FramedSized
<1>3. 1 \in Nat /\ 1 + Len(t) <= Len(q) /\ 1 + Len(t) = Len(q) /\ (\A i \in 1 .. Len(t) : t[i] = q[1 + i])
      /\ 1 \in 1 .. Len(q) /\ 1 - 1 = 0
  BY <1>1
<1>4. bytes_of(t) \in Nat /\ running_bytes(q)[Len(q)] = running_bytes(q)[1] + bytes_of(t)
  BY <1>2, <1>3, BytesBetween
<1>5. Totals(running_bytes(q), q)
  BY Zenon, <1>2, RunningBytes DEF Sized
<1>6. running_bytes(q)[1] = running_bytes(q)[0] + q[1].bytes /\ running_bytes(q)[0] = 0
  BY Zenon, <1>3, <1>5 DEF Totals
<1>7. q[1].bytes \in Nat
  BY Zenon, <1>2, <1>3 DEF Sized
<1>8. bytes_of(q) = Head(q).bytes + bytes_of(t)
  BY <1>1, <1>4, <1>6, <1>7 DEF bytes_of
<1> QED BY Zenon, <1>1, <1>8 DEF t

-----------------------------------------------------------------------------
(* The wrapping counter. *)

LEMMA WrappedDistance ==
  ASSUME NEW a \in 0 .. NativeSpan - 1, NEW b \in 0 .. NativeSpan - 1
  PROVE  (a - b) % NativeSpan = IF a >= b THEN a - b ELSE a - b + NativeSpan
BY SpanAssumption

LEMMA WrappedNext ==
  ASSUME NEW a \in 0 .. NativeSpan - 1
  PROVE  (a + 1) % NativeSpan = IF a + 1 = NativeSpan THEN 0 ELSE a + 1
BY SpanAssumption

-----------------------------------------------------------------------------
(* The control of a capture. *)

Flags == {ready, closed, error, error_observed, stop, retained, dropping, ended} \subseteq BOOLEAN

ControlTypes ==
  /\ overflow_policy \in {"Fail", "DropNewest", "DropOldest"}
  /\ worker \in WorkerStates
  /\ running \in {"session", "reaper", "orphan", "none"}
  /\ stop_result \in {"none", "ok", "panicked"}
  /\ shutdown \in {"NotAttempted", "Incomplete", "Finished"}
  /\ owner \in {"arming", "idle", "late", "stop", "stopjoin", "join", "gone"}

ControlInv == ControlTypes /\ HandoffInv /\ ReadersAreOwned /\ ErrorsReported

controlVars == <<overflow_policy, closed, error, error_observed, ownerVars, ended>>

\* A reader that goes on reading disturbs nothing of its owner's.
LEMMA ReaderGoesOn ==
  ASSUME ControlInv, worker \in Reading, worker' \in Reading, UNCHANGED controlVars
  PROVE  ControlInv'
BY DEF ControlInv, ControlTypes, HandoffInv, ReadersAreOwned, ErrorsReported, controlVars, ownerVars,
       Reading, Finished, WorkerStates

\* The steps of a reader between the handoff and the end of its loop.
LEMMA ReaderSteps ==
  ASSUME ControlTypes,
         \/ WorkerReady \/ WorkerCheck \/ WorkerWoken \/ WorkerStatistics \/ WorkerFinal
         \/ WorkerPacket \/ WorkerTimeout \/ WorkerClosed \/ WorkerFails \/ NativeDrop
  PROVE  worker \in Reading /\ worker' \in Reading /\ UNCHANGED controlVars
<1>1. CASE WorkerReady
  BY <1>1 DEF WorkerReady, stateVars, controlVars, Reading
<1>2. CASE WorkerCheck
  BY <1>2 DEF WorkerCheck, stateVars, controlVars, Reading
<1>3. CASE WorkerWoken
  BY <1>3 DEF WorkerWoken, stateVars, controlVars, Reading
<1>4. CASE WorkerStatistics
  BY <1>4 DEF WorkerStatistics, stateVars, controlVars, Reading
<1>5. CASE WorkerFinal
  BY <1>5 DEF WorkerFinal, stateVars, controlVars, Reading
<1>6. CASE WorkerPacket
  BY <1>6 DEF WorkerPacket, Enqueue, stateVars, controlVars, Reading
<1>7. CASE WorkerTimeout
  BY <1>7 DEF WorkerTimeout, stateVars, controlVars, Reading
<1>8. CASE WorkerClosed
  BY <1>8 DEF WorkerClosed, stateVars, controlVars, Reading
<1>9. CASE WorkerFails
  BY <1>9 DEF WorkerFails, stateVars, controlVars, Reading
<1>10. CASE NativeDrop
  BY <1>10 DEF NativeDrop, stateVars, controlVars, Reading
<1> QED BY Zenon, <1>1, <1>2, <1>3, <1>4, <1>5, <1>6, <1>7, <1>8, <1>9, <1>10

LEMMA ControlStep ==
  ASSUME ControlInv, [CaptureNext]_captureVars
  PROVE  ControlInv'
<1> USE DEF ControlInv, ControlTypes, HandoffInv, ReadersAreOwned, ErrorsReported, stateVars, ownerVars,
            Reading, Finished, WorkerStates
<1>1. CASE \/ WorkerReady \/ WorkerCheck \/ WorkerWoken \/ WorkerStatistics \/ WorkerFinal
           \/ WorkerPacket \/ WorkerTimeout \/ WorkerClosed \/ WorkerFails \/ NativeDrop
  <2> USE DEF ControlInv
  <2> HIDE DEF ControlTypes, HandoffInv, ReadersAreOwned, ErrorsReported, Reading, ownerVars
  <2>1. worker \in Reading /\ worker' \in Reading /\ UNCHANGED controlVars
    BY Zenon, <1>1, ReaderSteps
  <2> HIDE DEF ControlInv
  <2> QED BY Zenon, <2>1, ReaderGoesOn
<1>2. CASE HandoffRefused
  BY <1>2 DEF HandoffRefused
<1>3. CASE WorkerSetsError
  BY <1>3 DEF WorkerSetsError
<1>4. CASE WorkerCloses
  BY <1>4 DEF WorkerCloses
<1>5. CASE WorkerExits
  BY <1>5 DEF WorkerExits
<1>6. CASE Activate
  BY <1>6 DEF Activate
<1>7. CASE Claim
  BY <1>7 DEF Claim
<1>8. CASE ClaimError
  BY <1>8 DEF ClaimError
<1>9. CASE ArmInterrupted
  BY <1>9 DEF ArmInterrupted
<1>10. CASE WaitReadyError
  BY <1>10 DEF WaitReadyError
<1>11. CASE NextFrame
  BY <1>11 DEF NextFrame
<1>12. CASE NextEnd
  <2>1. /\ UNCHANGED <<overflow_policy, closed, error, worker, queue, running, retained, stop_result, shutdown, owner>>
        /\ closed /\ queue = <<>> /\ (error_observed => error_observed')
    BY Zenon, <1>12 DEF NextEnd
  <2> QED BY <2>1
<1>13. CASE Interrupt
  BY <1>13 DEF Interrupt
<1>14. CASE JoinPending
  BY <1>14 DEF JoinPending
<1>15. CASE JoinFinished
  <2>1. /\ UNCHANGED <<overflow_policy, error, worker, queue, retained, stop_result, ended>>
        /\ owner = "join" /\ worker \in Finished /\ running' = "none" /\ shutdown' = "Finished"
        /\ owner' = (IF dropping THEN "gone" ELSE "idle")
        /\ (closed => closed') /\ (worker = "done" /\ error => error_observed')
    BY Zenon, <1>15 DEF JoinFinished
  <2> QED BY <2>1
<1>16. CASE RequestStop
  BY <1>16 DEF RequestStop, StopRequested
<1>17. CASE JoinUntil
  BY <1>17 DEF JoinUntil, StopRequested
<1>18. CASE DropAttempts
  BY <1>18 DEF DropAttempts, StopRequested
<1>19. CASE DropTransfers
  <2>1. /\ UNCHANGED <<overflow_policy, closed, error, error_observed, worker, queue, stop_result, shutdown, ended>>
        /\ owner = "idle" /\ owner' = "gone" /\ running' = IF running = "session" THEN "reaper" ELSE running
        /\ (retained => retained') /\ (running = "session" => retained')
    BY Zenon, <1>19 DEF DropTransfers
  <2> QED BY <2>1
<1>20. CASE ReaperNudge
  BY <1>20 DEF ReaperNudge
<1>21. CASE ReaperReleases
  BY <1>21 DEF ReaperReleases
<1>22. CASE UNCHANGED captureVars
  BY <1>22 DEF captureVars
<1> QED BY Zenon, <1>1, <1>2, <1>3, <1>4, <1>5, <1>6, <1>7, <1>8, <1>9, <1>10, <1>11, <1>12, <1>13, <1>14, <1>15, <1>16, <1>17, <1>18, <1>19, <1>20, <1>21, <1>22 DEF CaptureNext, Worker, Source, Arm, Read, Finish, Stop, Reaper

-----------------------------------------------------------------------------
(* What a capture counts. *)

Statistics == [received : Tally, dropped : Tally, overflow_events : Nat, receiver_dropped : Nat]

InOrder(q, last) ==
  \A i \in 1 .. Len(q) : q[i].id <= last /\ (i > 1 => q[i - 1].id < q[i].id)

QueueInv ==
  /\ Framed(queue) /\ queued_bytes \in Nat /\ statistics \in Statistics /\ seen \in Tally /\ got \in Tally
  /\ Len(queue) <= max_frames /\ queued_bytes <= max_bytes /\ queued_bytes = bytes_of(queue)
  /\ InOrder(queue, seen.frames)
  /\ seen.frames = got.frames + Len(queue) + statistics.dropped.frames - statistics.receiver_dropped
  /\ seen.bytes = got.bytes + queued_bytes + statistics.dropped.bytes

\* The new frame is the last to have arrived.
LEMMA OrderAppended ==
  ASSUME NEW q, Framed(q), NEW last \in Nat, InOrder(q, last), NEW frame \in Frames, frame.id = last + 1
  PROVE  InOrder(Append(q, frame), last + 1)
<1> DEFINE r == Append(q, frame)
<1>1. /\ Len(r) = Len(q) + 1 /\ Len(q) \in Nat /\ r[Len(q) + 1] = frame
      /\ \A i \in 1 .. Len(q) : r[i] = q[i]
  BY AppendProperties, LenProperties DEF Framed
<1> HIDE DEF r
<1>2. \A i \in 1 .. Len(q) : q[i].id \in Nat
  BY Zenon, FramedSized, FramesTyped
<1>3. ASSUME NEW i \in 1 .. Len(r) PROVE r[i].id <= last + 1 /\ (i > 1 => r[i - 1].id < r[i].id)
  <2>1. CASE i \in 1 .. Len(q)
    <3>1. r[i] = q[i] /\ (i > 1 => r[i - 1] = q[i - 1])
      BY <1>1, <2>1
    <3>2. q[i].id <= last /\ (i > 1 => q[i - 1].id < q[i].id) /\ q[i].id \in Nat
      BY Zenon, <1>2, <2>1 DEF InOrder
    <3>3. q[i].id <= last + 1
      BY <3>2
    <3> QED BY Zenon, <3>1, <3>2, <3>3
  <2>2. CASE i = Len(q) + 1
    <3>1. r[i].id = last + 1 /\ i - 1 = Len(q)
      BY <1>1, <2>2
    <3>2. ASSUME i > 1 PROVE r[i - 1].id < last + 1
      <4>1. Len(q) \in 1 .. Len(q)
        BY <1>1, <2>2, <3>2
      <4>2. r[i - 1] = q[Len(q)] /\ q[Len(q)].id <= last /\ q[Len(q)].id \in Nat
        BY Zenon, <1>1, <1>2, <3>1, <4>1 DEF InOrder
      <4> QED BY <4>2
    <3> QED BY <3>1, <3>2
  <2> QED BY <1>1, <2>1, <2>2
<1> QED BY Zenon, <1>3 DEF InOrder, r

\* The rest of the queue is still in order.
LEMMA OrderRest ==
  ASSUME NEW q, Framed(q), NEW last, InOrder(q, last), NEW n \in 0 .. Len(q), NEW r, Len(r) = Len(q) - n,
         \A i \in 1 .. Len(q) - n : r[i] = q[n + i]
  PROVE  InOrder(r, last)
<1>1. Len(q) \in Nat
  BY Zenon, FramedSized
<1>2. ASSUME NEW i \in 1 .. Len(r) PROVE r[i].id <= last /\ (i > 1 => r[i - 1].id < r[i].id)
  <2>1. n + i \in 1 .. Len(q) /\ (i > 1 => n + i > 1) /\ i \in 1 .. Len(q) - n /\ (i > 1 => i - 1 \in 1 .. Len(q) - n)
        /\ n + (i - 1) = (n + i) - 1
    BY <1>1
  <2>2. r[i] = q[n + i] /\ (i > 1 => r[i - 1] = q[(n + i) - 1])
    BY Zenon, <2>1
  <2>3. q[n + i].id <= last /\ (n + i > 1 => q[(n + i) - 1].id < q[n + i].id)
    BY Zenon, <2>1 DEF InOrder
  <2> QED BY Zenon, <2>1, <2>2, <2>3
<1> QED BY Zenon, <1>2 DEF InOrder

\* What an enqueue does to the queue and to the counters.
Stored ==
  /\ QueueInv'
  /\ statistics'.receiver_dropped = statistics.receiver_dropped
  /\ statistics.dropped.frames <= statistics'.dropped.frames

LEMMA TallyTyped ==
  ASSUME NEW t \in Tally, NEW frames \in Nat, NEW bytes \in Nat
  PROVE  /\ t.frames \in Nat /\ t.bytes \in Nat
         /\ Add(t, frames, bytes) \in Tally
         /\ Add(t, frames, bytes).frames = t.frames + frames /\ Add(t, frames, bytes).bytes = t.bytes + bytes
BY DEF Tally, Add

LEMMA StatisticsTyped ==
  ASSUME NEW s \in Statistics, NEW frames \in Nat, NEW bytes \in Nat
  PROVE  /\ s.receiver_dropped \in Nat /\ s.dropped \in Tally /\ s.received \in Tally
         /\ record_overflow(s, frames, bytes) \in Statistics
         /\ record_overflow(s, frames, bytes).dropped = Add(s.dropped, frames, bytes)
         /\ record_overflow(s, frames, bytes).receiver_dropped = s.receiver_dropped
         /\ record_received(s, bytes) \in Statistics
         /\ record_received(s, bytes).dropped = s.dropped
         /\ record_received(s, bytes).receiver_dropped = s.receiver_dropped
<1>1. s.receiver_dropped \in Nat /\ s.dropped \in Tally /\ s.received \in Tally /\ s.overflow_events \in Nat
  BY DEF Statistics
<1>2. Add(s.dropped, frames, bytes) \in Tally /\ Add(s.received, 1, bytes) \in Tally
  BY Zenon, <1>1, TallyTyped
<1>3. /\ record_overflow(s, frames, bytes) \in Statistics
      /\ record_overflow(s, frames, bytes).dropped = Add(s.dropped, frames, bytes)
      /\ record_overflow(s, frames, bytes).receiver_dropped = s.receiver_dropped
  <2> DEFINE d == Add(s.dropped, frames, bytes)
             e == s.overflow_events + 1
             r == [s EXCEPT !.overflow_events = e, !.dropped = d]
  <2>1. record_overflow(s, frames, bytes) = r
    BY Zenon DEF record_overflow
  <2>2. d \in Tally /\ e \in Nat
    BY <1>1, <1>2
  <2>3. r \in Statistics /\ r.dropped = d /\ r.receiver_dropped = s.receiver_dropped
    <3> HIDE DEF d, e
    <3> QED BY Zenon, <1>1, <2>2 DEF Statistics
  <2> HIDE DEF r
  <2> QED BY Zenon, <2>1, <2>3 DEF d
<1>4. /\ record_received(s, bytes) \in Statistics
      /\ record_received(s, bytes).dropped = s.dropped
      /\ record_received(s, bytes).receiver_dropped = s.receiver_dropped
  BY <1>1, <1>2 DEF Statistics, record_received
<1> QED BY Zenon, <1>1, <1>3, <1>4

\* The oldest n frames go, counted as dropped, and the new one fits.
LEMMA PushStores ==
  ASSUME QueueInv, NEW b \in Lengths, NEW n \in 0 .. Len(queue), NEW s \in Statistics,
         s.dropped.frames = statistics.dropped.frames + n,
         s.dropped.bytes = statistics.dropped.bytes + bytes_of(SubSeq(queue, 1, n)),
         s.receiver_dropped = statistics.receiver_dropped,
         admits(Len(queue) - n, bytes_of(SubSeq(queue, n + 1, Len(queue))), b),
         Push(b, n, s), seen.frames < MaxSeen, seen' = Add(seen, 1, b), UNCHANGED got
  PROVE  Stored
<1> DEFINE old == SubSeq(queue, 1, n)
           rest == SubSeq(queue, n + 1, Len(queue))
           frame == [id |-> seen.frames + 1, bytes |-> b]
           last == seen.frames
           full == Len(queue)
<1>1. /\ Framed(queue) /\ queued_bytes \in Nat /\ statistics \in Statistics /\ seen \in Tally /\ got \in Tally
      /\ queued_bytes = bytes_of(queue) /\ InOrder(queue, last)
      /\ last = got.frames + full + statistics.dropped.frames - statistics.receiver_dropped
      /\ seen.bytes = got.bytes + queued_bytes + statistics.dropped.bytes
  BY Zenon DEF QueueInv
<1>2. /\ Framed(old) /\ Framed(rest) /\ Len(rest) = full - n
      /\ \A i \in 1 .. full - n : rest[i] = queue[n + i]
      /\ bytes_of(queue) = bytes_of(old) + bytes_of(rest)
  BY Zenon, <1>1, BytesSplit
<1>3. bytes_of(old) \in Nat /\ bytes_of(rest) \in Nat
  BY Zenon, <1>2, BytesTyped
<1>4. /\ queue' = Append(rest, frame)
      /\ queued_bytes' = queued_bytes - bytes_of(old) + b
      /\ statistics' = record_received(s, b)
  BY Zenon DEF Push
<1>5. /\ last \in Nat /\ seen.bytes \in Nat /\ got.frames \in Nat /\ got.bytes \in Nat
      /\ full \in Nat /\ n \in Nat /\ n <= full /\ max_frames \in Nat /\ max_bytes \in Nat
  <2>1. 0 \in Nat
    OBVIOUS
  <2>2. last \in Nat /\ seen.bytes \in Nat /\ got.frames \in Nat /\ got.bytes \in Nat /\ full \in Nat
    BY Zenon, <2>1, <1>1, TallyTyped, FramedSized
  <2>3. n \in Nat /\ n <= full
    BY <2>2
  <2> QED BY <2>2, <2>3, LimitsAssumption
<1>6. frame \in Frames /\ frame.id = last + 1 /\ frame.bytes = b /\ b \in Nat
  <2>1. b \in Nat
    BY LengthsAssumption, LimitsAssumption
  <2>2. last + 1 \in 1 .. MaxSeen
    BY <1>5, BoundsAssumption
  <2> QED BY <2>1, <2>2 DEF Frames
<1>7. InOrder(rest, last)
  BY Zenon, <1>1, <1>2, OrderRest
<1> HIDE DEF frame, rest, old
<1>8. Framed(queue') /\ bytes_of(queue') = bytes_of(rest) + b
  BY Zenon, <1>2, <1>4, <1>6, BytesAppended
<1>9. InOrder(queue', last + 1)
  BY Zenon, <1>2, <1>4, <1>5, <1>6, <1>7, OrderAppended
<1>10. Len(queue') = full - n + 1
  <2>1. Len(queue') = Len(rest) + 1
    BY AppendProperties, <1>2, <1>4, <1>6 DEF Framed
  <2> QED BY Zenon, <2>1, <1>2
<1>11. /\ statistics' \in Statistics /\ statistics'.dropped = s.dropped
       /\ statistics'.receiver_dropped = s.receiver_dropped
       /\ s.dropped \in Tally /\ statistics.dropped \in Tally
       /\ s.receiver_dropped \in Nat
  BY Zenon, <1>1, <1>4, <1>6, StatisticsTyped
<1>12. seen' \in Tally /\ seen'.frames = last + 1 /\ seen'.bytes = seen.bytes + b
  <2>1. 1 \in Nat
    OBVIOUS
  <2>2. seen \in Tally /\ b \in Nat /\ seen' = Add(seen, 1, b)
    BY Zenon, <1>1, <1>6
  <2>3. /\ Add(seen, 1, b) \in Tally /\ Add(seen, 1, b).frames = seen.frames + 1
        /\ Add(seen, 1, b).bytes = seen.bytes + b
    BY <2>2 DEF Add, Tally
  <2> QED BY Zenon, <2>2, <2>3
<1>13. /\ statistics.dropped.frames \in Nat /\ statistics.dropped.bytes \in Nat
  BY Zenon, <1>11, <1>5, TallyTyped
<1>14. full - n < max_frames /\ bytes_of(rest) + b <= max_bytes
  BY Zenon DEF admits, rest
<1>15. s.dropped.bytes = statistics.dropped.bytes + bytes_of(old)
  BY Zenon DEF old
<1> DEFINE df == statistics.dropped.frames
           db == statistics.dropped.bytes
           rd == statistics.receiver_dropped
           x == bytes_of(old)
           y == bytes_of(rest)
           gf == got.frames
           gb == got.bytes
<1>16. queued_bytes' = y + b /\ queued_bytes' \in Nat /\ queued_bytes' <= max_bytes /\ Len(queue') <= max_frames
  <2>1. queued_bytes = x + y /\ queued_bytes' = queued_bytes - x + b
    BY Zenon, <1>1, <1>2, <1>4
  <2>2. x \in Nat /\ y \in Nat /\ b \in Nat /\ y + b <= max_bytes /\ full - n < max_frames
    BY Zenon, <1>3, <1>6, <1>14
  <2>3. full \in Nat /\ n \in Nat /\ max_frames \in Nat /\ Len(queue') = full - n + 1
    BY Zenon, <1>5, <1>10
  <2> HIDE DEF x, y, full
  <2>4. queued_bytes' = y + b /\ y + b \in Nat
    BY <2>1, <2>2
  <2>5. Len(queue') <= max_frames
    BY <2>2, <2>3
  <2> QED BY Zenon, <2>2, <2>4, <2>5
<1>17. seen'.frames = got'.frames + Len(queue') + statistics'.dropped.frames - statistics'.receiver_dropped
  <2>1. last = gf + full + df - rd /\ seen'.frames = last + 1 /\ Len(queue') = full - n + 1
    BY Zenon, <1>1, <1>10, <1>12
  <2>2. statistics'.dropped.frames = df + n /\ statistics'.receiver_dropped = rd /\ got'.frames = gf
    BY Zenon, <1>11
  <2>3. rd \in Nat /\ df \in Nat /\ gf \in Nat
    BY Zenon, <1>5, <1>11, <1>13
  <2> HIDE DEF gf, df, rd, full, last
  <2> QED BY <2>1, <2>2, <2>3, <1>5
<1>18. seen'.bytes = got'.bytes + queued_bytes' + statistics'.dropped.bytes
  <2>1. seen.bytes = gb + (x + y) + db /\ seen'.bytes = seen.bytes + b /\ queued_bytes' = y + b
    BY Zenon, <1>1, <1>2, <1>12, <1>16
  <2>2. statistics'.dropped.bytes = db + x /\ got'.bytes = gb
    BY Zenon, <1>11, <1>15
  <2>3. x \in Nat /\ y \in Nat /\ b \in Nat /\ gb \in Nat /\ db \in Nat
    BY Zenon, <1>3, <1>5, <1>6, <1>13
  <2> HIDE DEF gb, db, x, y
  <2> QED BY <2>1, <2>2, <2>3
<1>19. statistics.dropped.frames <= statistics'.dropped.frames
  <2>1. statistics'.dropped.frames = df + n
    BY Zenon, <1>11
  <2> HIDE DEF df
  <2> QED BY <2>1, <1>5, <1>13 DEF df
<1>20. queued_bytes' = bytes_of(queue')
  BY Zenon, <1>8, <1>16
<1>21. InOrder(queue', seen'.frames)
  BY Zenon, <1>9, <1>12
<1>22. got' \in Tally
  BY Zenon, <1>1
<1>23. QueueInv'
  BY Zenon, <1>8, <1>11, <1>12, <1>16, <1>17, <1>18, <1>20, <1>21, <1>22 DEF QueueInv
<1> QED BY Zenon, <1>11, <1>19, <1>23 DEF Stored

\* Without any frame in front, nothing is evicted.
LEMMA NothingEvicted ==
  ASSUME NEW q, Framed(q)
  PROVE  bytes_of(SubSeq(q, 1, 0)) = 0 /\ bytes_of(SubSeq(q, 1, Len(q))) = bytes_of(q)
<1> DEFINE old == SubSeq(q, 1, 0)
           x == bytes_of(old)
           y == bytes_of(SubSeq(q, 1, Len(q)))
<1>1. Len(q) \in Nat /\ 0 \in 0 .. Len(q) /\ 0 + 1 = 1
  BY FramedSized
<1>2. Framed(old) /\ Framed(SubSeq(q, 1, Len(q))) /\ bytes_of(q) = x + y
  BY Zenon, <1>1, BytesSplit
<1>3. old = <<>>
  BY SubSeqProperties DEF Framed
<1>4. x = 0 /\ y \in Nat
  BY Zenon, <1>2, <1>3, BytesTyped
<1> HIDE DEF x, y
<1>5. bytes_of(q) = y
  BY <1>2, <1>4
<1> QED BY Zenon, <1>4, <1>5 DEF x, y

\* The new frame is the one that is dropped.
LEMMA DiscardStores ==
  ASSUME QueueInv, NEW b \in Lengths, Discard(b), seen.frames < MaxSeen, seen' = Add(seen, 1, b), UNCHANGED got
  PROVE  Stored
<1> DEFINE df == statistics.dropped.frames
           db == statistics.dropped.bytes
           rd == statistics.receiver_dropped
           full == Len(queue)
<1>1. /\ Framed(queue) /\ queued_bytes \in Nat /\ statistics \in Statistics /\ seen \in Tally /\ got \in Tally
      /\ full <= max_frames /\ queued_bytes <= max_bytes /\ queued_bytes = bytes_of(queue)
      /\ InOrder(queue, seen.frames) /\ seen.frames = got.frames + full + df - rd
      /\ seen.bytes = got.bytes + queued_bytes + db
  BY Zenon DEF QueueInv
<1>2. b \in Nat /\ 1 \in Nat
  BY LengthsAssumption, LimitsAssumption
<1>3. /\ statistics.dropped \in Tally /\ rd \in Nat
      /\ record_overflow(statistics, 1, b) \in Statistics
      /\ record_overflow(statistics, 1, b).dropped = Add(statistics.dropped, 1, b)
      /\ record_overflow(statistics, 1, b).receiver_dropped = rd
  BY Zenon, <1>1, <1>2, StatisticsTyped
<1>4. /\ statistics' \in Statistics /\ statistics'.receiver_dropped = rd
      /\ statistics'.dropped = Add(statistics.dropped, 1, b)
  BY Zenon, <1>3 DEF Discard
<1>5. /\ df \in Nat /\ db \in Nat /\ statistics'.dropped.frames = df + 1 /\ statistics'.dropped.bytes = db + b
  BY <1>2, <1>3, <1>4 DEF Add, Tally
<1>6. seen.frames \in Nat /\ seen.bytes \in Nat /\ got.frames \in Nat /\ got.bytes \in Nat /\ full \in Nat
  BY Zenon, <1>1, <1>2, TallyTyped, FramedSized
<1>7. seen' \in Tally /\ seen'.frames = seen.frames + 1 /\ seen'.bytes = seen.bytes + b
  <2>1. seen' = Add(seen, 1, b) /\ seen \in Tally
    BY Zenon, <1>1
  <2> QED BY <1>2, <2>1 DEF Add, Tally
<1>8. /\ seen.frames + 1 = got.frames + full + (df + 1) - rd
      /\ seen.bytes + b = got.bytes + queued_bytes + (db + b) /\ df <= df + 1
  <2> DEFINE sf == seen.frames
             sb == seen.bytes
             gf == got.frames
             gb == got.bytes
  <2>1. sf = gf + full + df - rd /\ sb = gb + queued_bytes + db /\ queued_bytes \in Nat
    BY Zenon, <1>1
  <2>2. /\ sf \in Nat /\ sb \in Nat /\ gf \in Nat /\ gb \in Nat /\ full \in Nat /\ df \in Nat
        /\ db \in Nat /\ rd \in Nat
    BY Zenon, <1>3, <1>5, <1>6
  <2> HIDE DEF df, db, rd, full, sf, sb, gf, gb
  <2>3. sf + 1 = gf + full + (df + 1) - rd /\ sb + b = gb + queued_bytes + (db + b) /\ df <= df + 1
    BY <1>2, <2>1, <2>2
  <2> QED BY Zenon, <2>3 DEF sf, sb, gf, gb
<1>9. InOrder(queue, seen.frames + 1)
  <2>1. \A i \in 1 .. Len(queue) : queue[i].id \in Nat
    BY Zenon, <1>1, FramedSized, FramesTyped
  <2>2. ASSUME NEW i \in 1 .. Len(queue) PROVE queue[i].id <= seen.frames + 1 /\ (i > 1 => queue[i - 1].id < queue[i].id)
    <3>1. queue[i].id <= seen.frames /\ (i > 1 => queue[i - 1].id < queue[i].id) /\ queue[i].id \in Nat
      BY Zenon, <1>1, <2>1 DEF InOrder
    <3>2. queue[i].id <= seen.frames + 1
      BY <1>6, <3>1
    <3> QED BY Zenon, <3>1, <3>2
  <2> QED BY Zenon, <2>2 DEF InOrder
<1>10. queue' = queue /\ queued_bytes' = queued_bytes /\ got' = got
  BY Zenon DEF Discard
<1>11. QueueInv'
  BY Zenon, <1>1, <1>4, <1>5, <1>7, <1>8, <1>9, <1>10 DEF QueueInv
<1> QED BY Zenon, <1>4, <1>5, <1>8, <1>11 DEF Stored

\* CaptureQueue::enqueue, whatever the policy.
LEMMA EnqueueStores ==
  ASSUME QueueInv, NEW b \in Lengths, Enqueue(b), seen.frames < MaxSeen, seen' = Add(seen, 1, b), UNCHANGED got
  PROVE  Stored
<1>1. /\ Framed(queue) /\ Len(queue) \in Nat /\ b \in Nat /\ statistics \in Statistics
      /\ queued_bytes = bytes_of(queue) /\ statistics.dropped \in Tally
  <2>1. b \in Nat
    BY LengthsAssumption, LimitsAssumption
  <2>2. Framed(queue) /\ statistics \in Statistics /\ queued_bytes = bytes_of(queue)
    BY Zenon DEF QueueInv
  <2>3. statistics.dropped \in Tally
    BY Zenon, <2>1, <2>2, StatisticsTyped
  <2> QED BY Zenon, <2>1, <2>2, <2>3, FramedSized
<1>2. CASE admits(Len(queue), queued_bytes, b)
  <2>1. Push(b, 0, statistics)
    BY Zenon, <1>2 DEF Enqueue
  <2>2. 0 \in 0 .. Len(queue) /\ Len(queue) - 0 = Len(queue) /\ 0 + 1 = 1
    BY <1>1
  <2>3. bytes_of(SubSeq(queue, 1, 0)) = 0 /\ bytes_of(SubSeq(queue, 0 + 1, Len(queue))) = queued_bytes
    BY Zenon, <1>1, <2>2, NothingEvicted
  <2>4. admits(Len(queue) - 0, bytes_of(SubSeq(queue, 0 + 1, Len(queue))), b)
    BY Zenon, <1>2, <2>2, <2>3
  <2>5. /\ statistics.dropped.frames = statistics.dropped.frames + 0
        /\ statistics.dropped.bytes = statistics.dropped.bytes + bytes_of(SubSeq(queue, 1, 0))
    <3>1. statistics.dropped.frames \in Nat /\ statistics.dropped.bytes \in Nat
      BY Zenon, <1>1, TallyTyped
    <3>2. statistics.dropped.bytes = statistics.dropped.bytes + 0 /\ statistics.dropped.frames = statistics.dropped.frames + 0
      BY <3>1
    <3> QED BY Zenon, <2>3, <3>2
  <2> QED BY Zenon, <1>1, <2>1, <2>2, <2>4, <2>5, PushStores
<1>3. CASE ~admits(Len(queue), queued_bytes, b) /\ overflow_policy = "DropOldest" /\ plan_eviction(b) # {}
  <2> DEFINE n == Min(plan_eviction(b))
             x == bytes_of(SubSeq(queue, 1, n))
             s == record_overflow(statistics, n, x)
  <2>1. Push(b, n, s)
    BY Zenon, <1>3 DEF Enqueue, Overflow
  <2>2. n \in plan_eviction(b)
    <3>1. plan_eviction(b) \subseteq Nat
      BY <1>1 DEF plan_eviction
    <3>2. \E m \in plan_eviction(b) : \A y \in plan_eviction(b) : m =< y
      BY Zenon, <1>3, <3>1, LeastNatural
    <3> QED BY Zenon, <3>2 DEF Min
  <2> HIDE DEF n
  <2>3. n \in 0 .. Len(queue) /\ admits(Len(queue) - n, bytes_of(SubSeq(queue, n + 1, Len(queue))), b)
    BY Zenon, <2>2 DEF plan_eviction
  <2>4. n \in Nat /\ x \in Nat
    <3>1. n \in Nat
      BY <1>1, <2>3
    <3> QED BY Zenon, <3>1, <1>1, <2>3, BytesSplit, BytesTyped
  <2> HIDE DEF x
  <2>5. s \in Statistics /\ s.dropped = Add(statistics.dropped, n, x) /\ s.receiver_dropped = statistics.receiver_dropped
    BY Zenon, <1>1, <2>4, StatisticsTyped
  <2>6. s.dropped.frames = statistics.dropped.frames + n /\ s.dropped.bytes = statistics.dropped.bytes + x
    BY <1>1, <2>4, <2>5 DEF Add, Tally
  <2> HIDE DEF s
  <2> QED BY Zenon, <2>1, <2>3, <2>5, <2>6, PushStores DEF x
<1>4. CASE ~admits(Len(queue), queued_bytes, b) /\ ~(overflow_policy = "DropOldest" /\ plan_eviction(b) # {})
  <2>1. Discard(b)
    BY Zenon, <1>4 DEF Enqueue, Overflow
  <2> QED BY Zenon, <2>1, DiscardStores
<1> QED BY Zenon, <1>2, <1>3, <1>4

\* next_captured_frame takes the oldest frame.
LEMMA FrameTaken ==
  ASSUME QueueInv, NextFrame PROVE QueueInv' /\ UNCHANGED statistics
<1> DEFINE b == Head(queue).bytes
           y == bytes_of(Tail(queue))
           gf == got.frames
           gb == got.bytes
           df == statistics.dropped.frames
           db == statistics.dropped.bytes
           rd == statistics.receiver_dropped
           full == Len(queue)
<1>1. /\ queue # <<>> /\ queue' = Tail(queue) /\ queued_bytes' = queued_bytes - b
      /\ got' = Add(got, 1, b) /\ statistics' = statistics /\ seen' = seen
  BY Zenon DEF NextFrame, sourceVars
<1>2. /\ Framed(queue) /\ queued_bytes \in Nat /\ statistics \in Statistics /\ seen \in Tally /\ got \in Tally
      /\ full <= max_frames /\ queued_bytes <= max_bytes /\ queued_bytes = bytes_of(queue)
      /\ InOrder(queue, seen.frames) /\ seen.frames = gf + full + df - rd
      /\ seen.bytes = gb + queued_bytes + db
  BY Zenon DEF QueueInv
<1>3. /\ Framed(Tail(queue)) /\ Len(Tail(queue)) = full - 1 /\ full \in Nat \ {0} /\ Head(queue) = queue[1]
      /\ \A i \in 1 .. full - 1 : Tail(queue)[i] = queue[i + 1]
      /\ bytes_of(queue) = b + y
  BY Zenon, <1>1, <1>2, BytesPopped
<1>4. b \in Nat /\ y \in Nat
  <2>1. 1 \in 1 .. full
    BY <1>3
  <2>2. queue[1] \in Frames
    BY Zenon, <1>2, <2>1, FramedSized
  <2> QED BY Zenon, <1>3, <2>2, FramesTyped, BytesTyped
<1>5. /\ gf \in Nat /\ gb \in Nat /\ df \in Nat /\ db \in Nat /\ rd \in Nat
      /\ got' \in Tally /\ got'.frames = gf + 1 /\ got'.bytes = gb + b
  <2>1. 1 \in Nat
    OBVIOUS
  <2>2. statistics.dropped \in Tally /\ rd \in Nat
    BY Zenon, <1>2, <2>1, StatisticsTyped
  <2>3. Add(got, 1, b) \in Tally /\ Add(got, 1, b).frames = gf + 1 /\ Add(got, 1, b).bytes = gb + b
    <3>1. got \in Tally /\ b \in Nat
      BY Zenon, <1>2, <1>4
    <3> HIDE DEF b
    <3> QED BY <3>1 DEF Add, Tally
  <2>4. gf \in Nat /\ gb \in Nat /\ df \in Nat /\ db \in Nat
    BY Zenon, <1>2, <2>1, <2>2, TallyTyped
  <2> QED BY Zenon, <1>1, <2>2, <2>3, <2>4
<1>6. InOrder(Tail(queue), seen.frames)
  <2>1. 1 \in 0 .. full /\ \A i \in 1 .. full - 1 : Tail(queue)[i] = queue[1 + i]
    BY <1>3
  <2> QED BY Zenon, <1>2, <1>3, <2>1, OrderRest
<1> HIDE DEF b, y, gf, gb, df, db, rd, full
<1>7. /\ queued_bytes' = y /\ queued_bytes' \in Nat /\ queued_bytes' <= max_bytes
      /\ seen.bytes = (gb + b) + y + db
  BY <1>1, <1>2, <1>3, <1>4, <1>5, LimitsAssumption
<1>8. full - 1 <= max_frames /\ seen.frames = (gf + 1) + (full - 1) + df - rd
  <2>1. full <= max_frames /\ seen.frames = gf + full + df - rd /\ full \in Nat
    BY Zenon, <1>2, <1>3
  <2> QED BY <2>1, <1>5, LimitsAssumption
<1>9. /\ Len(queue') = full - 1 /\ queued_bytes' = bytes_of(queue') /\ Framed(queue') /\ InOrder(queue', seen'.frames)
      /\ statistics'.dropped.frames = df /\ statistics'.dropped.bytes = db /\ statistics'.receiver_dropped = rd
  BY Zenon, <1>1, <1>3, <1>6, <1>7 DEF y, df, db, rd
<1>10. /\ Len(queue') <= max_frames
       /\ seen'.frames = got'.frames + Len(queue') + statistics'.dropped.frames - statistics'.receiver_dropped
       /\ seen'.bytes = got'.bytes + queued_bytes' + statistics'.dropped.bytes
  BY Zenon, <1>1, <1>5, <1>7, <1>8, <1>9
<1>11. QueueInv'
  BY Zenon, <1>1, <1>2, <1>5, <1>7, <1>9, <1>10 DEF QueueInv
<1> QED BY Zenon, <1>1, <1>11

\* add_native_drop_deltas counts as dropped what it counts as dropped by the receiver.
LEMMA DropsAdded ==
  ASSUME QueueInv, drop_delta \in Nat, AddDrops, UNCHANGED <<queue, queued_bytes, seen, got>>
  PROVE  /\ QueueInv'
         /\ statistics'.receiver_dropped = statistics.receiver_dropped + drop_delta
         /\ statistics'.dropped.frames = statistics.dropped.frames + drop_delta
<1> DEFINE df == statistics.dropped.frames
           db == statistics.dropped.bytes
           rd == statistics.receiver_dropped
           d == drop_delta
           full == Len(queue)
<1>1. /\ Framed(queue) /\ queued_bytes \in Nat /\ statistics \in Statistics /\ seen \in Tally /\ got \in Tally
      /\ full <= max_frames /\ queued_bytes <= max_bytes /\ queued_bytes = bytes_of(queue)
      /\ InOrder(queue, seen.frames) /\ seen.frames = got.frames + full + df - rd
      /\ seen.bytes = got.bytes + queued_bytes + db
  BY Zenon DEF QueueInv
<1>2. /\ df \in Nat /\ db \in Nat /\ rd \in Nat /\ d \in Nat /\ got.frames \in Nat /\ full \in Nat
      /\ statistics.dropped \in Tally
  <2>1. 1 \in Nat
    OBVIOUS
  <2>2. statistics.dropped \in Tally /\ rd \in Nat
    BY Zenon, <1>1, <2>1, StatisticsTyped
  <2> QED BY Zenon, <1>1, <2>1, <2>2, TallyTyped, FramedSized
<1>3. /\ statistics' \in Statistics /\ statistics'.receiver_dropped = rd + d
      /\ statistics'.dropped.frames = df + d /\ statistics'.dropped.bytes = db
  <2> DEFINE t == [statistics.dropped EXCEPT !.frames = df + d]
             r == rd + d
             s == [statistics EXCEPT !.receiver_dropped = r, !.dropped = t]
  <2>1. statistics' = s
    BY Zenon DEF AddDrops
  <2>2. r \in Nat /\ df + d \in Nat
    BY <1>2
  <2>3. t \in Tally /\ t.frames = df + d /\ t.bytes = db
    <3> HIDE DEF d
    <3> QED BY <1>2, <2>2 DEF Tally
  <2> HIDE DEF t, r
  <2>4. s \in Statistics /\ s.receiver_dropped = r /\ s.dropped = t
    BY Zenon, <1>1, <2>2, <2>3 DEF Statistics
  <2> QED BY Zenon, <2>1, <2>3, <2>4 DEF r
<1>4. seen.frames = got.frames + full + (df + d) - (rd + d)
  <2> HIDE DEF df, rd, d, full
  <2> QED BY <1>1, <1>2
<1>5. QueueInv'
  BY Zenon, <1>1, <1>3, <1>4 DEF QueueInv
<1> QED BY Zenon, <1>3, <1>5

-----------------------------------------------------------------------------
(* The counters of a capture. *)

CountInv ==
  /\ native \in 0 .. NativeSpan - 1 /\ native_statistics \in 0 .. NativeSpan - 1 /\ drops \in Nat
  /\ DropsInv
  /\ closed /\ ~error /\ worker \in {"exit"} \cup Finished => statistics.receiver_dropped = drops

\* The steps that change a counter; the others are quiet.
Counting ==
  WorkerReady \/ WorkerPacket \/ WorkerStatistics \/ WorkerFinal \/ NativeDrop \/ NextFrame

countVars == <<queue, queued_bytes, statistics, native, native_statistics, drops, seen, got>>

LEMMA QuietSteps ==
  ASSUME [CaptureNext]_captureVars, ~Counting PROVE UNCHANGED countVars
<1> USE DEF countVars, stateVars, sourceVars
<1>1. CASE HandoffRefused
  BY Zenon, <1>1 DEF HandoffRefused
<1>2. CASE WorkerCheck
  BY Zenon, <1>2 DEF WorkerCheck
<1>3. CASE WorkerWoken
  BY Zenon, <1>3 DEF WorkerWoken
<1>4. CASE WorkerSetsError
  BY Zenon, <1>4 DEF WorkerSetsError
<1>5. CASE WorkerCloses
  BY Zenon, <1>5 DEF WorkerCloses
<1>6. CASE WorkerExits
  BY Zenon, <1>6 DEF WorkerExits
<1>7. CASE Activate
  BY Zenon, <1>7 DEF Activate
<1>8. CASE WorkerTimeout
  BY Zenon, <1>8 DEF WorkerTimeout
<1>9. CASE WorkerClosed
  BY Zenon, <1>9 DEF WorkerClosed
<1>10. CASE WorkerFails
  BY Zenon, <1>10 DEF WorkerFails
<1>11. CASE Claim
  BY Zenon, <1>11 DEF Claim
<1>12. CASE ClaimError
  BY Zenon, <1>12 DEF ClaimError
<1>13. CASE ArmInterrupted
  BY Zenon, <1>13 DEF ArmInterrupted
<1>14. CASE WaitReadyError
  BY Zenon, <1>14 DEF WaitReadyError
<1>15. CASE NextEnd
  BY Zenon, <1>15 DEF NextEnd
<1>16. CASE Interrupt
  BY Zenon, <1>16 DEF Interrupt
<1>17. CASE JoinPending
  BY Zenon, <1>17 DEF JoinPending
<1>18. CASE JoinFinished
  BY Zenon, <1>18 DEF JoinFinished
<1>19. CASE RequestStop
  BY Zenon, <1>19 DEF RequestStop
<1>20. CASE JoinUntil
  BY Zenon, <1>20 DEF JoinUntil
<1>21. CASE DropAttempts
  BY Zenon, <1>21 DEF DropAttempts
<1>22. CASE DropTransfers
  BY Zenon, <1>22 DEF DropTransfers
<1>23. CASE ReaperNudge
  BY Zenon, <1>23 DEF ReaperNudge
<1>24. CASE ReaperReleases
  BY Zenon, <1>24 DEF ReaperReleases
<1>25. CASE UNCHANGED captureVars
  BY Zenon, <1>25 DEF captureVars
<1> HIDE DEF countVars
<1> QED BY Zenon, <1>1, <1>2, <1>3, <1>4, <1>5, <1>6, <1>7, <1>8, <1>9, <1>10, <1>11, <1>12, <1>13, <1>14, <1>15, <1>16, <1>17, <1>18, <1>19, <1>20, <1>21, <1>22, <1>23, <1>24, <1>25 DEF Counting, CaptureNext, Worker, Source, Arm, Read, Finish, Stop, Reaper

\* Where the worker and the queue's end may go in a step that counts nothing.
LEMMA QuietMoves ==
  ASSUME ControlInv, [CaptureNext]_captureVars, ~Counting
  PROVE  \/ worker' = worker /\ (closed' /\ ~error' /\ worker \in {"exit"} \cup Finished => closed /\ ~error)
         \/ worker \in {"activating", "offering", "refusing"} /\ worker' \in {"offering", "refusing", "start"}
         \/ ~closed' /\ worker' \in {"exit"} \cup Finished
         \/ worker \in Reading \ {"start", "closing", "failed"} /\ worker' \in Reading \ {"start", "closing"}
         \/ worker' = "failed"
         \/ error' /\ worker' = "exit"
         \/ worker = "closing" /\ worker' = "exit"
         \/ worker = "exit" /\ worker' \in Finished /\ closed' = closed /\ error' = error
<1> USE DEF Reading, Finished, stateVars, ControlInv, ControlTypes, HandoffInv, WorkerStates
<1>1. CASE HandoffRefused
  BY <1>1 DEF HandoffRefused
<1>2. CASE WorkerCheck
  BY <1>2 DEF WorkerCheck
<1>3. CASE WorkerWoken
  BY <1>3 DEF WorkerWoken
<1>4. CASE WorkerSetsError
  BY <1>4 DEF WorkerSetsError
<1>5. CASE WorkerCloses
  BY <1>5 DEF WorkerCloses
<1>6. CASE WorkerExits
  BY <1>6 DEF WorkerExits
<1>7. CASE Activate
  BY <1>7 DEF Activate
<1>8. CASE WorkerTimeout
  BY <1>8 DEF WorkerTimeout
<1>9. CASE WorkerClosed
  BY <1>9 DEF WorkerClosed
<1>10. CASE WorkerFails
  BY <1>10 DEF WorkerFails
<1>11. CASE Claim
  BY <1>11 DEF Claim
<1>12. CASE ClaimError
  BY <1>12 DEF ClaimError
<1>13. CASE ArmInterrupted
  BY <1>13 DEF ArmInterrupted
<1>14. CASE WaitReadyError
  BY <1>14 DEF WaitReadyError
<1>15. CASE NextEnd
  BY <1>15 DEF NextEnd
<1>16. CASE Interrupt
  BY <1>16 DEF Interrupt
<1>17. CASE JoinPending
  BY <1>17 DEF JoinPending
<1>18. CASE JoinFinished
  BY <1>18 DEF JoinFinished
<1>19. CASE RequestStop
  BY <1>19 DEF RequestStop
<1>20. CASE JoinUntil
  BY <1>20 DEF JoinUntil
<1>21. CASE DropAttempts
  BY <1>21 DEF DropAttempts
<1>22. CASE DropTransfers
  BY <1>22 DEF DropTransfers
<1>23. CASE ReaperNudge
  BY <1>23 DEF ReaperNudge
<1>24. CASE ReaperReleases
  BY <1>24 DEF ReaperReleases
<1>25. CASE UNCHANGED captureVars
  BY <1>25 DEF captureVars
<1> QED BY Zenon, <1>1, <1>2, <1>3, <1>4, <1>5, <1>6, <1>7, <1>8, <1>9, <1>10, <1>11, <1>12, <1>13, <1>14, <1>15, <1>16, <1>17, <1>18, <1>19, <1>20, <1>21, <1>22, <1>23, <1>24, <1>25 DEF Counting, CaptureNext, Worker, Source, Arm, Read, Finish, Stop, Reaper

\* A step that counts nothing leaves the account as it was.
LEMMA QuietCounts ==
  ASSUME ControlInv, QueueInv, CountInv, [CaptureNext]_captureVars, ~Counting
  PROVE  QueueInv' /\ CountInv'
<1>1. UNCHANGED countVars
  BY Zenon, QuietSteps
<1>2. QueueInv'
  BY Zenon, <1>1 DEF countVars, QueueInv
<1>3. drop_delta' = drop_delta /\ statistics' = statistics /\ drops' = drops
      /\ native' = native /\ native_statistics' = native_statistics
  BY Zenon, <1>1 DEF countVars, drop_delta
<1>4. \/ worker' = worker /\ (closed' /\ ~error' /\ worker \in {"exit"} \cup Finished => closed /\ ~error)
      \/ worker \in {"activating", "offering", "refusing"} /\ worker' \in {"offering", "refusing", "start"}
      \/ ~closed' /\ worker' \in {"exit"} \cup Finished
      \/ worker \in Reading \ {"start", "closing", "failed"} /\ worker' \in Reading \ {"start", "closing"}
      \/ worker' = "failed"
      \/ error' /\ worker' = "exit"
      \/ worker = "closing" /\ worker' = "exit"
      \/ worker = "exit" /\ worker' \in Finished /\ closed' = closed /\ error' = error
  BY Zenon, QuietMoves
<1>5. CountInv'
  BY <1>3, <1>4 DEF CountInv, DropsInv, Reading, Finished
<1> QED BY Zenon, <1>2, <1>5


\* The distance of the two readings, as the counter and the readings move.
LEMMA Distances ==
  ASSUME CountInv
  PROVE  /\ drop_delta \in 0 .. NativeSpan - 1
         /\ native' = native /\ native_statistics' = native => drop_delta' = 0
         /\ native' = native /\ native_statistics' = native_statistics => drop_delta' = drop_delta
         /\ /\ native' = (native + 1) % NativeSpan /\ native_statistics' = native_statistics
            /\ drop_delta < NativeSpan - 1
            => native' \in 0 .. NativeSpan - 1 /\ drop_delta' = drop_delta + 1
<1>1. native \in 0 .. NativeSpan - 1 /\ native_statistics \in 0 .. NativeSpan - 1
  BY Zenon DEF CountInv
<1>2. drop_delta = IF native >= native_statistics THEN native - native_statistics ELSE native - native_statistics + NativeSpan
  BY Zenon, <1>1, WrappedDistance DEF drop_delta
<1>3. drop_delta \in 0 .. NativeSpan - 1
  BY <1>1, <1>2, SpanAssumption
<1>4. ASSUME native' = native, native_statistics' = native PROVE drop_delta' = 0
  <2>1. drop_delta' = (native - native) % NativeSpan
    BY Zenon, <1>4 DEF drop_delta
  <2>2. (native - native) % NativeSpan = IF native >= native THEN native - native ELSE native - native + NativeSpan
    BY Zenon, <1>1, WrappedDistance
  <2> QED BY <1>1, <2>1, <2>2
<1>5. ASSUME native' = native, native_statistics' = native_statistics PROVE drop_delta' = drop_delta
  BY Zenon, <1>5 DEF drop_delta
<1>6. ASSUME native' = (native + 1) % NativeSpan, native_statistics' = native_statistics, drop_delta < NativeSpan - 1
      PROVE  native' \in 0 .. NativeSpan - 1 /\ drop_delta' = drop_delta + 1
  <2> DEFINE m == native'
  <2>1. m = IF native + 1 = NativeSpan THEN 0 ELSE native + 1
    BY Zenon, <1>1, <1>6, WrappedNext
  <2>2. m \in 0 .. NativeSpan - 1
    BY <1>1, <2>1, SpanAssumption
  <2>3. drop_delta' = (m - native_statistics) % NativeSpan
    BY Zenon, <1>6 DEF drop_delta
  <2> HIDE DEF m
  <2>4. drop_delta' = IF m >= native_statistics THEN m - native_statistics ELSE m - native_statistics + NativeSpan
    BY Zenon, <1>1, <2>2, <2>3, WrappedDistance
  <2>5. drop_delta' = drop_delta + 1
    BY <1>1, <1>2, <1>6, <2>1, <2>4, SpanAssumption
  <2> QED BY Zenon, <2>2, <2>5 DEF m
<1> QED BY Zenon, <1>3, <1>4, <1>5, <1>6

\* The counters of the statistics are numbers.
LEMMA CountersTyped ==
  ASSUME QueueInv PROVE statistics.receiver_dropped \in Nat /\ statistics.dropped.frames \in Nat
<1>1. statistics \in Statistics
  BY Zenon DEF QueueInv
<1> QED BY <1>1 DEF Statistics, Tally

LEMMA ReadyCounts ==
  ASSUME ControlInv, QueueInv, CountInv, WorkerReady PROVE QueueInv' /\ CountInv'
<1>1. /\ worker = "start" /\ worker' = "check" /\ native_statistics' = native /\ drops' = 0
      /\ UNCHANGED <<queue, queued_bytes, statistics, native, seen, got>>
  BY Zenon DEF WorkerReady
<1>2. QueueInv'
  BY Zenon, <1>1 DEF QueueInv
<1>3. drop_delta' = 0
  BY Zenon, <1>1, Distances
<1>4. CountInv'
  BY <1>1, <1>3 DEF CountInv, DropsInv, Reading, Finished
<1> QED BY Zenon, <1>2, <1>4

LEMMA PacketCounts ==
  ASSUME ControlInv, QueueInv, CountInv, WorkerPacket PROVE QueueInv' /\ CountInv'
<1>1. PICK b \in Lengths : Enqueue(b) /\ seen' = Add(seen, 1, b)
  BY Zenon DEF WorkerPacket
<1>2. /\ worker = "wait" /\ seen.frames < MaxSeen
      /\ UNCHANGED <<native, native_statistics, drops, got>>
  BY Zenon DEF WorkerPacket
<1>3. worker' \in {"failed", "statistics"}
  BY <1>1 DEF Enqueue
<1>4. Stored
  BY Zenon, <1>1, <1>2, EnqueueStores
<1>5. drop_delta' = drop_delta /\ drop_delta \in 0 .. NativeSpan - 1
  BY Zenon, <1>2, Distances
<1> DEFINE rd == statistics.receiver_dropped
           df == statistics.dropped.frames
           dg == statistics'.dropped.frames
<1>6. rd \in Nat /\ df \in Nat /\ statistics'.receiver_dropped = rd /\ df <= dg /\ QueueInv'
  BY Zenon, <1>4, CountersTyped DEF Stored
<1>7. dg \in Nat
  <2>1. statistics' \in Statistics
    BY Zenon, <1>6 DEF QueueInv
  <2> QED BY <2>1 DEF Statistics, Tally
<1>8. rd <= df /\ drops = rd + drop_delta /\ native \in 0 .. NativeSpan - 1
      /\ native_statistics \in 0 .. NativeSpan - 1 /\ drops \in Nat
  BY <1>2 DEF CountInv, DropsInv, Reading
<1>9. statistics'.receiver_dropped <= statistics'.dropped.frames
  <2> HIDE DEF rd, df, dg
  <2>1. rd <= dg
    BY <1>6, <1>7, <1>8
  <2> QED BY Zenon, <1>6, <2>1 DEF dg
<1>10. drops' = statistics'.receiver_dropped + drop_delta'
  BY Zenon, <1>2, <1>5, <1>6, <1>8
<1>11. CountInv'
  BY <1>2, <1>3, <1>8, <1>9, <1>10 DEF CountInv, DropsInv, Reading, Finished
<1> QED BY Zenon, <1>6, <1>11

\* Both readings of the statistics, in the loop and after it.
LEMMA ReadingCounts ==
  ASSUME ControlInv, QueueInv, CountInv, WorkerStatistics \/ WorkerFinal PROVE QueueInv' /\ CountInv'
<1>1. /\ \/ worker = "statistics" /\ worker' = "check"
         \/ worker = "final" /\ worker' = "closing" /\ AddDrops
      /\ AddDrops \/ UNCHANGED <<statistics, native_statistics>>
      /\ UNCHANGED <<queue, queued_bytes, native, drops, seen, got>>
  BY Zenon DEF WorkerStatistics, WorkerFinal
<1> DEFINE rd == statistics.receiver_dropped
           df == statistics.dropped.frames
           d == drop_delta
<1>2. /\ rd \in Nat /\ df \in Nat /\ d \in 0 .. NativeSpan - 1
  BY Zenon, CountersTyped, Distances
<1>3. d \in Nat
  BY <1>2, SpanAssumption
<1>4. rd <= df /\ drops = rd + d /\ native \in 0 .. NativeSpan - 1
      /\ native_statistics \in 0 .. NativeSpan - 1 /\ drops \in Nat
  BY <1>1 DEF CountInv, DropsInv, Reading
<1>5. CASE AddDrops
  <2>1. QueueInv' /\ statistics'.receiver_dropped = rd + d /\ statistics'.dropped.frames = df + d
    BY Zenon, <1>1, <1>3, <1>5, DropsAdded
  <2>2. native_statistics' = native /\ native' = native
    BY Zenon, <1>1, <1>5 DEF AddDrops
  <2>3. drop_delta' = 0
    BY Zenon, <2>2, Distances
  <2>4. rd + d <= df + d /\ drops = (rd + d) + 0
    <3> HIDE DEF rd, df, d
    <3> QED BY <1>2, <1>3, <1>4
  <2>5. statistics'.receiver_dropped <= statistics'.dropped.frames /\ drops' = statistics'.receiver_dropped
        /\ drops' = statistics'.receiver_dropped + drop_delta'
    BY Zenon, <1>1, <1>4, <2>1, <2>3, <2>4
  <2>6. CountInv'
    BY <1>1, <1>4, <2>2, <2>5 DEF CountInv, DropsInv, Reading, Finished
  <2> QED BY Zenon, <2>1, <2>6
<1>6. CASE worker = "statistics" /\ worker' = "check" /\ UNCHANGED <<statistics, native_statistics>>
  <2>1. QueueInv'
    BY Zenon, <1>1, <1>6 DEF QueueInv
  <2>2. drop_delta' = d
    BY Zenon, <1>1, <1>6, Distances
  <2>3. CountInv'
    BY <1>1, <1>4, <1>6, <2>2 DEF CountInv, DropsInv, Reading, Finished
  <2> QED BY Zenon, <2>1, <2>3
<1> QED BY <1>1, <1>5, <1>6

LEMMA DropCounts ==
  ASSUME ControlInv, QueueInv, CountInv, NativeDrop PROVE QueueInv' /\ CountInv'
<1>1. /\ worker \in Reading \ {"closing", "failed"} /\ worker' = worker
      /\ native' = (native + 1) % NativeSpan /\ drops' = drops + 1 /\ drop_delta < NativeSpan - 1
      /\ UNCHANGED <<queue, queued_bytes, statistics, native_statistics, seen, got>>
  BY Zenon DEF NativeDrop, stateVars
<1>2. QueueInv'
  BY Zenon, <1>1 DEF QueueInv
<1>3. native' \in 0 .. NativeSpan - 1 /\ drop_delta' = drop_delta + 1 /\ drop_delta \in 0 .. NativeSpan - 1
  BY Zenon, <1>1, Distances
<1> DEFINE rd == statistics.receiver_dropped
           d == drop_delta
<1>4. rd \in Nat /\ native_statistics \in 0 .. NativeSpan - 1 /\ drops \in Nat /\ rd <= statistics.dropped.frames
      /\ (worker # "start" => drops = rd + d) /\ (worker = "start" => rd = 0)
  <2>1. rd \in Nat
    BY Zenon, CountersTyped
  <2> QED BY <1>1, <2>1 DEF CountInv, DropsInv, Reading
<1>5. drops' \in Nat /\ (worker # "start" => drops' = rd + (d + 1))
  <2> HIDE DEF rd, d
  <2>1. d \in Int
    BY <1>3, SpanAssumption DEF d
  <2> QED BY <1>1, <1>4, <2>1
<1>6. (worker # "start" => drops' = statistics'.receiver_dropped + drop_delta')
  BY Zenon, <1>1, <1>3, <1>5
<1>7. CountInv'
  BY <1>1, <1>3, <1>4, <1>5, <1>6 DEF CountInv, DropsInv, Reading, Finished
<1> QED BY Zenon, <1>2, <1>7

LEMMA TakenCounts ==
  ASSUME ControlInv, QueueInv, CountInv, NextFrame PROVE QueueInv' /\ CountInv'
<1>1. QueueInv' /\ UNCHANGED statistics
  BY Zenon, FrameTaken
<1>2. UNCHANGED <<worker, closed, error, native, native_statistics, drops>>
  BY Zenon DEF NextFrame, sourceVars
<1>3. drop_delta' = drop_delta
  BY Zenon, <1>2, Distances
<1>4. CountInv'
  BY Zenon, <1>1, <1>2, <1>3 DEF CountInv, DropsInv
<1> QED BY Zenon, <1>1, <1>4

LEMMA CountStep ==
  ASSUME ControlInv, QueueInv, CountInv, [CaptureNext]_captureVars PROVE QueueInv' /\ CountInv'
BY Zenon, QuietCounts, ReadyCounts, PacketCounts, ReadingCounts, DropCounts, TakenCounts DEF Counting

LEMMA FlagsStep ==
  ASSUME Flags, [CaptureNext]_captureVars PROVE Flags'
<1> DEFINE Flag(f) == f \in BOOLEAN
<1> USE DEF stateVars, ownerVars
<1>0. /\ Flag(ready) /\ Flag(closed) /\ Flag(error) /\ Flag(error_observed)
      /\ Flag(stop) /\ Flag(retained) /\ Flag(dropping) /\ Flag(ended)
  BY Zenon DEF Flags
<1> DEFINE Goal == /\ Flag(ready') /\ Flag(closed') /\ Flag(error') /\ Flag(error_observed')
                   /\ Flag(stop') /\ Flag(retained') /\ Flag(dropping') /\ Flag(ended')
<1>1. ASSUME HandoffRefused PROVE Goal
  BY Zenon, <1>0, <1>1 DEF HandoffRefused
<1>2. ASSUME WorkerReady PROVE Goal
  BY Zenon, <1>0, <1>2 DEF WorkerReady
<1>3. ASSUME WorkerCheck PROVE Goal
  BY Zenon, <1>0, <1>3 DEF WorkerCheck
<1>4. ASSUME WorkerWoken PROVE Goal
  BY Zenon, <1>0, <1>4 DEF WorkerWoken
<1>5. ASSUME WorkerStatistics PROVE Goal
  BY Zenon, <1>0, <1>5 DEF WorkerStatistics
<1>6. ASSUME WorkerFinal PROVE Goal
  BY Zenon, <1>0, <1>6 DEF WorkerFinal
<1>7. ASSUME WorkerSetsError PROVE Goal
  BY Zenon, <1>0, <1>7 DEF WorkerSetsError
<1>8. ASSUME WorkerCloses PROVE Goal
  BY Zenon, <1>0, <1>8 DEF WorkerCloses
<1>9. ASSUME WorkerExits PROVE Goal
  BY Zenon, <1>0, <1>9 DEF WorkerExits
<1>10. ASSUME Activate PROVE Goal
  BY Zenon, <1>0, <1>10 DEF Activate
<1>11. ASSUME WorkerPacket PROVE Goal
  BY Zenon, <1>0, <1>11 DEF WorkerPacket
<1>12. ASSUME WorkerTimeout PROVE Goal
  BY Zenon, <1>0, <1>12 DEF WorkerTimeout
<1>13. ASSUME WorkerClosed PROVE Goal
  BY Zenon, <1>0, <1>13 DEF WorkerClosed
<1>14. ASSUME WorkerFails PROVE Goal
  BY Zenon, <1>0, <1>14 DEF WorkerFails
<1>15. ASSUME NativeDrop PROVE Goal
  BY Zenon, <1>0, <1>15 DEF NativeDrop
<1>16. ASSUME Claim PROVE Goal
  BY Zenon, <1>0, <1>16 DEF Claim
<1>17. ASSUME ClaimError PROVE Goal
  BY Zenon, <1>0, <1>17 DEF ClaimError
<1>18. ASSUME ArmInterrupted PROVE Goal
  BY Zenon, <1>0, <1>18 DEF ArmInterrupted
<1>19. ASSUME WaitReadyError PROVE Goal
  BY Zenon, <1>0, <1>19 DEF WaitReadyError
<1>20. ASSUME NextFrame PROVE Goal
  BY Zenon, <1>0, <1>20 DEF NextFrame
<1>21. ASSUME NextEnd PROVE Goal
  BY Zenon, <1>0, <1>21 DEF NextEnd
<1>22. ASSUME Interrupt PROVE Goal
  BY Zenon, <1>0, <1>22 DEF Interrupt
<1>23. ASSUME JoinPending PROVE Goal
  BY Zenon, <1>0, <1>23 DEF JoinPending
<1>24. ASSUME JoinFinished PROVE Goal
  BY Zenon, <1>0, <1>24 DEF JoinFinished
<1>25. ASSUME RequestStop PROVE Goal
  BY Zenon, <1>0, <1>25 DEF RequestStop, StopRequested
<1>26. ASSUME JoinUntil PROVE Goal
  BY Zenon, <1>0, <1>26 DEF JoinUntil, StopRequested
<1>27. ASSUME DropAttempts PROVE Goal
  BY Zenon, <1>0, <1>27 DEF DropAttempts, StopRequested
<1>28. ASSUME DropTransfers PROVE Goal
  BY Zenon, <1>0, <1>28 DEF DropTransfers
<1>29. ASSUME ReaperNudge PROVE Goal
  BY Zenon, <1>0, <1>29 DEF ReaperNudge
<1>30. ASSUME ReaperReleases PROVE Goal
  BY Zenon, <1>0, <1>30 DEF ReaperReleases
<1>31. ASSUME UNCHANGED captureVars PROVE Goal
  BY Zenon, <1>0, <1>31 DEF captureVars
<1> HIDE DEF Goal
<1>32. Goal
  BY Zenon, <1>1, <1>2, <1>3, <1>4, <1>5, <1>6, <1>7, <1>8, <1>9, <1>10, <1>11, <1>12, <1>13, <1>14, <1>15, <1>16, <1>17, <1>18, <1>19, <1>20, <1>21, <1>22, <1>23, <1>24, <1>25, <1>26, <1>27, <1>28, <1>29, <1>30, <1>31 DEF CaptureNext, Worker, Source, Arm, Read, Finish, Stop, Reaper
<1> QED BY Zenon, <1>32 DEF Goal, Flags

-----------------------------------------------------------------------------
(* The theorem on captures. *)

Accounted == ControlInv /\ QueueInv /\ CountInv /\ Flags

LEMMA AccountedHonest == Accounted => CaptureInv
<1> SUFFICES ASSUME Accounted PROVE CaptureInv
  OBVIOUS
<1>0. ControlInv /\ QueueInv /\ CountInv /\ Flags
  BY Zenon DEF Accounted
<1>1. CaptureTypeOK
  BY Zenon, <1>0 DEF CaptureTypeOK, ControlInv, ControlTypes, QueueInv, CountInv, Flags, Framed, Frames, Statistics
<1>2. NoReportedLoss => seen.frames = got.frames + Len(queue)
  <2> SUFFICES ASSUME NoReportedLoss PROVE seen.frames = got.frames + Len(queue)
    BY Zenon
  <2> DEFINE rd == statistics.receiver_dropped
             df == statistics.dropped.frames
             sf == seen.frames
             gf == got.frames
             full == Len(queue)
  <2>1. df = 0
    BY DEF NoReportedLoss, None
  <2>2. rd \in Nat /\ rd <= df
    BY Zenon, <1>0, CountersTyped DEF CountInv, DropsInv
  <2>3. sf = gf + full + df - rd /\ gf \in Nat /\ full \in Nat
    <3>1. sf = gf + full + df - rd /\ got \in Tally /\ Framed(queue)
      BY Zenon, <1>0 DEF QueueInv
    <3>2. gf \in Nat
      BY <3>1 DEF Tally
    <3> QED BY Zenon, <3>1, <3>2, FramedSized
  <2> HIDE DEF rd, df, sf, gf, full
  <2>4. sf = gf + full
    BY <2>1, <2>2, <2>3
  <2> QED BY Zenon, <2>4 DEF sf, gf, full
<1>3. FramesAccounted
  BY Zenon, <1>0, <1>1, <1>2 DEF FramesAccounted, QueueInv, CountInv, InOrder
<1> QED BY Zenon, <1>0, <1>3 DEF CaptureInv, CaptureHonest, ControlInv, CountInv

LEMMA AccountedInit == CaptureInit => Accounted
<1> SUFFICES ASSUME CaptureInit PROVE Accounted
  OBVIOUS
<1>1. ControlInv
  BY DEF CaptureInit, ControlInv, ControlTypes, HandoffInv, ReadersAreOwned, ErrorsReported, Reading, Finished, WorkerStates
<1>2. Flags
  BY Zenon DEF CaptureInit, Flags
<1>3. /\ queue = <<>> /\ queued_bytes = 0 /\ seen = None /\ got = None /\ drops = 0
      /\ statistics = [received |-> None, dropped |-> None, overflow_events |-> 0, receiver_dropped |-> 0]
      /\ native \in 0 .. NativeSpan - 1 /\ native_statistics = native /\ worker = "activating"
  BY Zenon DEF CaptureInit
<1>4. Framed(queue) /\ Len(queue) = 0 /\ bytes_of(queue) = 0
  <2>1. Framed(queue) /\ Len(queue) = 0
    BY <1>3 DEF Framed
  <2> QED BY Zenon, <1>3, <2>1, BytesTyped
<1>5. None \in Tally /\ None.frames = 0 /\ None.bytes = 0
  BY DEF None, Tally
<1>6. /\ statistics \in Statistics /\ statistics.dropped = None /\ statistics.receiver_dropped = 0
  BY <1>3, <1>5 DEF Statistics
<1>7. InOrder(queue, seen.frames)
  BY <1>4 DEF InOrder
<1>8. 0 = 0 + 0 + 0 - 0 /\ 0 = 0 + 0 + 0 /\ 0 <= max_frames /\ 0 <= max_bytes /\ 0 \in Nat
  BY LimitsAssumption
<1>9. QueueInv
  BY Zenon, <1>3, <1>4, <1>5, <1>6, <1>7, <1>8 DEF QueueInv
<1>10. CountInv
  BY <1>3, <1>5, <1>6 DEF CountInv, DropsInv, Reading, Finished
<1> QED BY Zenon, <1>1, <1>2, <1>9, <1>10 DEF Accounted

LEMMA AccountedStep == Accounted /\ [CaptureNext]_captureVars => Accounted'
BY Zenon, ControlStep, CountStep, FlagsStep DEF Accounted

\* Nothing is swallowed: whatever the limits, the overflow policy, the lengths of the frames and
\* the span of the native drop counter, every frame that the source returned is delivered, queued
\* in order within the limits or counted as dropped, every error of the reader is reported, and a
\* reading worker is owned by a session or by the reaper (capture/live/*.rs).
THEOREM CaptureTheorem == CaptureSpec => []CaptureHonest
<1>1. Accounted => CaptureHonest
  BY Zenon, AccountedHonest DEF CaptureInv
<1> QED BY <1>1, AccountedInit, AccountedStep, PTL DEF CaptureSpec
=============================================================================
