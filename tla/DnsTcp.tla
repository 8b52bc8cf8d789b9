-------------------------------- MODULE DnsTcp --------------------------------
(***************************************************************************)
(* One DNS query over TCP (packetcraftr/src/dns/tcp.rs): the framed query  *)
(* is written, the two-octet prefix and then the message it declares are   *)
(* read, all under one deadline that is looked at, like the cancellation,  *)
(* at least once every POLL_INTERVAL.  The connection itself is TcpConnect.*)
(***************************************************************************)
EXTENDS Integers

CONSTANTS
  QueryLength,        \* octets of the framed query
  Declared,           \* the lengths a response may declare
  max_message_bytes,
  timeout,
  POLL_INTERVAL

QueryAssumption == QueryLength \in Nat /\ max_message_bytes \in Nat /\ Declared \subseteq Nat

VARIABLES
  now, cancelled,
  phase,       \* connect, write, flush, prefix, message, done
  wait,        \* the timeout the next call of the socket was given, or -1
  taken,       \* octets of the query the socket took
  declared,    \* the length the response declares, or -1
  read,        \* octets of this phase read so far
  ended,       \* the peer ended the stream
  consumed,    \* octets of the response taken from the socket
  after,       \* calls of the socket begun since the cancellation
  result       \* none, ok, or the error, its phase and its transferred octets

tcpVars == <<now, cancelled, phase, wait, taken, declared, read, ended, consumed, after, result>>

NoResult == [kind |-> "none", phase |-> "none", transferred |-> 0]

DnsTcpInit ==
  /\ now = 0 /\ cancelled = FALSE
  /\ phase = "connect" /\ wait = -1 /\ taken = 0 /\ declared = -1
  /\ read = 0 /\ ended = FALSE /\ consumed = 0 /\ after = 0
  /\ result = NoResult

Prefix == 2
Least(a, b) == IF a < b THEN a ELSE b

Transferred == IF phase \in {"write", "flush"} THEN taken ELSE read

Return(kind) ==
  /\ result' = [kind |-> kind, phase |-> phase, transferred |-> Transferred]
  /\ phase' = "done"

(* connect: nothing of the query is written yet.                           *)
Connect ==
  /\ phase = "connect"
  /\ \/ ~cancelled /\ now < timeout /\ phase' = "write" /\ UNCHANGED result
     \/ cancelled /\ Return("cancelled")
     \/ now >= timeout /\ Return("timeout")
     \/ Return("connect")
  /\ UNCHANGED <<now, cancelled, wait, taken, declared, read, ended, consumed, after>>

(* The octets the phase reads or writes in all.                            *)
Whole == CASE phase = "write" -> QueryLength
           [] phase = "prefix" -> Prefix
           [] phase = "message" -> declared
           [] OTHER -> 0

Unfinished ==
  \/ phase = "flush"
  \/ phase = "write" /\ taken < Whole
  \/ phase \in {"prefix", "message"} /\ read < Whole /\ ~ended

(* next_wait, and the timeout it sets on the stream.                       *)
NextWait ==
  /\ Unfinished /\ wait = -1
  /\ \/ cancelled /\ Return("cancelled") /\ UNCHANGED wait
     \/ ~cancelled /\ now >= timeout /\ Return("timeout") /\ UNCHANGED wait
     \/ ~cancelled /\ now < timeout /\ Return("configure") /\ UNCHANGED wait
     \/ ~cancelled /\ now < timeout
        /\ wait' = Least(POLL_INTERVAL, timeout - now) /\ UNCHANGED <<phase, result>>
  /\ UNCHANGED <<now, cancelled, taken, declared, read, ended, consumed, after>>

(* A call of the socket lasts at most its timeout, and the operation may   *)
(* be cancelled meanwhile.                                                 *)
Call ==
  /\ wait # -1 /\ wait' = -1
  /\ \E spent \in 0..wait : now' = now + spent
  /\ cancelled' \in {cancelled, TRUE}
  /\ after' = IF cancelled THEN after + 1 ELSE after

(* write_exact's writes: some octets, a retryable error, or a failure.     *)
Write ==
  /\ phase = "write" /\ taken < Whole
  /\ Call
  /\ \/ \E count \in 1..Whole - taken : taken' = taken + count /\ UNCHANGED <<phase, result>>
     \/ UNCHANGED <<taken, phase, result>>
     \/ Return("write") /\ UNCHANGED taken
  /\ UNCHANGED <<declared, read, ended, consumed>>

(* write_exact's flush, after the last octet.                              *)
Written ==
  /\ phase = "write" /\ taken = Whole
  /\ phase' = "flush"
  /\ UNCHANGED <<now, cancelled, wait, taken, declared, read, ended, consumed, after, result>>

Flush ==
  /\ phase = "flush"
  /\ Call
  /\ \/ phase' = "prefix" /\ UNCHANGED result
     \/ UNCHANGED <<phase, result>>
     \/ Return("write")
  /\ UNCHANGED <<taken, declared, read, ended, consumed>>

(* read_exact's reads: some octets, the end of the stream, a retryable     *)
(* error, or a failure.                                                    *)
Read ==
  /\ phase \in {"prefix", "message"} /\ Unfinished
  /\ Call
  /\ \/ \E count \in 1..Whole - read :
          /\ read' = read + count /\ consumed' = consumed + count
          /\ UNCHANGED <<ended, phase, result>>
     \/ ended' = TRUE /\ UNCHANGED <<read, consumed, phase, result>>
     \/ UNCHANGED <<read, consumed, ended, phase, result>>
     \/ Return("read") /\ UNCHANGED <<read, consumed, ended>>
  /\ UNCHANGED <<taken, declared>>

(* The end of read_exact, which looks at the deadline once more, and what  *)
(* read_frame does with what was read.                                     *)
ReadOver ==
  /\ phase \in {"prefix", "message"} /\ ~Unfinished
  /\ \/ now >= timeout /\ Return("timeout") /\ UNCHANGED <<declared, read>>
     \/ now < timeout /\ read < Whole /\ Return("incomplete") /\ UNCHANGED <<declared, read>>
     \/ /\ now < timeout /\ read = Whole /\ phase = "prefix"
        /\ \E length \in Declared :
             /\ declared' = length
             /\ \/ length = 0 /\ Return("zero") /\ UNCHANGED read
                \/ length > max_message_bytes /\ Return("too_large") /\ UNCHANGED read
                \/ length \in 1..max_message_bytes /\ phase' = "message" /\ read' = 0
                   /\ UNCHANGED result
     \/ now < timeout /\ read = Whole /\ phase = "message" /\ Return("ok")
        /\ UNCHANGED <<declared, read>>
  /\ UNCHANGED <<now, cancelled, wait, taken, ended, consumed, after>>

Tick ==
  /\ now < timeout /\ phase # "done"
  /\ now' = now + 1
  /\ UNCHANGED <<cancelled, phase, wait, taken, declared, read, ended, consumed, after, result>>

Cancel ==
  /\ ~cancelled /\ phase # "done"
  /\ cancelled' = TRUE
  /\ UNCHANGED <<now, phase, wait, taken, declared, read, ended, consumed, after, result>>

Query == Connect \/ NextWait \/ Write \/ Written \/ Flush \/ Read \/ ReadOver

DnsTcpNext == Query \/ Tick \/ Cancel

(* The calling thread runs and time passes.                                *)
DnsTcpSpec ==
  DnsTcpInit /\ [][DnsTcpNext]_tcpVars /\ WF_tcpVars(Query) /\ WF_tcpVars(Tick)

-----------------------------------------------------------------------------
(* Error::query_bytes_written: what the attempt is charged.                *)

(* A plausible slip: a query cut off while it is flushed counts as unsent. *)
QueryBytesUnflushed(r) ==
  IF r.phase \in {"connect", "flush"} THEN 0
  ELSE IF r.phase = "write" THEN r.transferred
  ELSE QueryLength

QueryBytesWritten(r) ==
  IF r.phase = "connect" THEN 0
  ELSE IF r.phase \in {"write", "flush"} THEN r.transferred
  ELSE QueryLength

(* However a query ends, it is charged for exactly the octets of it that   *)
(* the socket took; an answer is one whole frame of an acceptable length,  *)
(* read before the deadline and with nothing read past it; and once it is  *)
(* cancelled at most the call about to be made is made.                    *)
QueryCharged ==
  /\ result.kind # "none" => QueryBytesWritten(result) = taken
  /\ result.kind = "ok" =>
       /\ declared \in 1..max_message_bytes
       /\ consumed = Prefix + declared /\ ~ended
  /\ consumed <= Prefix \/ consumed <= Prefix + declared
  /\ after <= 1

(* The query ends: a peer that trickles octets or none at all cannot keep  *)
(* it past its deadline.                                                   *)
Ended == phase = "done"
QueryEnds == <>Ended

-----------------------------------------------------------------------------
(* The inductive invariant of QueryCharged. *)

QueryTypes ==
  /\ cancelled \in BOOLEAN /\ ended \in BOOLEAN
  /\ phase \in {"connect", "write", "flush", "prefix", "message", "done"}
  /\ taken \in 0..QueryLength /\ read \in Nat /\ consumed \in Nat /\ after \in 0..1
  /\ declared \in Nat \cup {-1}

(* What was transferred by each phase.                                     *)
Progress ==
  /\ phase = "connect" => taken = 0
  /\ phase \in {"flush", "prefix", "message"} => taken = QueryLength
  /\ phase \in {"connect", "write", "flush"} => read = 0 /\ consumed = 0 /\ declared = -1 /\ ~ended
  /\ phase = "prefix" => consumed = read /\ read <= Prefix /\ declared = -1
  /\ phase = "message" =>
       declared \in 1..max_message_bytes /\ consumed = Prefix + read /\ read <= declared
  /\ ended => phase \in {"prefix", "message", "done"}
  /\ ended /\ phase # "done" => read < Whole

(* A cancelled operation has no call of the socket left to begin once it   *)
(* has begun one.                                                          *)
LastCall == after = 1 => cancelled /\ wait = -1

Charged ==
  /\ phase # "done" => result.kind = "none"
  /\ QueryCharged

QueryInv == QueryTypes /\ Progress /\ LastCall /\ Charged
=============================================================================
