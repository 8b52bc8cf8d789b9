--------------------------- MODULE Http2Analysis ----------------------------
(* The state the HTTP/2 analyzer keeps for one connection and what one frame *)
(* of either direction does to it: SETTINGS and their acknowledgments, flow  *)
(* windows and the credit they leave behind, the stream table, responses     *)
(* captured before their request, and the issues raised with the certainty   *)
(* the analyzer claims for each.  The two directions reach the analyzer each *)
(* in its own order, interleaved in any way.                                 *)
(*                                                                           *)
(* Header fields are well formed and header blocks are one frame: HPACK,     *)
(* CONTINUATION, PRIORITY, PING, PUSH_PROMISE, interim (1xx) responses and   *)
(* body rules are left out, and so are the analyzer's resource limits.       *)
(* Streams are opened by the client.  SETTINGS carry the initial window, and *)
(* no other parameter: no endpoint announces MAX_CONCURRENT_STREAMS, without *)
(* which enforce_concurrency does nothing to a stream that begins.           *)
EXTENDS Integers, Sequences, FiniteSets, TLC

CONSTANTS
    Ids,            \* stream identifiers
    InitialWindow,  \* the default window of a stream and of the connection
    WINDOW_MAX,     \* 2^31 - 1, scaled
    None            \* no value

Sides == {"client", "server"}
Peer(s) == IF s = "client" THEN "server" ELSE "client"

(* A table with one more entry, and with one entry less. *)
Put(table, id, entry) == (id :> entry) @@ table
Drop(table, id) == [x \in DOMAIN table \ {id} |-> table[x]]

Both(value) == [s \in Sides |-> value]

DirectionSettings ==
    [advertised |-> InitialWindow, acknowledged |-> InitialWindow, pending |-> <<>>]

NewConnection ==
    [phase |-> "sniff", clean_start |-> TRUE, finalizing |-> FALSE,
     settings |-> Both(DirectionSettings), send_window |-> Both(InitialWindow),
     goaway |-> None,
     open |-> <<>>, closed |-> <<>>, early |-> <<>>, credit |-> <<>>,
     openers |-> {}, max_initiated |-> 0,
     buffer |-> Both(<<>>), present |-> Both(FALSE), eof |-> Both(FALSE),
     consumed |-> Both(FALSE), saw_frame |-> Both(FALSE),
     resume |-> None, done |-> FALSE, issues |-> {}, reported |-> <<>>]

------------------------------------------------------------------------------
(* Issues and messages *)

Issue(c, code, certainty, id) ==
    [c EXCEPT !.issues = @ \cup {[code |-> code, certainty |-> certainty, id |-> id]}]

Confirmed(yes) == IF yes THEN "Confirmed" ELSE "ObservedOrder"

Emit(c, s, id, status) == [c EXCEPT !.reported = Append(@, <<s, id, status>>)]

(* Every message still being built leaves with the connection's status. *)
Unfinished(c) ==
    {<<s, id>> \in Sides \X Ids : id \in DOMAIN c.open /\ c.open[id].msgs[s]}

RECURSIVE EmitAll(_, _, _)
EmitAll(c, left, status) ==
    IF left = {} THEN c
    ELSE LET m == CHOOSE m \in left : TRUE
         IN EmitAll(Emit(c, m[1], m[2], status), left \ {m}, status)

(* The connection is dead: its messages are flushed and its state drained. *)
Drained(c) ==
    [NewConnection EXCEPT !.phase = "dead", !.clean_start = c.clean_start,
                          !.issues = c.issues, !.reported = c.reported]
Fail(c, status) == Drained(EmitAll(c, Unfinished(c), status))
Reject(c, code, id) == Fail(Issue(c, code, "Confirmed", id), "Malformed")

------------------------------------------------------------------------------
(* What the buffered frames allow *)

HasBufferedSettingsAck(c, s) ==
    /\ c.saw_frame[s]
    /\ c.buffer[s] # <<>>
    /\ Head(c.buffer[s]).type = "ACK"

WaitingSettingsAck(c, s) ==
    /\ ~c.finalizing
    /\ c.settings[Peer(s)].pending = <<>>
    /\ ~c.eof[Peer(s)]
    /\ HasBufferedSettingsAck(c, s)

Waiting(c) == \E s \in Sides : WaitingSettingsAck(c, s)

(* The direction has ended and every byte of it was consumed. *)
Exhausted(c, s) == c.eof[s] /\ c.buffer[s] = <<>>

OpenerExhausted(c) == c.clean_start /\ c.consumed["client"]

------------------------------------------------------------------------------
(* Streams *)

InitialWindowOf(c) == [s \in Sides |-> c.settings[Peer(s)].acknowledged]
StreamState(c) ==
    [phase |-> "open", ended |-> Both(FALSE), msgs |-> Both(FALSE),
     send_window |-> InitialWindowOf(c),
     credit_exceeded |-> Both(FALSE), granted |-> Both(0),
     early |-> None, unprocessed |-> FALSE]

EarlyResponse == [final_seen |-> FALSE, ended |-> FALSE]

KnownIdle(c, id) == id \notin DOMAIN c.closed /\ id > c.max_initiated

(* A stream that closes owing credit keeps its debt. *)
Debt(stream) ==
    [s \in Sides |-> IF stream.credit_exceeded[s] /\ stream.send_window[s] < 0
                     THEN stream.send_window[s] ELSE 0]
RetainClosedCredit(c, id) ==
    IF id \in DOMAIN c.credit \/ Debt(c.open[id]) = Both(0) THEN c
    ELSE [c EXCEPT !.credit = Put(@, id, Debt(c.open[id]))]

Settled(credit) == [id \in {x \in DOMAIN credit : credit[x] # Both(0)} |-> credit[id]]

Retire(c, id, ended, reset_by) ==
    [RetainClosedCredit(c, id) EXCEPT
        !.open = Drop(@, id),
        !.closed = Put(@, id, [ended |-> ended, reset_by |-> reset_by])]

CloseStream(c, id, status, reset_by) ==
    LET stream == c.open[id]
        ended == IF reset_by = None THEN Both(TRUE)
                 ELSE [stream.ended EXCEPT ![reset_by] = TRUE]
        mine == {m \in Unfinished(c) : m[2] = id}
    IN Retire(EmitAll(c, mine, status), id, ended, reset_by)

(* Whether some prefix of the grants, less all DATA seen, overflows: pending *)
(* SETTINGS that lower the window count, pending ones that raise it do not.  *)
Least(n) == IF n < 0 THEN n ELSE 0
RECURSIVE Deltas(_, _)
Deltas(pending, n) == IF n = 0 THEN 0 ELSE Deltas(pending, n - 1) + pending[n].delta
GrantsBefore(p, id) == IF id \in DOMAIN p.grants THEN p.grants[id] ELSE 0
StreamWindowOverflows(c, s, id) ==
    LET stream == c.open[id]
        pending == c.settings[Peer(s)].pending
        base == stream.send_window[s] - stream.granted[s]
        Before(n) == IF n = 0 THEN 0 ELSE GrantsBefore(pending[n], id)
    IN \/ base > WINDOW_MAX
       \/ \E n \in DOMAIN pending :
             /\ Before(n) > Before(n - 1)
             /\ base + Before(n) + Least(Deltas(pending, n - 1)) > WINDOW_MAX
       \/ /\ stream.granted[s] > Before(Len(pending)) \/ pending = <<>>
          /\ stream.send_window[s] + Least(Deltas(pending, Len(pending))) > WINDOW_MAX

ConfirmOverflow(c, s, id) ==
    IF StreamWindowOverflows(c, s, id)
    THEN CloseStream(Issue(c, "StreamWindowOverflow", "Confirmed", id), id, "Malformed", None)
    ELSE c

(* Whether the message stays with its stream when its side ends. *)
(* A plausible slip: it is reported but not taken out of the stream. *)
StaysAlways(has, defer) == has
Stays(has, defer) == has /\ defer

(* One side of the stream is over.  A complete message waits while an ACK is *)
(* held back, and its stream stays in the table, closed, until it leaves.    *)
Ended(c, s, id, status, defer) ==
    LET stream == c.open[id]
        leaves == stream.msgs[s] /\ ~defer
        said == IF stream.unprocessed THEN "Unprocessed" ELSE status
        after == [stream EXCEPT
                    !.ended[s] = TRUE,
                    !.msgs[s] = Stays(@, defer),
                    !.early = IF s = "server" /\ @ # None
                              THEN [@ EXCEPT !.ended = TRUE] ELSE @,
                    !.phase = IF stream.ended[Peer(s)] THEN "closed" ELSE @]
        kept == [(IF leaves THEN Emit(c, s, id, said) ELSE c) EXCEPT !.open[id] = after]
    IN IF after.ended = Both(TRUE) /\ after.msgs = Both(FALSE)
       THEN Retire(kept, id, Both(TRUE), None)
       ELSE kept

EndSide(c, s, id, status) ==
    IF status = "Complete" /\ StreamWindowOverflows(c, s, id)
    THEN ConfirmOverflow(c, s, id)
    ELSE Ended(c, s, id, status, status = "Complete" /\ Waiting(c))

------------------------------------------------------------------------------
(* Credit that a fully consumed granting direction can no longer supply *)

Greatest(S) == CHOOSE x \in S : \A y \in S : y <= x
Extra(pending) == Greatest({Deltas(pending, n) : n \in 0 .. Len(pending)})

Owing(c, s, id, extra) ==
    /\ id \in DOMAIN c.open
    /\ c.open[id].credit_exceeded[s]
    /\ c.open[id].send_window[s] + extra < 0
OwingClosed(c, s, id, extra) == id \in DOMAIN c.credit /\ c.credit[id][s] + extra < 0

Exceeded(c, s, id) ==
    CloseStream([Issue(c, "StreamWindowExceeded", "Confirmed", id)
                    EXCEPT !.open[id].credit_exceeded[s] = FALSE], id, "Malformed", None)
ExceededClosed(c, s, id) ==
    [Issue(c, "StreamWindowExceeded", "Confirmed", id)
        EXCEPT !.credit = Settled([@ EXCEPT ![id][s] = 0])]

RECURSIVE Collect(_, _, _, _)
Collect(c, s, left, extra) ==
    IF left = {} THEN c
    ELSE LET id == CHOOSE x \in left : \A y \in left : x <= y
             opened == IF Owing(c, s, id, extra) THEN Exceeded(c, s, id) ELSE c
             both == IF OwingClosed(opened, s, id, extra)
                     THEN ExceededClosed(opened, s, id) ELSE opened
         IN Collect(both, s, left \ {id}, extra)

ReconcileClosedCredit(c, s, ids) ==
    IF c.phase # "h2" \/ ~c.clean_start \/ ~Exhausted(c, Peer(s)) THEN c
    ELSE IF c.send_window[s] < 0 THEN Reject(c, "ConnectionWindowExceeded", 0)
    ELSE Collect(c, s, ids, Extra(c.settings[Peer(s)].pending))

------------------------------------------------------------------------------
(* DATA *)

ResetInFlight(c, s, id) ==
    /\ id \in DOMAIN c.closed
    /\ c.closed[id].reset_by = Peer(s)
    /\ ~c.closed[id].ended[s]

EarlyOf(c, id) == IF id \in DOMAIN c.early THEN c.early[id] ELSE EarlyResponse
EndEarly(c, id) == [c EXCEPT !.early = Put(@, id, [EarlyOf(c, id) EXCEPT !.ended = TRUE])]

(* No such stream is open: closed, or its opener is not captured yet. *)
DataElsewhere(c, s, id, end) ==
    LET idle == KnownIdle(c, id)
        early == EarlyOf(c, id)
        over == IF s = "server" /\ end /\ id \in DOMAIN c.early THEN EndEarly(c, id) ELSE c
    IN CASE ~idle -> Issue(over, "DataClosedStream", "Confirmed", id)
         [] idle /\ c.clean_start /\ s = "server" /\ (~early.final_seen \/ early.ended) ->
                EndEarly(Issue(c, "DataWithoutHeaders", "Confirmed", id), id)
         [] idle /\ c.clean_start /\ s = "client" -> Reject(c, "DataUnknownStream", id)
         [] OTHER -> Issue(over, "DataUnknownStream", "Indeterminate", id)

DataClosed(c, s, id) ==
    LET told == Issue(c, "DataClosedStream", "Confirmed", id)
    IN IF s = "server" /\ c.open[id].early # None THEN told
       ELSE CloseStream(told, id, "Malformed", None)

DataBody(c, s, id, end) ==
    LET stream == c.open[id]
        followup == s = "server" /\ stream.early # None /\ stream.early.final_seen
    IN CASE stream.msgs[s] -> IF end THEN EndSide(c, s, id, "Complete") ELSE c
         [] ~stream.msgs[s] /\ followup ->
                LET told == Issue(c, "DataAfterEarlyResponse", "Indeterminate", id)
                IN IF end THEN EndSide(told, s, id, "Complete") ELSE told
         [] OTHER -> CloseStream(Issue(c, "DataWithoutHeaders", "Confirmed", id),
                                 id, "Malformed", None)

DataReconciled(c, s, id, end) ==
    IF id \in DOMAIN c.open THEN DataBody(c, s, id, end) ELSE c

DataOpen(c, s, id, length, end) ==
    LET window == c.open[id].send_window[s] - length
        spent == [c EXCEPT !.open[id].send_window[s] = window,
                           !.open[id].credit_exceeded[s] =
                               IF length > 0 THEN window < 0 ELSE @]
        told == IF length > 0 /\ window < 0
                THEN Issue(spent, "StreamWindowExceeded", "ObservedOrder", id) ELSE spent
    IN DataReconciled(ReconcileClosedCredit(told, s, {id}), s, id, end)

DataCounted(c, s, id, length, end) ==
    CASE c.phase = "dead" -> c
      [] c.phase # "dead" /\ ResetInFlight(c, s, id) -> c
      [] c.phase # "dead" /\ id \in DOMAIN c.open ->
            IF c.open[id].phase # "open" \/ c.open[id].ended[s]
            THEN DataClosed(c, s, id) ELSE DataOpen(c, s, id, length, end)
      [] OTHER -> DataElsewhere(c, s, id, end)

(* DATA spends connection credit whatever becomes of its stream. *)
DataFrame(c, s, f) ==
    LET spent == [c EXCEPT !.send_window[s] = @ - f.value]
        told == IF f.value > 0
                THEN Issue(spent, "ConnectionWindowExceeded", "ObservedOrder", f.id) ELSE spent
    IN DataCounted(IF spent.send_window[s] >= 0 THEN spent
                   ELSE ReconcileClosedCredit(told, s, {f.id}),
                   s, f.id, f.value, f.end)

------------------------------------------------------------------------------
(* HEADERS *)

(* A later stream of the client proves that it never opens the lower ones. *)
OpenersBelow(c, id) == {x \in c.openers : x < id}

BeginStream(c, id) ==
    IF c.clean_start /\ OpenersBelow(c, id) # {}
    THEN Reject(c, "PendingOpener", CHOOSE x \in OpenersBelow(c, id) : TRUE)
    ELSE LET early == IF id \in DOMAIN c.early THEN c.early[id] ELSE None
             stream == [StreamState(c) EXCEPT
                          !.early = early,
                          !.ended["server"] = early # None /\ early.ended,
                          !.unprocessed = c.goaway # None /\ id > c.goaway]
         IN [c EXCEPT !.max_initiated = id, !.openers = @ \ {id},
                      !.early = Drop(@, id), !.open = Put(@, id, stream)]

(* HEADERS after a final response that was captured before its request. *)
EarlyFollowup(c, id, early, end) ==
    LET invalid == early.ended \/ ~end
        told == Issue(c, CASE early.ended -> "HeadersAfterEnd"
                           [] ~early.ended /\ invalid -> "HeaderSemantics"
                           [] OTHER -> "EarlyResponseTrailers",
                      IF invalid THEN "Confirmed" ELSE "Indeterminate", id)
    IN IF id \in DOMAIN c.open
       THEN EndSide(told, "server", id, IF invalid THEN "Malformed" ELSE "Incomplete")
       ELSE EndEarly(told, id)

(* A response whose request the capture has not shown yet. *)
ResponseWithoutStream(c, id, end) ==
    IF OpenerExhausted(c) THEN Reject(c, "ResponseWithoutStream", id)
    ELSE LET told == Issue(c, "ResponseWithoutStream", "Indeterminate", id)
             above == c.goaway # None /\ id > c.goaway
             entry == [final_seen |-> ~above, ended |-> end \/ above]
             judged == IF above THEN Issue(told, "ResponseAfterGoaway", "Confirmed", id) ELSE told
         IN [judged EXCEPT !.openers = @ \cup {id}, !.early = Put(@, id, entry)]

StartMessage(c, s, id) == [c EXCEPT !.open[id].msgs[s] = TRUE]
HeadersOpen(c, s, id, end) ==
    LET stream == c.open[id]
        head == ~stream.msgs[s]
        above == s = "server" /\ head /\ c.goaway # None /\ id > c.goaway
        started == StartMessage(c, s, id)
    IN CASE stream.ended[s] ->
                CloseStream(Issue(c, "HeadersAfterEnd", "Confirmed", id), id, "Malformed", None)
         [] ~stream.ended[s] /\ above ->
                CloseStream(Issue(started, "ResponseAfterGoaway", "Confirmed", id),
                            id, "Malformed", None)
         [] ~stream.ended[s] /\ ~head /\ ~end ->
                CloseStream(Issue(c, "TrailerWithoutEndStream", "Confirmed", id),
                            id, "Malformed", None)
         [] OTHER -> IF end THEN EndSide(started, s, id, "Complete") ELSE started

Begun(c, id, end) ==
    IF c.phase = "dead" THEN c ELSE HeadersOpen(c, "client", id, end)

HeadersElsewhere(c, s, id, end) ==
    CASE ResetInFlight(c, s, id) -> c
      [] ~ResetInFlight(c, s, id) /\ ~KnownIdle(c, id) ->
            Issue(c, "ClosedStreamHeaders", "Confirmed", id)
      [] KnownIdle(c, id) /\ s = "client" -> Begun(BeginStream(c, id), id, end)
      [] OTHER -> ResponseWithoutStream(c, id, end)

StreamHeaders(c, s, f) ==
    LET early == CASE f.id \in DOMAIN c.open -> c.open[f.id].early
                   [] f.id \in DOMAIN c.early -> c.early[f.id]
                   [] OTHER -> None
    IN CASE s = "server" /\ early # None /\ (early.final_seen \/ early.ended) ->
                EarlyFollowup(c, f.id, early, f.end)
         [] f.id \in DOMAIN c.open -> HeadersOpen(c, s, f.id, f.end)
         [] OTHER -> HeadersElsewhere(c, s, f.id, f.end)

------------------------------------------------------------------------------
(* WINDOW_UPDATE and RST_STREAM *)

WindowOfConnection(c, s, increment) ==
    LET raised == [c EXCEPT !.send_window[Peer(s)] = @ + increment]
        over == raised.send_window[Peer(s)] > WINDOW_MAX
        sure == c.present[Peer(s)] /\ Exhausted(c, Peer(s))
        told == Issue(raised, "ConnectionWindowOverflow", Confirmed(sure), 0)
    IN CASE ~over -> raised
         [] over /\ sure -> Fail(told, "Malformed")
         [] OTHER -> told

(* A debt that grants repay is forgotten. *)
Repaid(debt, amount) == IF debt < 0 /\ debt + amount < 0 THEN debt + amount ELSE 0
RepayClosed(c, s, id, increment) ==
    IF id \notin DOMAIN c.credit THEN c
    ELSE [c EXCEPT !.credit = Settled([@ EXCEPT ![id][Peer(s)] = Repaid(@, increment)])]

(* A plausible slip: any frame on a stream not opened yet is taken for a fault. *)
ConfirmedIdleUnread(c, s) == c.clean_start
ConfirmedIdle(c, s) == c.clean_start /\ (s = "client" \/ OpenerExhausted(c))

WindowOfNoStream(c, s, id) ==
    LET told == Issue(c, "WindowUpdateUnknownStream", Confirmed(ConfirmedIdle(c, s)), id)
    IN CASE ~KnownIdle(c, id) -> c
         [] KnownIdle(c, id) /\ ConfirmedIdle(c, s) -> Fail(told, "Malformed")
         [] OTHER -> [told EXCEPT !.openers = @ \cup {id}]

WindowOfStream(c, grant, id, increment) ==
    LET window == c.open[id].send_window[grant] + increment
        raised == [c EXCEPT !.open[id].granted[grant] = @ + increment,
                            !.open[id].send_window[grant] = window,
                            !.open[id].credit_exceeded[grant] = @ /\ window < 0]
        sure == c.open[id].ended[grant] /\ StreamWindowOverflows(raised, grant, id)
        told == Issue(raised, "StreamWindowOverflow", Confirmed(sure), id)
    IN CASE c.open[id].phase = "closed" -> c
         [] c.open[id].phase # "closed" /\ window <= WINDOW_MAX -> raised
         [] c.open[id].phase # "closed" /\ window > WINDOW_MAX /\ sure ->
                CloseStream(told, id, "Malformed", None)
         [] OTHER -> told

WindowUpdate(c, s, f) ==
    IF f.id = 0 THEN WindowOfConnection(c, s, f.value)
    ELSE LET repaid == RepayClosed(c, s, f.id, f.value)
         IN IF f.id \in DOMAIN c.open
            THEN WindowOfStream(repaid, Peer(s), f.id, f.value)
            ELSE WindowOfNoStream(repaid, s, f.id)

ResetStream(c, s, f) ==
    LET sure == ConfirmedIdle(c, s)
        told == Issue(c, "ResetIdleStream", IF sure THEN "Confirmed" ELSE "Indeterminate", f.id)
        kept == [told EXCEPT !.openers = @ \cup {f.id}]
    IN CASE f.id \in DOMAIN c.open -> CloseStream(c, f.id, "Reset", s)
         [] f.id \notin DOMAIN c.open /\ ~KnownIdle(c, f.id) -> c
         [] f.id \notin DOMAIN c.open /\ KnownIdle(c, f.id) /\ sure -> Fail(told, "Malformed")
         [] OTHER ->
                IF s = "server" THEN EndEarly(kept, f.id)
                ELSE [kept EXCEPT !.closed = Put(@, f.id,
                        [ended |-> [Both(FALSE) EXCEPT ![s] = TRUE], reset_by |-> s])]

------------------------------------------------------------------------------
(* GOAWAY of the server *)

GoAway(c, f) ==
    LET excluded == {id \in DOMAIN c.open : id > f.value}
        ended == {id \in excluded : ~c.open[id].unprocessed /\ c.open[id].ended["client"]}
        past == {id \in DOMAIN c.closed :
                    id > f.value /\ (c.goaway = None \/ id <= c.goaway)}
        told == {[code |-> "GoawayUnprocessed", certainty |-> "Confirmed", id |-> id] :
                    id \in ended \cup past}
    IN IF c.goaway # None /\ f.value > c.goaway
       THEN Reject(c, "GoawayLastStreamIncreased", 0)
       ELSE [c EXCEPT !.goaway = f.value,
                      !.issues = @ \cup told,
                      !.open = [id \in DOMAIN @ |->
                                  [@[id] EXCEPT !.unprocessed = @ \/ id \in excluded]]]

------------------------------------------------------------------------------
(* SETTINGS and their acknowledgment *)

Change(own, value) == [value |-> value, delta |-> value - own.advertised]
Settings(c, s, f) ==
    LET pending == Change(c.settings[s], f.value) @@
                   [limit |-> IF s = "client" THEN c.max_initiated ELSE 0,
                    grants |-> [id \in DOMAIN c.open |-> c.open[id].granted[Peer(s)]]]
    IN [c EXCEPT !.settings[s].advertised = f.value,
                 !.settings[s].pending = Append(@, pending),
                 !.resume = IF WaitingSettingsAck(c, Peer(s)) THEN Peer(s) ELSE @]

Unsolicited(c, s) ==
    LET peer == Peer(s)
        peer_ack == c.settings[s].pending = <<>> /\ HasBufferedSettingsAck(c, peer)
        sure == /\ c.clean_start
                /\ c.present[peer]
                /\ peer_ack \/ c.buffer[peer] = <<>>
    IN Fail(Issue(c, "UnsolicitedSettingsAck",
                  IF sure THEN "Confirmed" ELSE "Indeterminate", 0),
            IF sure THEN "Malformed" ELSE "Incomplete")

(* Grants that follow the SETTINGS cannot have counted before its ACK. *)
AckOverflows(c, s, acked) ==
    \E id \in DOMAIN c.open :
        LET stream == c.open[id]
            later == stream.granted[s] - GrantsBefore(acked, id)
        IN /\ stream.phase # "closed"
           /\ s = "client" \/ id <= acked.limit
           /\ stream.send_window[s] - later + acked.delta > WINDOW_MAX

Adjusted(stream, s, delta) ==
    IF stream.phase = "closed" THEN stream
    ELSE [stream EXCEPT
            !.credit_exceeded[s] = @ /\ stream.send_window[s] + delta - Least(delta) < 0,
            !.send_window[s] = @ + delta]

(* Messages that waited for the held-back ACK leave, stream by stream. *)
Completed(c) == {m \in Unfinished(c) : c.open[m[2]].ended[m[1]]}
Before(m, n) == m[2] < n[2] \/ (m[2] = n[2] /\ m[1] = "client")
RECURSIVE EndEach(_, _)
EndEach(c, left) ==
    IF left = {} THEN c
    ELSE LET m == CHOOSE m \in left : \A n \in left \ {m} : Before(m, n)
         IN EndEach(IF m[2] \in DOMAIN c.open THEN EndSide(c, m[1], m[2], "Complete") ELSE c,
                    left \ {m})
ReleaseDeferred(c) ==
    IF c.phase = "dead" \/ Waiting(c) THEN c ELSE EndEach(c, Completed(c))

Acknowledged(c, s, acked) ==
    LET applied ==
          [c EXCEPT !.settings[Peer(s)].pending = Tail(@),
                    !.settings[Peer(s)].acknowledged = acked.value,
                    !.open = [id \in DOMAIN @ |-> Adjusted(@[id], s, acked.delta)],
                    !.credit = Settled([id \in DOMAIN @ |->
                                          [@[id] EXCEPT ![s] = Repaid(@, acked.delta)]])]
    IN IF AckOverflows(c, s, acked) THEN Reject(applied, "WindowOverflow", 0)
       ELSE ReleaseDeferred(ReconcileClosedCredit(applied, s, Ids))

Ack(c, s) ==
    IF c.settings[Peer(s)].pending = <<>> THEN Unsolicited(c, s)
    ELSE Acknowledged(c, s, Head(c.settings[Peer(s)].pending))

------------------------------------------------------------------------------
(* One frame, and all the frames that can be taken from the buffers *)

ApplyFrame(c, s, f) ==
    CASE f.type = "DATA" -> DataFrame(c, s, f)
      [] f.type = "HEADERS" -> StreamHeaders(c, s, f)
      [] f.type = "RST_STREAM" -> ResetStream(c, s, f)
      [] f.type = "SETTINGS" -> Settings(c, s, f)
      [] f.type = "ACK" -> Ack(c, s)
      [] f.type = "GOAWAY" -> GoAway(c, f)
      [] f.type = "WINDOW_UPDATE" -> WindowUpdate(c, s, f)

HandleFrame(c, s, f, first) ==
    IF ~first \/ f.type = "SETTINGS" THEN ApplyFrame(c, s, f)
    ELSE IF s = "client" \/ c.clean_start THEN Reject(c, "MissingInitialSettings", 0)
    ELSE ApplyFrame(Issue(c, "MissingInitialSettings", "Indeterminate", 0), s, f)

FrameStep(c, s) ==
    HandleFrame([c EXCEPT !.buffer[s] = Tail(@), !.saw_frame[s] = TRUE],
                s, Head(c.buffer[s]), ~c.saw_frame[s])

(* One direction runs until it is empty, holds an ACK back, or lets the other go on. *)
RECURSIVE PumpSide(_, _)
PumpSide(c, s) ==
    IF c.phase = "dead" \/ c.buffer[s] = <<>> \/ WaitingSettingsAck(c, s) \/ c.resume # None
    THEN c
    ELSE PumpSide(FrameStep(c, s), s)

RECURSIVE Pump(_)
PumpServer(c) == IF c.resume # None THEN c ELSE PumpSide(c, "server")
PumpAgain(c, before) ==
    IF c.phase # "dead" /\ c.resume = None /\ c.buffer = before THEN c ELSE Pump(c)
Pump(c) ==
    CASE c.phase # "h2" -> c
      [] c.phase = "h2" /\ c.resume # None ->
            Pump(PumpSide([c EXCEPT !.resume = None], c.resume))
      [] OTHER -> PumpAgain(PumpServer(PumpSide(c, "client")), c.buffer)

(* Until the client's preface is seen the server's bytes only accumulate, and *)
(* any that did make the start of the connection uncertain.                   *)
Elect(c, s) ==
    IF c.phase = "sniff" /\ s = "client"
    THEN [c EXCEPT !.phase = "h2", !.clean_start = c.buffer["server"] = <<>>]
    ELSE c

Data(c, s, f) ==
    IF c.phase = "dead" THEN c
    ELSE Pump(Elect([c EXCEPT !.present[s] = TRUE, !.buffer[s] = Append(@, f)], s))

------------------------------------------------------------------------------
(* The end of a direction, of the capture, and of the byte stream *)

Consume(c, s) ==
    IF c.phase # "h2" \/ c.buffer[s] # <<>> THEN c
    ELSE LET consumed == [c EXCEPT !.consumed[s] = TRUE]
         IN IF s = "client" /\ c.clean_start /\ c.openers # {}
            THEN Reject(consumed, "PendingOpener", CHOOSE id \in c.openers : TRUE)
            ELSE consumed

CloseConnection(c, s) ==
    IF c.phase = "h2" /\ c.send_window[s] > WINDOW_MAX /\ c.buffer[s] = <<>>
    THEN Reject(c, "ConnectionWindowOverflow", 0)
    ELSE ReconcileClosedCredit(c, Peer(s), Ids)

RECURSIVE ConfirmOverflows(_, _, _)
ConfirmOverflows(c, s, left) ==
    IF left = {} THEN c
    ELSE LET id == CHOOSE x \in left : \A y \in left : x <= y
         IN ConfirmOverflows(ConfirmOverflow(c, s, id), s, left \ {id})

CloseStreams(c, s) ==
    IF c.phase = "h2" /\ c.buffer[s] = <<>> THEN ConfirmOverflows(c, s, DOMAIN c.open) ELSE c

(* What is left of the direction is truncated, unless an ACK holds it back. *)
Truncate(c, s) ==
    IF c.phase = "dead" \/ WaitingSettingsAck(c, s) THEN c ELSE [c EXCEPT !.buffer[s] = <<>>]

RECURSIVE EndIncomplete(_, _, _)
EndIncomplete(c, s, left) ==
    IF left = {} THEN c
    ELSE LET id == CHOOSE x \in left : \A y \in left : x <= y
         IN EndIncomplete(EndSide(c, s, id, "Incomplete"), s, left \ {id})

Done(c) == c.eof = Both(TRUE) /\ Unfinished(c) = {}

Truncated(c, s) ==
    LET after == EndIncomplete(c, s, {id \in DOMAIN c.open :
                                        c.open[id].msgs[s] /\ ~c.open[id].ended[s]})
    IN IF c.phase = "h2" /\ Done(after)
       THEN [after EXCEPT !.done = TRUE, !.buffer = Both(<<>>)] ELSE after

Close(c, s) ==
    IF c.phase = "dead" THEN c
    ELSE Truncated(Truncate(CloseStreams(CloseConnection(Consume(
            Pump([c EXCEPT !.eof[s] = TRUE, !.present[s] = TRUE]),
            s), s), s), s), s)

(* A reset, a gap or an eviction: nothing more is known of the connection. *)
Terminate(c, status) ==
    IF c.phase = "dead" \/ (c.done /\ status = "Evicted") THEN c
    ELSE Fail([c EXCEPT !.clean_start = FALSE], status)

Flush(c) == IF c.phase = "dead" THEN c ELSE Drained(EmitAll(c, Unfinished(c), "Incomplete"))
Finished(c) == Flush(IF c.done THEN c ELSE Terminate(c, "Incomplete"))
Finish(c) == Finished(Pump([c EXCEPT !.finalizing = TRUE]))

-----------------------------------------------------------------------------
(* A client and a server that follow the protocol hold a conversation, and   *)
(* the analyzer then reads what each of them sent: each direction in order,  *)
(* the two interleaved in any way, ended by FIN or cut short anywhere.       *)
CONSTANTS
    Scenarios,   \* what each endpoint may send, beyond its first SETTINGS and ACKs
    LeftOut      \* the orders of reading that are left out

VARIABLES
    scenario,    \* the scenario of this conversation
    sent,        \* the frames each side sent, in order
    received,    \* how many of them the other side received
    reading,     \* whether the conversation is over and being read
    observed,    \* how many of them the analyzer was given
    closed,      \* the directions whose end it was given
    finished,    \* whether its reading ended
    conn         \* the connection's state in the analyzer

vars == <<scenario, sent, received, reading, observed, closed, finished, conn>>

Frame(type, id, value, end) == [type |-> type, id |-> id, value |-> value, end |-> end]

Init ==
    /\ scenario \in Scenarios
    /\ sent \in [Sides -> {<<Frame("SETTINGS", 0, v, FALSE)>> : v \in scenario.initial}]
    /\ received = Both(0)
    /\ reading = FALSE
    /\ observed = Both(0)
    /\ closed = {}
    /\ finished = FALSE
    /\ conn = NewConnection

------------------------------------------------------------------------------
(* The endpoints *)

Prefix(s, n) == SubSeq(sent[s], 1, n)
Got(s) == Prefix(Peer(s), received[Peer(s)])
In(seq, type, id) == \E i \in DOMAIN seq : seq[i].type = type /\ seq[i].id = id
Over(seq, id) == \E i \in DOMAIN seq :
                    seq[i].id = id /\ (seq[i].end \/ seq[i].type = "RST_STREAM")
CountOf(seq, type) == Cardinality({i \in DOMAIN seq : seq[i].type = type})
RECURSIVE Total(_, _, _)
Total(seq, type, id) ==
    IF seq = <<>> THEN 0
    ELSE Total(Tail(seq), type, id)
         + IF Head(seq).type = type /\ Head(seq).id \in id THEN Head(seq).value ELSE 0

(* The window a sender has by what it received and sent. *)
Applied(got) ==
    LET all == {i \in DOMAIN got : got[i].type = "SETTINGS"}
    IN IF all = {} THEN InitialWindow ELSE got[Greatest(all)].value
StreamWindow(mine, got, id) ==
    Applied(got) + Total(got, "WINDOW_UPDATE", {id}) - Total(mine, "DATA", {id})
ConnectionWindow(mine, got) ==
    InitialWindow + Total(got, "WINDOW_UPDATE", {0}) - Total(mine, "DATA", Ids)

Knows(s, id) == IF s = "client" THEN In(sent[s], "HEADERS", id) ELSE In(Got(s), "HEADERS", id)
Streams(s) == {id \in Ids : Knows(s, id)}
IsReset(s, id) == In(sent[s], "RST_STREAM", id) \/ In(Got(s), "RST_STREAM", id)
(* The server acts on no stream that its GOAWAY excludes. *)
Excluded(s, id) == s = "server" /\ \E i \in DOMAIN sent[s] :
                        sent[s][i].type = "GOAWAY" /\ sent[s][i].value < id
MaySend(s, id) == /\ Knows(s, id)
                  /\ ~Over(sent[s], id)
                  /\ ~IsReset(s, id)
                  /\ ~Excluded(s, id)

(* What an endpoint that follows the protocol may send next. *)
Conforms(s, f) ==
    CASE f.type = "HEADERS" ->
            \/ /\ s = "client"
               /\ \A id \in Streams(s) : id < f.id
               /\ \A i \in DOMAIN Got(s) : Got(s)[i].type # "GOAWAY"
            \/ s = "server" /\ MaySend(s, f.id) /\ ~In(sent[s], "HEADERS", f.id)
            \/ MaySend(s, f.id) /\ In(sent[s], "HEADERS", f.id) /\ f.end
      [] f.type = "DATA" ->
            /\ MaySend(s, f.id)
            /\ In(sent[s], "HEADERS", f.id)
            /\ \/ f.value = 0
               \/ scenario.greedy
               \/ /\ f.value <= StreamWindow(sent[s], Got(s), f.id)
                  /\ f.value <= ConnectionWindow(sent[s], Got(s))
      [] f.type = "WINDOW_UPDATE" ->
            \/ f.id = 0
            \/ /\ Knows(s, f.id)
               /\ ~IsReset(s, f.id)
               /\ ~Excluded(s, f.id)
               /\ ~(Over(sent[s], f.id) /\ Over(Got(s), f.id))
      [] f.type = "RST_STREAM" ->
            Knows(s, f.id) /\ ~IsReset(s, f.id) /\ ~Excluded(s, f.id)
            /\ ~(Over(sent[s], f.id) /\ Over(Got(s), f.id))
      [] f.type = "SETTINGS" -> TRUE
      [] f.type = "GOAWAY" ->
            /\ s = "server"
            /\ \A id \in Ids : In(sent[s], "HEADERS", id) => id <= f.value
            /\ \A i \in DOMAIN sent[s] : sent[s][i].type = "GOAWAY" => f.value <= sent[s][i].value

(* No window of the receiver may pass the limit. *)
WithinLimits(s, got) ==
    /\ ConnectionWindow(sent[s], got) <= WINDOW_MAX
    /\ \A id \in Streams(s) : StreamWindow(sent[s], got, id) <= WINDOW_MAX

Send(s) ==
    /\ ~reading
    /\ \E f \in scenario.frames[s] :
          /\ CountOf(sent[s], f.type) < scenario.most[s][f.type]
          /\ Conforms(s, f)
          /\ sent' = [sent EXCEPT ![s] = Append(@, f)]
    /\ UNCHANGED <<scenario, received, reading, observed, closed, finished, conn>>

(* SETTINGS are applied and acknowledged as they are received. *)
Receive(s) ==
    LET peer == Peer(s)
        f == sent[peer][received[peer] + 1]
    IN /\ ~reading
       /\ received[peer] < Len(sent[peer])
       /\ WithinLimits(s, Append(Got(s), f))
       /\ received' = [received EXCEPT ![peer] = @ + 1]
       /\ sent' = IF f.type # "SETTINGS" THEN sent
                  ELSE [sent EXCEPT ![s] = Append(@, Frame("ACK", 0, 0, FALSE))]
       /\ UNCHANGED <<scenario, reading, observed, closed, finished, conn>>

EndConversation ==
    /\ ~reading
    /\ \A s \in Sides : received[s] = Len(sent[s])
    /\ reading' = TRUE
    /\ received' = Both(0)
    /\ UNCHANGED <<scenario, sent, observed, closed, finished, conn>>

------------------------------------------------------------------------------
(* The analyzer *)

(* Orders of reading the analyzer does not follow.                            *)
(*   grant: a WINDOW_UPDATE is read before the stream it is for, or DATA is   *)
(*     read before a stream that is also granted credit;                      *)
(*   start: the end of the server's direction is read before the client's     *)
(*     first bytes;                                                           *)
(*   held: a direction or the capture ends while its ACK waits for SETTINGS.  *)
Granted(id) == \E s \in Sides : In(sent[s], "WINDOW_UPDATE", id)
ReadsGrantFirst(f) ==
    /\ f.type \in {"DATA", "WINDOW_UPDATE"}
    /\ f.id \in Ids /\ Granted(f.id)
    /\ ~In(Prefix("client", observed["client"]), "HEADERS", f.id)

ObserveData(s) ==
    /\ reading /\ ~finished
    /\ observed[s] < Len(sent[s])
    /\ "grant" \in LeftOut => ~ReadsGrantFirst(sent[s][observed[s] + 1])
    /\ conn' = Data(conn, s, sent[s][observed[s] + 1])
    /\ observed' = [observed EXCEPT ![s] = @ + 1]
    /\ UNCHANGED <<scenario, sent, received, reading, closed, finished>>

ObserveClose(s) ==
    /\ reading /\ ~finished
    /\ observed[s] = Len(sent[s])
    /\ s \notin closed
    /\ "start" \in LeftOut => observed["client"] > 0
    /\ "held" \in LeftOut => ~WaitingSettingsAck(conn, s)
    /\ conn' = Close(conn, s)
    /\ closed' = closed \cup {s}
    /\ UNCHANGED <<scenario, sent, received, reading, observed, finished>>

(* The byte stream is lost: a reset, a gap, a conflict or an eviction. *)
ObserveLoss ==
    /\ reading /\ ~finished
    /\ scenario.loss
    /\ conn.phase # "dead"
    /\ \E status \in {"Reset", "Evicted"} : conn' = Terminate(conn, status)
    /\ UNCHANGED <<scenario, sent, received, reading, observed, closed, finished>>

FinishAnalysis ==
    /\ reading /\ ~finished
    /\ scenario.loss \/ closed = Sides
    /\ "held" \in LeftOut => ~Waiting(conn)
    /\ conn' = Finish(conn)
    /\ finished' = TRUE
    /\ UNCHANGED <<scenario, sent, received, reading, observed, closed>>

Next ==
    \/ \E s \in Sides : Send(s) \/ Receive(s) \/ ObserveData(s) \/ ObserveClose(s)
    \/ EndConversation
    \/ ObserveLoss
    \/ FinishAnalysis

Spec == Init /\ [][Next]_vars

------------------------------------------------------------------------------
(* When both endpoints follow the protocol, no issue that calls a frame       *)
(* malformed claims certainty, in every order of reading the two directions   *)
(* but those of LeftOut: a stream's grant, or DATA of a stream that is        *)
(* granted credit, is read before the HEADERS that open it; the server's      *)
(* direction ends before the client's first bytes are read; a direction, or   *)
(* the capture, ends while an ACK of it is held back for its SETTINGS.  In    *)
(* each of the three the analyzer confirms what no endpoint did.  When the    *)
(* client spends more credit than it was ever granted, an issue of a          *)
(* connection read to both ends says so with certainty.                       *)
InitialWindows(s) == {InitialWindow} \cup
    {sent[s][i].value : i \in {i \in DOMAIN sent[s] : sent[s][i].type = "SETTINGS"}}
Overspent ==
    \/ Total(sent["client"], "DATA", Ids)
          > InitialWindow + Total(sent["server"], "WINDOW_UPDATE", {0})
    \/ \E id \in Ids : Total(sent["client"], "DATA", {id})
          > Greatest(InitialWindows("server")) + Total(sent["server"], "WINDOW_UPDATE", {id})
\* What the analysis confirms happened, and an overspent window is confirmed.
ConfirmedIsReal ==
    LET sure == {i \in conn.issues : i.certainty = "Confirmed" /\ i.code # "GoawayUnprocessed"}
    IN /\ ~scenario.greedy => sure = {}
       /\ finished /\ closed = Sides /\ conn.clean_start /\ Overspent => sure # {}

(* In the same orders of reading, a message is reported at most once, one     *)
(* reported complete was read to its end, and every request of a conversation *)
(* read to both ends is reported.                                             *)
MessagesOnce ==
    /\ \A i, j \in DOMAIN conn.reported :
          i # j => <<conn.reported[i][1], conn.reported[i][2]>>
                    # <<conn.reported[j][1], conn.reported[j][2]>>
    /\ \A i \in DOMAIN conn.reported :
          conn.reported[i][3] = "Complete" =>
             \E n \in 1 .. observed[conn.reported[i][1]] :
                LET f == sent[conn.reported[i][1]][n]
                IN f.id = conn.reported[i][2] /\ f.end
    /\ finished /\ ~scenario.loss =>
          \A id \in Ids : In(sent["client"], "HEADERS", id) =>
             \E i \in DOMAIN conn.reported :
                conn.reported[i][1] = "client" /\ conn.reported[i][2] = id
=============================================================================
