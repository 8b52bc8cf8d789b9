-------------------------- MODULE MCConversations ---------------------------
(***************************************************************************)
(* Small instances of the analyses of a conversation.  Each behaviour runs *)
(* one of them, the subject: the HTTP/2 analysis, with variables of its    *)
(* own, or the TCP findings of a conversation, with their variables in     *)
(* the slots x1, x2, ... in the order of their declaration.                *)
(***************************************************************************)
EXTENDS Http2Analysis

(* Small HTTP/2 conversations: some about flow control, some about stream lifetimes. *)

Most(data, headers, updates, settings, resets, goaways) ==
    [DATA |-> data, HEADERS |-> headers, WINDOW_UPDATE |-> updates,
     SETTINGS |-> settings, RST_STREAM |-> resets, GOAWAY |-> goaways]

Of(type, ids, values, ends) ==
    {Frame(type, id, value, end) : id \in ids, value \in values, end \in ends}

FlowControl ==
    [initial |-> {2}, greedy |-> FALSE, loss |-> FALSE,
     frames |-> [client |-> Of("HEADERS", {1}, {0}, {FALSE})
                            \cup Of("DATA", {1}, {2}, BOOLEAN),
                 server |-> Of("WINDOW_UPDATE", {0, 1}, {1, 2}, {FALSE})
                            \cup Of("SETTINGS", {0}, {1, 3}, {FALSE})],
     most |-> [client |-> Most(2, 1, 0, 0, 0, 0),
               server |-> Most(0, 0, 2, 2, 0, 0)]]

Lifetimes ==
    [initial |-> {2}, greedy |-> FALSE, loss |-> TRUE,
     frames |-> [client |-> Of("HEADERS", {1, 3}, {0}, BOOLEAN)
                            \cup Of("RST_STREAM", {1}, {0}, {FALSE}),
                 server |-> Of("HEADERS", {1, 3}, {0}, {TRUE})
                            \cup Of("RST_STREAM", {3}, {0}, {FALSE})
                            \cup Of("GOAWAY", {0}, {1}, {FALSE})],
     most |-> [client |-> Most(0, 2, 0, 1, 1, 0),
               server |-> Most(0, 2, 0, 1, 1, 1)]]

(* A request with a body, answered by a response with one. *)
Bodies ==
    [initial |-> {2}, greedy |-> FALSE, loss |-> FALSE,
     frames |-> [client |-> Of("HEADERS", {1}, {0}, {FALSE, TRUE})
                            \cup Of("DATA", {1}, {1}, {TRUE})
                            \cup Of("RST_STREAM", {1}, {0}, {FALSE}),
                 server |-> Of("HEADERS", {1}, {0}, {FALSE, TRUE})
                            \cup Of("DATA", {1}, {0, 1}, BOOLEAN)
                            \cup Of("RST_STREAM", {1}, {0}, {FALSE})],
     most |-> [client |-> Most(1, 2, 0, 1, 1, 0),
               server |-> Most(2, 2, 0, 1, 1, 0)]]

Greedy ==
    [initial |-> {2}, greedy |-> TRUE, loss |-> FALSE,
     frames |-> [client |-> Of("HEADERS", {1}, {0}, {FALSE})
                            \cup Of("DATA", {1}, {2}, BOOLEAN),
                 server |-> Of("WINDOW_UPDATE", {0, 1}, {2}, {FALSE})
                            \cup Of("SETTINGS", {0}, {1, 3}, {FALSE})],
     most |-> [client |-> Most(2, 1, 0, 0, 0, 0),
               server |-> Most(0, 0, 2, 2, 0, 0)]]

Responses ==
    [initial |-> {2}, greedy |-> FALSE, loss |-> TRUE,
     frames |-> [client |-> Of("HEADERS", {1}, {0}, {TRUE})
                            \cup Of("WINDOW_UPDATE", {0, 1}, {1}, {FALSE})
                            \cup Of("SETTINGS", {0}, {3}, {FALSE}),
                 server |-> Of("HEADERS", {1}, {0}, {FALSE})
                            \cup Of("DATA", {1}, {2}, BOOLEAN)],
     most |-> [client |-> Most(0, 1, 2, 2, 0, 0),
               server |-> Most(2, 1, 0, 1, 0, 0)]]

CreditScenarios == {FlowControl}
MCScenarios == {FlowControl, Greedy, Responses, Bodies, Lifetimes}

VARIABLES subject, x1, x2, x3, x4, x5, x6, x7, x8, x9, x10, x11, x12, x13, x14, x15,
  x16, x17

MCVars == <<vars, subject, x1, x2, x3, x4, x5, x6, x7, x8, x9, x10, x11, x12, x13,
          x14, x15, x16, x17>>

Slots == <<x1, x2, x3, x4, x5, x6, x7, x8, x9, x10, x11, x12, x13, x14, x15, x16, x17>>

(* The slots a component does not use stay as they are. *)


-----------------------------------------------------------------------------
(* Three bytes, whose sequence numbers wrap, and a window of two. *)
Directions == [a |-> "b", b |-> "a"]
Order == <<"a", "b">>
InitialSequence == [a |-> 13, b |-> 5]

Tcp == INSTANCE TcpExpert WITH
  Segments <- {}, Opposite <- Directions, FlowOrder <- Order, ISN <- InitialSequence,
  Bytes <- 3, Window <- 2, Sends <- 7, Modulus <- 16, PageBytes <- 3, PageCost <- 1,
  SegmentCost <- 1, FlowCost <- 1, max_flows <- 2, max_bytes_per_flow <- 7,
  max_aggregate_bytes <- 40, max_segments_per_flow <- 3, max_half_open <- 2,
  idle_expiry <- 1, SweepGranularity <- 2, FrameCount <- 7, LastTick <- 0,
  MAX_OPEN_HOLES <- 1, FAST_RETRANSMIT_DUPLICATES <- 2, state <- x1, frames <- x2,
  latest <- x3, swept <- x4, table <- x5, half_open <- x6, event <- x7, events <- x8,
  expert <- x9, client <- x10, server <- x11, seen <- x12, answered <- x13,
  missed <- x14, last <- x15, sends <- x16, over <- x17

-----------------------------------------------------------------------------
(* Http2Analysis: its variables are its own. *)
AllUnused == x1 = 0 /\ x2 = 0 /\ x3 = 0 /\ x4 = 0 /\ x5 = 0 /\ x6 = 0 /\ x7 = 0 /\ x8 = 0 /\ x9 = 0 /\
  x10 = 0 /\ x11 = 0 /\ x12 = 0 /\ x13 = 0 /\ x14 = 0 /\ x15 = 0 /\ x16 = 0 /\ x17 = 0

MCInit ==
  /\ Init
  /\ \/ subject = "http2" /\ AllUnused
     \/ subject = "tcp" /\ scenario = Bodies /\ Tcp!ConversationInit

TcpStep == subject = "tcp" /\ Tcp!ConversationNext /\ UNCHANGED subject /\ UNCHANGED vars

Http2Step == subject = "http2" /\ Next /\ UNCHANGED subject /\ UNCHANGED Slots

MCNext == Http2Step \/ TcpStep

MCSpec == MCInit /\ [][MCNext]_MCVars

-----------------------------------------------------------------------------
\* Only the HTTP/2 connection.
CreditSpec == MCInit /\ subject = "http2" /\ [][MCNext]_MCVars

\* TcpExpert: what is reported of a conversation (retransmissions, lost segments, windows) is
\* what its sender really did.
FindingsTrue == subject = "tcp" => Tcp!FindingsTrue
=============================================================================
