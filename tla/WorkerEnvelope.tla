--------------------------- MODULE WorkerEnvelope ---------------------------
(***************************************************************************)
(* How on_worker_pollin (src/ItemDistributor.hpp) takes a message off the  *)
(* ROUTER socket apart.  The frames are those of spec section 6: the       *)
(* routing id the socket prepends, the empty delimiter, the verb with its  *)
(* arguments and an optional payload; a disconnect notification is the     *)
(* routing id and the delimiter alone.  multipart_t::peekstr(n) is the     *)
(* frame at 0-based index n, i.e. frames[n + 1] here.                      *)
(***************************************************************************)
EXTENDS Naturals, Sequences

CONSTANTS
    RoutingIds,   \* routing ids the ROUTER socket assigns (never empty)
    Commands,     \* verb-and-arguments frames a worker sends
    Payloads,     \* optional payload frames
    Empty,        \* the empty delimiter frame
    Undefined     \* the value of a read past the last frame (undefined behaviour)

\* The runs give all five distinct model values: a routing id is never the
\* empty delimiter, and Undefined is no frame at all.

\* the messages the broker can receive on its worker socket
Envelopes ==
    {<<r, Empty>> : r \in RoutingIds}
      \cup {<<r, Empty, c>> : r \in RoutingIds, c \in Commands}
      \cup {<<r, Empty, c, p>> : r \in RoutingIds, c \in Commands, p \in Payloads}

\* multipart_t::peekstr(n); an index past the end reads an element the
\* deque does not have
PeekStr(frames, n) == IF n < Len(frames) THEN frames[n + 1] ELSE Undefined

\* std::string identity = message.peekstr(1);
WorkerIdentity(frames) == PeekStr(frames, 1)

\* if (message.size() == 2): the disconnect notification
IsDisconnect(frames) == Len(frames) = 2

\* std::string message_string = message.peekstr(3);
MessageString(frames) == PeekStr(frames, 3)

VARIABLE frames

Init == frames \in Envelopes
Next == UNCHANGED frames
Spec == Init /\ [][Next]_frames

-----------------------------------------------------------------------------
\* The key under which the broker files and finds a worker is the routing
\* id of the connection the message came on (spec section 6: "peers
\* identified by opaque identity"), so that two workers never share a record.
IdentityIsRoutingId == WorkerIdentity(frames) = frames[1]

\* The string the handler matches against "REGISTER " and "COMPLETE " is the
\* verb-and-arguments frame of the message.
CommandIsVerbFrame == ~IsDisconnect(frames) => MessageString(frames) = frames[3]

\* The envelope is decoded as spec section 6 lays it out: the worker is
\* known by its routing id and its command is the verb frame.
EnvelopeDecoded == IdentityIsRoutingId /\ CommandIsVerbFrame
=============================================================================
