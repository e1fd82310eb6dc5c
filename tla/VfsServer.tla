----------------------------- MODULE VfsServer -----------------------------
(***************************************************************************)
(* src/level2/vfs/vfs_server.c and vfs_client.c: one server thread, an     *)
(* epoll loop over connections that are edge-triggered, a fixed buffer per *)
(* connection; clients that send one request and wait for its answer.      *)
(* Bytes are counted in units; the head of a request is one of them.       *)
(* What a request does is VfsTable's; here is how it gets to the server,   *)
(* in whatever pieces the network makes of it, and the answer back.        *)
(***************************************************************************)
EXTENDS Naturals, FiniteSets

CONSTANTS
  Clients,        \* connections
  BufferSize,     \* BUFFER_SIZE, in units
  RequestSizes,   \* the sizes of the requests, in units, head included
  MaxEvents       \* MAX_EVENTS: the length of the array of connections

ASSUME ServerAssumption ==
  BufferSize \in Nat /\ RequestSizes \subseteq Nat /\ BufferSize > 0 /\ 0 \notin RequestSizes

VARIABLES
  conn,       \* closed, queued (for accept), open; closing: closed by the client only
  request,    \* size of the request that the client waits for the answer of, or 0
  flight,     \* units sent and not yet at the server's socket
  unread,     \* units in the server's socket
  edge,       \* epoll_wait will report the connection
  bufferPos,  \* client_state.buffer_pos
  answered    \* the answer is on its way to the client

svars == <<conn, request, flight, unread, edge, bufferPos, answered>>

STypeOK ==
  /\ conn \in [Clients -> {"closed", "queued", "open", "closing"}]
  /\ request \in [Clients -> RequestSizes \union {0}]
  /\ flight \in [Clients -> Nat] /\ unread \in [Clients -> Nat]
  /\ edge \in [Clients -> BOOLEAN]
  /\ bufferPos \in [Clients -> 0..BufferSize]
  /\ answered \in [Clients -> BOOLEAN]

SInit ==
  /\ conn = [c \in Clients |-> "closed"]
  /\ request = [c \in Clients |-> 0]
  /\ flight = [c \in Clients |-> 0]
  /\ unread = [c \in Clients |-> 0]
  /\ edge = [c \in Clients |-> FALSE]
  /\ bufferPos = [c \in Clients |-> 0]
  /\ answered = [c \in Clients |-> FALSE]

-----------------------------------------------------------------------------
(* The client: one request at a time. *)

connect_to_server(c) ==
  /\ conn[c] = "closed"
  /\ conn' = [conn EXCEPT ![c] = "queued"]
  /\ UNCHANGED <<request, flight, unread, edge, bufferPos, answered>>

(* connect returns once the kernel has queued the connection: the request   *)
(* may be sent before the server accepts.                                   *)
Send(c, size) ==
  /\ conn[c] \in {"queued", "open"}
  /\ request[c] = 0
  /\ request' = [request EXCEPT ![c] = size]
  /\ flight' = [flight EXCEPT ![c] = size]
  /\ UNCHANGED <<conn, unread, edge, bufferPos, answered>>

Receive(c) ==
  /\ answered[c]
  /\ answered' = [answered EXCEPT ![c] = FALSE]
  /\ request' = [request EXCEPT ![c] = 0]
  /\ UNCHANGED <<conn, flight, unread, edge, bufferPos>>

(* fclose, closedir and the calls that take a path close the connection;    *)
(* the server will read its end.                                            *)
Close(c) ==
  /\ conn[c] = "open"
  /\ request[c] = 0
  /\ conn' = [conn EXCEPT ![c] = "closing"]
  /\ edge' = [edge EXCEPT ![c] = TRUE]
  /\ UNCHANGED <<request, flight, unread, bufferPos, answered>>

-----------------------------------------------------------------------------
(* The network: a piece of what was sent arrives, and is an edge. *)
Deliver(c) ==
  \E n \in 1..flight[c]:
    /\ flight' = [flight EXCEPT ![c] = @ - n]
    /\ unread' = [unread EXCEPT ![c] = @ + n]
    /\ edge' = [edge EXCEPT ![c] = TRUE]
    /\ UNCHANGED <<conn, request, bufferPos, answered>>

-----------------------------------------------------------------------------
(* The server's loop.  (Nothing bounds num_clients: one connection more     *)
(* than MaxEvents is written behind the array.)                             *)
Accepted == {c \in Clients: conn[c] \in {"open", "closing"}}

Accept(c) ==
  /\ conn[c] = "queued"
  /\ Cardinality(Accepted) < MaxEvents
  /\ conn' = [conn EXCEPT ![c] = "open"]
  /\ edge' = [edge EXCEPT ![c] = unread[c] > 0]
  /\ bufferPos' = [bufferPos EXCEPT ![c] = 0]
  /\ UNCHANGED <<request, flight, unread, answered>>

Room(c) == BufferSize - bufferPos[c]
Readable(c) == IF unread[c] < Room(c) THEN unread[c] ELSE Room(c)

(* buffer_pos after the read, and whether the request is whole then. *)
PositionMutant(c) == Readable(c)
Position(c) == bufferPos[c] + Readable(c)
CompleteMutant(c) == Position(c) > request[c]
Complete(c) == Position(c) >= request[c]

(* read returns 0 at the end of the connection, and also when the buffer is *)
(* full of a request that does not fit: it is taken for the end, and the    *)
(* client's recv gets none.                                                 *)
Hangup(c) ==
  /\ edge[c] /\ c \in Accepted
  /\ Readable(c) = 0
  /\ conn[c] = "closing" \/ Room(c) = 0
  /\ conn' = [conn EXCEPT ![c] = "closed"]
  /\ edge' = [edge EXCEPT ![c] = FALSE]
  /\ request' = [request EXCEPT ![c] = 0]
  /\ flight' = [flight EXCEPT ![c] = 0]
  /\ unread' = [unread EXCEPT ![c] = 0]
  /\ bufferPos' = [bufferPos EXCEPT ![c] = 0]
  /\ UNCHANGED answered

(* Each of the thirteen requests, whatever becomes of it, is answered with   *)
(* one write before the next is looked at.                                  *)
Respond(c) == answered' = [answered EXCEPT ![c] = TRUE]

(* One read for an edge, and then every request that is whole: the answer   *)
(* is written and what follows is moved to the front.                       *)
Serve(c) ==
  /\ edge[c] /\ c \in Accepted
  /\ Readable(c) > 0
  /\ edge' = [edge EXCEPT ![c] = conn[c] = "closing"]
  /\ unread' = [unread EXCEPT ![c] = @ - Readable(c)]
  /\ IF Complete(c)
     THEN /\ Respond(c)
          /\ bufferPos' = [bufferPos EXCEPT ![c] = Position(c) - request[c]]
     ELSE /\ bufferPos' = [bufferPos EXCEPT ![c] = Position(c)]
          /\ UNCHANGED answered
  /\ UNCHANGED <<conn, request, flight>>

SNext ==
  \E c \in Clients:
    \/ connect_to_server(c) \/ Receive(c) \/ Close(c)
    \/ \E size \in RequestSizes: Send(c, size)
    \/ Deliver(c) \/ Accept(c) \/ Hangup(c) \/ Serve(c)

(* The network delivers, the server's loop comes round to every connection  *)
(* that epoll_wait reports, and a client reads its answer.  Clients are not *)
(* made to send or to close anything.                                       *)
SFairness ==
  \A c \in Clients:
    /\ WF_svars(Deliver(c)) /\ WF_svars(Accept(c))
    /\ WF_svars(Hangup(c)) /\ WF_svars(Serve(c)) /\ WF_svars(Receive(c))

SSpec == SInit /\ [][SNext]_svars /\ SFairness

-----------------------------------------------------------------------------
(* A request that fits in the buffer is answered, however it is cut up:     *)
(* epoll's one edge per arrival, the server's one read per edge and its     *)
(* loop over whole requests leave none behind.  (One that does not fit is   *)
(* not: all of it may be there when the buffer is full, no edge follows,    *)
(* and both sides wait.)                                                    *)
RequestsAreAnswered ==
  \A c \in Clients:
    request[c] \in 1..BufferSize ~> answered[c]

(* Nothing sent is lost and nothing is read twice: between the client, the  *)
(* network, the socket and the buffer there is what the server has yet to   *)
(* answer, and no more.                                                     *)
UnansweredIsAccountedFor ==
  \A c \in Clients:
    flight[c] + unread[c] + bufferPos[c] = IF answered[c] THEN 0 ELSE request[c]
=============================================================================
