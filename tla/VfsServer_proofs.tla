-------------------------- MODULE VfsServer_proofs --------------------------
(***************************************************************************)
(* VfsServer, proved for every number of connections, every size of the    *)
(* buffer and every size of a request: its types, that nothing sent is     *)
(* lost or read twice, and that no edge of epoll is missed, on which it    *)
(* rests that every request that fits is answered.                         *)
(***************************************************************************)
EXTENDS VfsServer, TLAPS

(* What holds of a connection between any two steps.  An answer is on its   *)
(* way only to a client that waits, with its whole request read; a client   *)
(* that has closed does not wait; the buffer of a connection that is not    *)
(* accepted is empty.                                                       *)
Consistent(c) ==
  /\ flight[c] + unread[c] + bufferPos[c] = IF answered[c] THEN 0 ELSE request[c]
  /\ answered[c] => request[c] # 0
  /\ conn[c] \in {"closed", "closing"} => request[c] = 0
  /\ conn[c] = "queued" => bufferPos[c] = 0

(* The loop is told, or will be, of all that it still has to read.  The     *)
(* socket of a connection that is queued is looked at when it is accepted.  *)
Watched(c) ==
  /\ conn[c] = "closing" => edge[c]
  /\ conn[c] = "open" /\ unread[c] > 0 /\ request[c] <= BufferSize => edge[c]

SInv == \A c \in Clients: Consistent(c) /\ Watched(c)

(* No edge is missed: of a request that fits in the buffer no unit waits in *)
(* the socket of an accepted connection without epoll_wait reporting it,    *)
(* although it is edge-triggered and the loop reads once for an edge.       *)
NoEdgeIsMissed ==
  \A c \in Accepted: unread[c] > 0 /\ request[c] <= BufferSize => edge[c]

-----------------------------------------------------------------------------
LEMMA Numbers ==
  ASSUME STypeOK, NEW c \in Clients
  PROVE  /\ request[c] \in Nat /\ flight[c] \in Nat /\ unread[c] \in Nat
         /\ bufferPos[c] \in Nat /\ bufferPos[c] <= BufferSize
<1>1. request[c] \in RequestSizes \union {0}
  BY DEF STypeOK
<1>2. RequestSizes \subseteq Nat /\ 0 \in Nat
  BY ServerAssumption
<1>3. request[c] \in Nat
  BY <1>1, <1>2, Zenon
<1> QED
  BY <1>3, ServerAssumption DEF STypeOK

LEMMA EmptySum ==
  ASSUME NEW x \in Nat, NEW y \in Nat, NEW z \in Nat, x + y + z = 0
  PROVE  x = 0 /\ y = 0 /\ z = 0
OBVIOUS

(* What one read takes from the socket: no more than there is and no more   *)
(* than the buffer has room for.                                            *)
LEMMA ReadableBounds ==
  ASSUME STypeOK, NEW c \in Clients
  PROVE  /\ Room(c) \in Nat /\ Room(c) + bufferPos[c] = BufferSize
         /\ Readable(c) \in Nat /\ Readable(c) <= unread[c]
         /\ Position(c) \in 0..BufferSize
         /\ Readable(c) = unread[c] \/ Position(c) = BufferSize
<1> USE ServerAssumption
<1>1. bufferPos[c] \in 0..BufferSize /\ unread[c] \in Nat
  BY DEF STypeOK
<1>2. Room(c) \in Nat /\ Room(c) + bufferPos[c] = BufferSize
  BY <1>1 DEF Room
<1> QED
  BY <1>1, <1>2 DEF Readable, Position

(* A request is complete exactly when all of it has been read: what has     *)
(* been read of it never exceeds it, so nothing follows it in the buffer.   *)
LEMMA CompleteIsAll ==
  ASSUME STypeOK, NEW c \in Clients, Consistent(c), Readable(c) > 0, Complete(c)
  PROVE  /\ Position(c) = request[c] /\ ~answered[c]
         /\ flight[c] = 0 /\ unread[c] = Readable(c) /\ request[c] # 0
<1>1. /\ bufferPos[c] \in Nat /\ unread[c] \in Nat /\ flight[c] \in Nat /\ request[c] \in Nat
  BY Numbers
<1>2. Readable(c) \in Nat /\ Readable(c) <= unread[c]
  BY ReadableBounds
<1>3. flight[c] + unread[c] + bufferPos[c] = IF answered[c] THEN 0 ELSE request[c]
  BY DEF Consistent
<1>4. ~answered[c]
  BY <1>1, <1>2, <1>3
<1> QED
  BY <1>1, <1>2, <1>3, <1>4 DEF Complete, Position

-----------------------------------------------------------------------------
LEMMA STypeInit == SInit => STypeOK
BY ServerAssumption DEF SInit, STypeOK

(* Every step keeps the types; that of bufferPos says that the code never   *)
(* reads past the end of the buffer of a connection.                        *)
LEMMA STypeStep == STypeOK /\ [SNext]_svars => STypeOK'
<1> SUFFICES ASSUME STypeOK, [SNext]_svars PROVE STypeOK'
  OBVIOUS
<1> USE ServerAssumption DEF STypeOK
<1>1. CASE UNCHANGED svars
  BY <1>1 DEF svars
<1>2. ASSUME NEW c \in Clients, connect_to_server(c) PROVE STypeOK'
  BY <1>2 DEF connect_to_server
<1>3. ASSUME NEW c \in Clients, NEW size \in RequestSizes, Send(c, size) PROVE STypeOK'
  BY <1>3 DEF Send
<1>4. ASSUME NEW c \in Clients, Receive(c) PROVE STypeOK'
  BY <1>4 DEF Receive
<1>5. ASSUME NEW c \in Clients, Close(c) PROVE STypeOK'
  BY <1>5 DEF Close
<1>6. ASSUME NEW c \in Clients, Deliver(c) PROVE STypeOK'
  <2>1. PICK n \in 1..flight[c]:
          /\ flight' = [flight EXCEPT ![c] = @ - n]
          /\ unread' = [unread EXCEPT ![c] = @ + n]
    BY <1>6 DEF Deliver
  <2>2. flight[c] - n \in Nat /\ unread[c] + n \in Nat
    BY <2>1
  <2> QED
    BY <1>6, <2>1, <2>2 DEF Deliver
<1>7. ASSUME NEW c \in Clients, Accept(c) PROVE STypeOK'
  BY <1>7 DEF Accept
<1>8. ASSUME NEW c \in Clients, Hangup(c) PROVE STypeOK'
  BY <1>8 DEF Hangup
<1>9. ASSUME NEW c \in Clients, Serve(c) PROVE STypeOK'
  <2>1. unread[c] - Readable(c) \in Nat /\ Position(c) \in 0..BufferSize
    BY ReadableBounds
  <2>2. CASE Complete(c)
    <3>1. Position(c) - request[c] \in 0..BufferSize
      BY <2>1, <2>2, Numbers DEF Complete
    <3> QED
      BY <1>9, <2>1, <2>2, <3>1 DEF Serve, Respond
  <2>3. CASE ~Complete(c)
    BY <1>9, <2>1, <2>3 DEF Serve
  <2> QED
    BY <2>2, <2>3
<1> QED
  BY <1>1, <1>2, <1>3, <1>4, <1>5, <1>6, <1>7, <1>8, <1>9 DEF SNext

(* The state of every connection is what client_state declares.             *)
THEOREM ServerTypes == SSpec => []STypeOK
BY STypeInit, STypeStep, PTL DEF SSpec

-----------------------------------------------------------------------------
(* Every action is about one connection and leaves the others.              *)
LEMMA Elsewhere ==
  ASSUME NEW d \in Clients, Consistent(d), Watched(d),
         conn'[d] = conn[d], request'[d] = request[d], flight'[d] = flight[d],
         unread'[d] = unread[d], edge'[d] = edge[d], bufferPos'[d] = bufferPos[d],
         answered'[d] = answered[d]
  PROVE  Consistent(d)' /\ Watched(d)'
BY DEF Consistent, Watched

LEMMA SInvInit == SInit => SInv
<1> SUFFICES ASSUME SInit, NEW c \in Clients PROVE Consistent(c) /\ Watched(c)
  BY DEF SInv
<1> QED
  BY DEF SInit, Consistent, Watched

(* What a step does to its own connection. *)
LEMMA OneStep ==
  ASSUME STypeOK, NEW c \in Clients, Consistent(c), Watched(c),
         \/ connect_to_server(c) \/ Receive(c) \/ Close(c)
         \/ \E size \in RequestSizes: Send(c, size)
         \/ Deliver(c) \/ Accept(c) \/ Hangup(c) \/ Serve(c)
  PROVE  Consistent(c)' /\ Watched(c)'
<1> USE ServerAssumption
<1>0. /\ request[c] \in Nat /\ flight[c] \in Nat /\ unread[c] \in Nat /\ bufferPos[c] \in Nat
      /\ answered[c] \in BOOLEAN /\ bufferPos[c] <= BufferSize
  BY Numbers DEF STypeOK
<1>1. /\ flight[c] + unread[c] + bufferPos[c] = IF answered[c] THEN 0 ELSE request[c]
      /\ answered[c] => request[c] # 0
      /\ conn[c] \in {"closed", "closing"} => request[c] = 0
      /\ conn[c] = "queued" => bufferPos[c] = 0
      /\ conn[c] = "closing" => edge[c]
      /\ conn[c] = "open" /\ unread[c] > 0 /\ request[c] <= BufferSize => edge[c]
  BY DEF Consistent, Watched
<1>2. CASE connect_to_server(c)
  <2>1. /\ conn'[c] = "queued" /\ conn[c] = "closed"
        /\ UNCHANGED <<request, flight, unread, bufferPos, answered>>
    BY <1>2 DEF connect_to_server, STypeOK
  <2> QED
    BY <1>0, <1>1, <2>1 DEF Consistent, Watched
<1>3. ASSUME NEW size \in RequestSizes, Send(c, size) PROVE Consistent(c)' /\ Watched(c)'
  <2>1. /\ conn[c] \in {"queued", "open"} /\ request[c] = 0 /\ size # 0 /\ size \in Nat
        /\ request'[c] = size /\ flight'[c] = size
        /\ UNCHANGED <<conn, unread, edge, bufferPos, answered>>
    BY <1>3 DEF Send, STypeOK
  <2>2. ~answered[c]
    BY <1>1, <2>1
  <2>3. flight[c] + unread[c] + bufferPos[c] = 0
    BY <1>1, <2>1, <2>2
  <2>4. unread[c] = 0 /\ bufferPos[c] = 0
    BY <2>3, Numbers, EmptySum
  <2> QED
    BY <1>0, <2>1, <2>2, <2>4 DEF Consistent, Watched
<1>4. CASE Receive(c)
  <2>1. /\ answered[c] /\ ~answered'[c] /\ request'[c] = 0
        /\ UNCHANGED <<conn, flight, unread, edge, bufferPos>>
    BY <1>4 DEF Receive, STypeOK
  <2>2. flight[c] + unread[c] + bufferPos[c] = 0
    BY <1>1, <2>1
  <2>3. flight[c] = 0 /\ unread[c] = 0 /\ bufferPos[c] = 0
    BY <2>2, Numbers, EmptySum
  <2> QED
    BY <1>0, <1>1, <2>1, <2>3 DEF Consistent, Watched
<1>5. CASE Close(c)
  <2>1. /\ request[c] = 0 /\ conn'[c] = "closing" /\ edge'[c]
        /\ UNCHANGED <<request, flight, unread, bufferPos, answered>>
    BY <1>5 DEF Close, STypeOK
  <2> QED
    BY <1>0, <1>1, <2>1 DEF Consistent, Watched
<1>6. CASE Deliver(c)
  <2>1. PICK n \in 1..flight[c]:
          /\ flight' = [flight EXCEPT ![c] = @ - n]
          /\ unread' = [unread EXCEPT ![c] = @ + n]
          /\ edge' = [edge EXCEPT ![c] = TRUE]
          /\ UNCHANGED <<conn, request, bufferPos, answered>>
    BY <1>6 DEF Deliver
  <2>2. /\ flight'[c] = flight[c] - n /\ unread'[c] = unread[c] + n /\ edge'[c]
    BY <2>1 DEF STypeOK
  <2> QED
    BY <1>0, <1>1, <2>1, <2>2 DEF Consistent, Watched
<1>7. CASE Accept(c)
  <2>1. /\ conn[c] = "queued" /\ conn'[c] = "open" /\ edge'[c] = (unread[c] > 0)
        /\ bufferPos'[c] = 0
        /\ UNCHANGED <<request, flight, unread, answered>>
    BY <1>7 DEF Accept, STypeOK
  <2> QED
    BY <1>0, <1>1, <2>1 DEF Consistent, Watched
<1>8. CASE Hangup(c)
  <2>1. /\ conn[c] = "closing" \/ Room(c) = 0
        /\ conn'[c] = "closed" /\ request'[c] = 0 /\ flight'[c] = 0
        /\ unread'[c] = 0 /\ bufferPos'[c] = 0 /\ UNCHANGED answered
    BY <1>8 DEF Hangup, STypeOK
  <2>2. CASE conn[c] = "closing"
    BY <1>1, <2>1, <2>2 DEF Consistent, Watched
  <2>3. CASE Room(c) = 0
    <3>1. bufferPos[c] > 0
      BY <1>0, <2>3 DEF Room
    <3>2. ~answered[c]
      BY <1>0, <1>1, <3>1
    <3> QED
      BY <2>1, <3>2 DEF Consistent, Watched
  <2> QED
    BY <2>1, <2>2, <2>3 DEF Consistent, Watched
<1>9. CASE Serve(c)
  <2>0. Readable(c) > 0 /\ UNCHANGED <<conn, request, flight>>
    BY <1>9 DEF Serve
  <2>1. edge'[c] = (conn[c] = "closing") /\ unread'[c] = unread[c] - Readable(c)
    BY <1>9 DEF Serve, STypeOK
  <2>2. conn[c] = "open"
    <3>1. Readable(c) \in Nat /\ Readable(c) <= unread[c]
      BY ReadableBounds
    <3>2. unread[c] > 0
      BY <1>0, <2>0, <3>1
    <3>3. request[c] # 0
      BY <1>0, <1>1, <3>2
    <3>4. conn[c] \in {"open", "closing"}
      BY <1>9 DEF Serve, Accepted
    <3> QED
      BY <1>1, <3>3, <3>4
  <2>3. CASE Complete(c)
    <3>1. /\ Position(c) = request[c] /\ ~answered[c]
          /\ flight[c] = 0 /\ unread[c] = Readable(c) /\ request[c] # 0
      BY <2>0, <2>3, CompleteIsAll
    <3>2. answered'[c] /\ bufferPos'[c] = 0 /\ unread'[c] = 0
      BY <1>0, <1>9, <2>1, <2>3, <3>1 DEF Serve, Respond, STypeOK
    <3> QED
      BY <1>0, <2>0, <2>2, <3>1, <3>2 DEF Consistent, Watched
  <2>4. CASE ~Complete(c)
    <3>1. bufferPos'[c] = bufferPos[c] + Readable(c) /\ UNCHANGED answered
      BY <1>9, <2>4 DEF Serve, STypeOK, Position
    <3>2. Readable(c) \in Nat /\ Readable(c) <= unread[c]
         /\ (Readable(c) = unread[c] \/ Position(c) = BufferSize)
      BY ReadableBounds
    <3>3. request[c] <= BufferSize => Readable(c) = unread[c]
      BY <1>0, <2>4, <3>2 DEF Complete
    <3> QED
      BY <1>0, <1>1, <2>0, <2>1, <2>2, <3>1, <3>2, <3>3 DEF Consistent, Watched
  <2> QED
    BY <2>3, <2>4
<1> QED
  BY <1>2, <1>3, <1>4, <1>5, <1>6, <1>7, <1>8, <1>9

LEMMA SInvStep == STypeOK /\ SInv /\ [SNext]_svars => SInv'
<1> SUFFICES ASSUME STypeOK, SInv, [SNext]_svars, NEW d \in Clients
             PROVE  Consistent(d)' /\ Watched(d)'
  BY DEF SInv
<1>1. Consistent(d) /\ Watched(d)
  BY DEF SInv
<1>2. CASE UNCHANGED svars
  BY <1>1, <1>2 DEF svars, Consistent, Watched
<1>3. CASE SNext
  <2>1. PICK c \in Clients:
          \/ connect_to_server(c) \/ Receive(c) \/ Close(c)
          \/ \E size \in RequestSizes: Send(c, size)
          \/ Deliver(c) \/ Accept(c) \/ Hangup(c) \/ Serve(c)
    BY <1>3 DEF SNext
  <2>2. CASE c = d
    BY <1>1, <2>1, <2>2, OneStep
  <2>3. CASE c # d
    <3>1. /\ conn'[d] = conn[d] /\ request'[d] = request[d] /\ flight'[d] = flight[d]
          /\ unread'[d] = unread[d] /\ edge'[d] = edge[d]
          /\ bufferPos'[d] = bufferPos[d] /\ answered'[d] = answered[d]
      BY <2>1, <2>3 DEF STypeOK, connect_to_server, Receive, Close, Send, Deliver, Accept,
         Hangup, Serve, Respond
    <3> QED
      BY <1>1, <3>1, Elsewhere
  <2> QED
    BY <2>2, <2>3
<1> QED
  BY <1>2, <1>3

(* Nothing sent to the server is lost and nothing is read twice, in         *)
(* whatever pieces it arrives.                                              *)
THEOREM NothingIsLost == SSpec => []UnansweredIsAccountedFor
<1>1. SInv => UnansweredIsAccountedFor
  BY DEF SInv, Consistent, UnansweredIsAccountedFor
<1> QED
  BY <1>1, STypeInit, STypeStep, SInvInit, SInvStep, PTL DEF SSpec

(* The loop of vfs_server misses no edge: what is left to read of a request *)
(* that fits in the buffer will be reported to it.                          *)
THEOREM EdgesAreEnough == SSpec => []NoEdgeIsMissed
<1>1. SInv => NoEdgeIsMissed
  BY DEF SInv, Watched, NoEdgeIsMissed, Accepted
<1> QED
  BY <1>1, STypeInit, STypeStep, SInvInit, SInvStep, PTL DEF SSpec
=============================================================================
