----------------------------- MODULE TcpServer -----------------------------
(***************************************************************************)
(* The TCP server of PSI/ZAD2_1 (p_server.py): it accepts one connection *)
(* at a time and unpack_nodes reads the stream in recv calls of at most   *)
(* BUFFER_SIZE bytes, appends them to received_data and, after each recv, *)
(* cuts off every whole node of NODE_STRUCT.size bytes, printing the ones *)
(* whose text decodes and skipping the others.  TCP delivers the client's *)
(* bytes in order but splits them anywhere.  The client writes a sequence *)
(* of nodes and may stop (close or reset) at any byte.                    *)
(*                                                                         *)
(* A byte is [node, ok]: the node it belongs to and whether it is a byte  *)
(* of a text that decodes as UTF-8.  NODE_STRUCT.unpack of exactly size   *)
(* bytes cannot fail, so its except branch is never taken.               *)
(***************************************************************************)
EXTENDS Integers, Sequences

CONSTANTS
    NodeSize,    \* NODE_STRUCT.size (70), scaled down
    BufferSize,  \* BUFFER_SIZE (1024), scaled down but larger than a node
    Clients      \* what a client writes: a sequence of nodes, TRUE = text decodes

ASSUME NodeSize >= 1 /\ BufferSize > NodeSize

\* The bytes a client writes for its nodes.
Stream(c) == [k \in 1..(Len(c) * NodeSize) |->
                 [node |-> (k - 1) \div NodeSize + 1, ok |-> c[(k - 1) \div NodeSize + 1]]]

\* text_bytes.split(b"\x00", 1)[0].decode("utf-8") succeeds.
Decodes(chunk) == \A i \in DOMAIN chunk : chunk[i].ok

VARIABLES
    phase,    \* "listening", "connected" (in unpack_nodes), "closed"
    stream,   \* the bytes the client wrote on this connection
    inflight, \* those not yet returned by recv
    buf,      \* received_data
    nodes     \* the nodes printed on this connection (node_count = Len(nodes))

vars == <<phase, stream, inflight, buf, nodes>>

----------------------------------------------------------------------------
\* Mutation: the inner while is an if: one node per recv.
Drain_once(b, ns) ==
    IF Len(b) >= NodeSize
    THEN LET chunk == SubSeq(b, 1, NodeSize)
         IN  [buf |-> SubSeq(b, NodeSize + 1, Len(b)),
              nodes |-> IF Decodes(chunk) THEN Append(ns, chunk) ELSE ns]
    ELSE [buf |-> b, nodes |-> ns]

\* The inner while loop: cut whole nodes off the front of received_data;
\* a node whose text does not decode is deleted and skipped (continue).
RECURSIVE Drain(_, _)
Drain(b, ns) ==
    IF Len(b) >= NodeSize
    THEN LET chunk == SubSeq(b, 1, NodeSize)
         IN  Drain(SubSeq(b, NodeSize + 1, Len(b)),
                   IF Decodes(chunk) THEN Append(ns, chunk) ELSE ns)
    ELSE [buf |-> b, nodes |-> ns]

Init ==
    /\ phase = "listening"
    /\ stream = <<>>
    /\ inflight = <<>>
    /\ buf = <<>>
    /\ nodes = <<>>

\* sock.accept() returns a connection; unpack_nodes starts with an empty
\* received_data.  The client's bytes are any prefix of its stream.
Accept(c, cut) ==
    /\ phase \in {"listening", "closed"}
    /\ stream' = SubSeq(Stream(c), 1, cut)
    /\ inflight' = SubSeq(Stream(c), 1, cut)
    /\ buf' = <<>>
    /\ nodes' = <<>>
    /\ phase' = "connected"

\* One iteration of the outer loop: conn.recv returns k bytes, they are
\* appended, and every whole node is unpacked.
Recv(k) ==
    /\ phase = "connected"
    /\ k <= Len(inflight)
    /\ LET r == Drain(buf \o SubSeq(inflight, 1, k), nodes)
       IN  /\ buf' = r.buf
           /\ nodes' = r.nodes
    /\ inflight' = SubSeq(inflight, k + 1, Len(inflight))
    /\ UNCHANGED <<phase, stream>>

\* recv returns b"" (the client closed) or raises OSError (reset): the
\* loop ends, the leftover bytes of a partial node are dropped with the
\* connection.
Eof ==
    /\ phase = "connected"
    /\ inflight = <<>>
    /\ phase' = "closed"
    /\ UNCHANGED <<stream, inflight, buf, nodes>>

Next ==
    \/ \E c \in Clients : \E cut \in 0..Len(Stream(c)) : Accept(c, cut)
    \/ \E k \in 1..BufferSize : Recv(k)
    \/ Eof

Spec == Init /\ [][Next]_vars

----------------------------------------------------------------------------
\* However TCP splits the stream into recv results, after every recv the
\* server has printed exactly the decodable nodes among the whole nodes it
\* has received, in the order they were sent, and received_data holds
\* just the bytes of the partial node after them.
NodesFramed ==
    LET rcv == SubSeq(stream, 1, Len(stream) - Len(inflight))
        n == Len(rcv) \div NodeSize
    IN  /\ nodes = SelectSeq([i \in 1..n |-> SubSeq(rcv, (i - 1) * NodeSize + 1, i * NodeSize)],
                             Decodes)
        /\ buf = SubSeq(rcv, n * NodeSize + 1, Len(rcv))

=============================================================================
