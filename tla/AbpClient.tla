------------------------------ MODULE AbpClient ------------------------------
(***************************************************************************)
(* The UDP client of src/PSI/ZAD1_3/p_client/p_client.py: main() sends     *)
(* Count datagrams, each through send_packets(), a stop-and-wait loop with *)
(* an alternating sequence bit: send, wait for "ACK<bit>" with a timeout,  *)
(* retry up to max_retries times, flip the bit on a valid ACK.             *)
(*                                                                         *)
(* The server the client talks to is not in the repository.  It is         *)
(* modelled as what the client expects of it: it answers every datagram    *)
(* with "ACK" and the datagram's sequence bit.  The network loses any      *)
(* datagram, delays it past any timeout, and, unless Fifo, reorders and    *)
(* duplicates; other senders may put datagrams on the client's port.       *)
(* A datagram carries its sequence byte and, as a ghost field, the packet  *)
(* number main() sent it for; its pairs of letters and numbers do not      *)
(* affect any decision of the client and are left out.                     *)
(***************************************************************************)
EXTENDS Integers, Sequences, FiniteSets, SequencesExt

CONSTANTS
    Count,      \* --count: datagrams main() sends
    MaxRetries, \* --max-retries
    Sizes,      \* the values --size may take
    Fifo,       \* the network keeps order and does not duplicate
    MaxFaults,  \* bound on socket errors and foreign datagrams in a run
    MaxQueue    \* datagrams in flight in one direction (more are dropped)

ASSUME /\ Count \in Nat /\ MaxRetries \in Nat \ {0}
       /\ Sizes \subseteq Nat /\ Fifo \in BOOLEAN
       /\ MaxFaults \in Nat /\ MaxQueue \in Nat \ {0}

VARIABLES
    size,            \* args.size
    packet_number,   \* the loop variable of main()
    sequence_number, \* the bit main() passes to send_packets
    retries,         \* the counter of send_packets
    pc,              \* "create" (loop of main), "send" (top of the while
                     \* loop of send_packets), "recv", "done"
    to_server,       \* datagrams in flight to the server
    to_client,       \* responses in flight to the client
    faults,          \* socket errors and foreign datagrams so far
    received,        \* ghost: packets whose datagram reached the server
    valid_for,       \* ghost: packets the client reported a VALID response for
    gave_up          \* ghost: packets send_packets returned without a VALID one

vars == <<size, packet_number, sequence_number, retries, pc, to_server,
          to_client, faults, received, valid_for, gave_up>>

\* The largest UDP payload of an AF_INET6 datagram (65535 - 8); sendto
\* fails with EMSGSIZE above it.
MaxDatagram == 65527

\* The responses that reach the client: the server's, and foreign ones.
Responses == {"ACK0", "ACK1", "INVALID", "OTHER", "BADUTF8"}
Foreign == {"INVALID", "OTHER", "BADUTF8"}

\* f"ACK{sequence_number}"
Ack(b) == IF b = 0 THEN "ACK0" ELSE "ACK1"

ResponseLength(r) == CASE r \in {"ACK0", "ACK1"} -> 4
                       [] r = "INVALID"          -> 7
                       [] OTHER                  -> 1

(***************************************************************************)
(* create_datagram: only whether it raises matters to main().              *)
(***************************************************************************)
create_datagram_error(sz) ==
    CASE sz < 3                    -> "ValueError"
      [] (sz - 3) % 3 # 0          -> "ValueError"
      [] (sz - 3) \div 3 > 65535   -> "OverflowError"
      [] OTHER                     -> "none"

\* receive_response: sock.recv(size) keeps the first size bytes of the
\* datagram (a cut ACK or INVALID is some other text); bytes that are not
\* UTF-8 give None.
received_text(r, sz) ==
    IF ResponseLength(r) > sz THEN "OTHER" ELSE r

\* Mutation: any ACK is taken as valid.
validate_response_any(text, seq) == text \in {"ACK0", "ACK1"}

\* validate_response: only f"ACK{sequence_number}" is valid; the wrong
\* bit, INVALID and anything else all ask for a retry.
validate_response(text, seq) == text = Ack(seq)

\* A queue that is full drops what is put on it.
Put(q, m) == IF Len(q) < MaxQueue THEN Append(q, m) ELSE q

\* The index a receiver may take from a queue.
Takeable(q) == IF Fifo THEN {1} \cap 1..Len(q) ELSE 1..Len(q)

----------------------------------------------------------------------------
Init ==
    /\ size \in Sizes
    /\ packet_number = 1
    /\ sequence_number = 0
    /\ retries = 0
    /\ pc = "create"
    /\ to_server = <<>>
    /\ to_client = <<>>
    /\ faults = 0
    /\ received = {}
    /\ valid_for = {}
    /\ gave_up = {}

\* send_packets returns: main() takes the next packet number.
NextPacket ==
    /\ packet_number' = packet_number + 1
    /\ pc' = "create"

\* The loop of main(): stop after Count packets; skip a packet whose
\* datagram create_datagram refuses to build; otherwise call send_packets.
Create ==
    /\ pc = "create"
    /\ \/ /\ packet_number > Count
          /\ pc' = "done"
          /\ UNCHANGED <<packet_number, retries>>
       \/ /\ packet_number <= Count
          /\ create_datagram_error(size) # "none"
          /\ NextPacket
          /\ UNCHANGED retries
       \/ /\ packet_number <= Count
          /\ create_datagram_error(size) = "none"
          /\ retries' = 0
          /\ pc' = "send"
          /\ UNCHANGED packet_number
    /\ UNCHANGED <<size, sequence_number, to_server, to_client, faults,
                   received, valid_for, gave_up>>

\* send_datagram: sendto succeeds and the datagram is on its way, or it
\* raises OSError and send_packets continues its loop without counting a
\* retry.  A datagram larger than the UDP limit always fails; any other
\* failure is transient and counted against MaxFaults.
Send ==
    /\ pc = "send"
    /\ \/ /\ size <= MaxDatagram
          /\ to_server' = Put(to_server, [seq |-> sequence_number,
                                          pkt |-> packet_number])
          /\ pc' = "recv"
          /\ UNCHANGED faults
       \/ /\ size > MaxDatagram \/ faults < MaxFaults
          /\ faults' = IF size > MaxDatagram THEN faults ELSE faults + 1
          /\ UNCHANGED <<to_server, pc>>
    /\ UNCHANGED <<size, packet_number, sequence_number, retries, to_client,
                   received, valid_for, gave_up>>

\* send_packets breaks out of its loop and returns sequence_number
\* unchanged: main() goes on to the next packet with the same bit.
GiveUp ==
    /\ gave_up' = gave_up \cup {packet_number}
    /\ NextPacket
    /\ UNCHANGED <<sequence_number, valid_for>>

\* Mutation: a retry that is not counted.
Retry_uncounted ==
    /\ pc' = "send"
    /\ UNCHANGED <<retries, packet_number, sequence_number, valid_for,
                   gave_up>>

\* Mutation: if retries > max_retries.
Retry_gt ==
    /\ retries' = retries + 1
    /\ IF retries + 1 > MaxRetries
       THEN GiveUp
       ELSE /\ pc' = "send"
            /\ UNCHANGED <<packet_number, sequence_number, valid_for, gave_up>>

\* retries += 1; at max_retries give up the packet, else send again.
Retry ==
    /\ retries' = retries + 1
    /\ IF retries + 1 >= MaxRetries
       THEN GiveUp
       ELSE /\ pc' = "send"
            /\ UNCHANGED <<packet_number, sequence_number, valid_for, gave_up>>

\* receive_response gets a datagram (the head of the queue when the
\* network keeps order; on a duplicating network a copy may stay), then
\* the rest of the loop body of send_packets: a valid ACK returns the
\* flipped bit; None (not UTF-8) and every other text count a retry.
Receive ==
    /\ pc = "recv"
    /\ \E i \in Takeable(to_client), keep \in BOOLEAN :
          LET text == received_text(to_client[i], size)
          IN  /\ to_client' = IF keep /\ ~Fifo THEN to_client
                              ELSE RemoveAt(to_client, i)
              /\ IF text # "BADUTF8" /\ validate_response(text, sequence_number)
                 THEN /\ sequence_number' = 1 - sequence_number
                      /\ valid_for' = valid_for \cup {packet_number}
                      /\ NextPacket
                      /\ UNCHANGED <<retries, gave_up>>
                 ELSE Retry
    /\ UNCHANGED <<size, to_server, faults, received>>

\* recv raises TimeoutError: no response within the timeout (the answer
\* may still be on its way).  None with should_retry: count a retry.
Timeout ==
    /\ pc = "recv"
    /\ Retry
    /\ UNCHANGED <<size, to_server, to_client, faults, received>>

\* recv raises another OSError: None without retry, send_packets breaks.
RecvError ==
    /\ pc = "recv"
    /\ faults < MaxFaults
    /\ faults' = faults + 1
    /\ GiveUp
    /\ UNCHANGED <<size, retries, to_server, to_client, received>>

----------------------------------------------------------------------------
(* The server and the network. *)

\* The server takes a datagram and answers "ACK" with its sequence bit.
ServerReply ==
    /\ \E i \in Takeable(to_server), keep \in BOOLEAN :
          LET d == to_server[i]
          IN  /\ received' = received \cup {d.pkt}
              /\ to_server' = IF keep /\ ~Fifo THEN to_server
                              ELSE RemoveAt(to_server, i)
              /\ to_client' = Put(to_client, Ack(d.seq))
    /\ UNCHANGED <<size, packet_number, sequence_number, retries, pc, faults,
                   valid_for, gave_up>>

\* A datagram is lost in either direction.
Lose ==
    /\ \/ \E i \in 1..Len(to_server) :
             /\ to_server' = RemoveAt(to_server, i)
             /\ UNCHANGED to_client
       \/ \E i \in 1..Len(to_client) :
             /\ to_client' = RemoveAt(to_client, i)
             /\ UNCHANGED to_server
    /\ UNCHANGED <<size, packet_number, sequence_number, retries, pc, faults,
                   received, valid_for, gave_up>>

\* Another sender's datagram arrives on the client's port: recv does not
\* check where a datagram comes from.
ForeignDatagram ==
    /\ faults < MaxFaults
    /\ \E r \in Foreign : to_client' = Put(to_client, r)
    /\ faults' = faults + 1
    /\ UNCHANGED <<size, packet_number, sequence_number, retries, pc,
                   to_server, received, valid_for, gave_up>>

\* main() has returned.
Finished ==
    /\ pc = "done"
    /\ UNCHANGED vars

Client == Create \/ Send \/ Receive \/ Timeout \/ RecvError

Next ==
    \/ Client
    \/ ServerReply \/ Lose \/ ForeignDatagram
    \/ Finished

\* The client is one thread running to completion: weakly fair.  The
\* network owes it nothing.
Spec == Init /\ [][Next]_vars /\ WF_vars(Client)

----------------------------------------------------------------------------
(* Properties. *)

\* Types; send_packets never waits for a response with its retry budget
\* spent.
TypeOK ==
    /\ size \in Sizes
    /\ packet_number \in 1..(Count + 1)
    /\ sequence_number \in {0, 1}
    /\ retries \in 0..MaxRetries
    /\ pc \in {"create", "send", "recv", "done"}
    /\ pc \in {"send", "recv"} => retries < MaxRetries
    /\ to_server \in Seq([seq : {0, 1}, pkt : 1..Count])
    /\ to_client \in Seq(Responses)
    /\ faults \in 0..MaxFaults
    /\ received \cup valid_for \cup gave_up \subseteq 1..Count

\* send_packets prints "Received VALID response for packet N" and moves
\* on only when the server has got a datagram of packet N: the ACK it
\* accepted is not a late answer to an earlier packet.
ValidWasReceived == valid_for \subseteq received

\* The alternating bit is sound on a network that keeps order, as long as
\* every earlier packet was acknowledged: until send_packets first gives
\* a packet up, every packet reported VALID reached the server.
ValidWasReceivedUntilGiveUp == gave_up = {} => ValidWasReceived

\* main() returns: every send_packets call ends, through a valid ACK,
\* max_retries or a receive error.
Termination == <>(pc = "done")

=============================================================================
