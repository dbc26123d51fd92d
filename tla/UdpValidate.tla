----------------------------- MODULE UdpValidate -----------------------------
(***************************************************************************)
(* The UDP pair of ZAD1: the client of Programowanie_Sieciowe/ZAD1 sends  *)
(* one datagram per --sizes entry (create_datagram: a two-byte big-endian *)
(* count n of pairs, then n pairs of a letter and a two-byte number) and   *)
(* waits one timeout for the answer; the server of PSI/ZAD1 answers every *)
(* datagram with "VALID" or "INVALID" (validate).  The network loses,     *)
(* delays past the timeout and reorders datagrams; other hosts send       *)
(* datagrams to the server and to the client.                              *)
(*                                                                         *)
(* A datagram is its length, its first two bytes (validate reads no       *)
(* other) and its sender.  The letters and numbers of the pairs are never  *)
(* read by validate and are left out.                                      *)
(***************************************************************************)
EXTENDS Integers, Sequences, SequencesExt

CONSTANTS
    Sizes,            \* args.sizes, a sequence
    ForeignDatagrams, \* what other hosts send the server: [len, hdr]
    MaxFaults,        \* bound on foreign datagrams in a run
    MaxQueue          \* datagrams in flight in one direction

ASSUME MaxQueue \in Nat \ {0} /\ MaxFaults \in Nat

\* The largest UDP payload of an AF_INET datagram (65535 - 20 - 8): sendto
\* raises OSError (EMSGSIZE) above it.
MaxDatagram == 65507

VARIABLES
    pc,        \* the client: "create" (top of the for loop), "recv", "done"
    idx,       \* the index of the current size in Sizes
    to_server, \* datagrams in flight to the server: [len, hdr, src]
    to_client, \* answers in flight to the client
    faults,    \* foreign datagrams so far
    verdicts   \* ghost: [d, answer] for every datagram the server validated

vars == <<pc, idx, to_server, to_client, faults, verdicts>>

----------------------------------------------------------------------------
\* Mutation: num_pairs.to_bytes(2, byteorder="little").
Header_little(n) == <<n % 256, n \div 256>>

\* num_pairs.to_bytes(2, byteorder="big").
Header(n) == <<n \div 256, n % 256>>

\* create_datagram: the error it raises ("none" if it returns) and the
\* datagram it builds.
Raises(e) == [err |-> e, len |-> 0, hdr |-> <<0, 0>>]

create_datagram(size) ==
    CASE size < 2               -> Raises("ValueError")
      [] size > 65535           -> Raises("OverflowError")
      [] (size - 2) % 3 # 0     -> Raises("ValueError")
      [] OTHER                  -> [err |-> "none",
                                    len |-> 2 + 3 * ((size - 2) \div 3),
                                    hdr |-> Header((size - 2) \div 3)]

\* Mutation: the expected-size check is left out.
validate_nocount(d) == d.len >= 2 /\ (d.len - 2) % 3 = 0

\* validate: at least two bytes, of the form 2 + 3n, and the count
\* int.from_bytes(data[0:2], "big") matching the size.
validate(d) ==
    /\ d.len >= 2
    /\ (d.len - 2) % 3 = 0
    /\ d.len = 2 + (d.hdr[1] * 256 + d.hdr[2]) * 3

\* A queue that is full drops what is put on it.
Put(q, m) == IF Len(q) < MaxQueue THEN Append(q, m) ELSE q

Init ==
    /\ pc = "create"
    /\ idx = 1
    /\ to_server = <<>>
    /\ to_client = <<>>
    /\ faults = 0
    /\ verdicts = {}

----------------------------------------------------------------------------
(* The client. *)

\* Mutation: a failed sendto is tried again, as ZAD1_3 does.
SendFailed_retry == UNCHANGED <<pc, idx>>

\* A failed sendto: print, continue with the next size.
SendFailed == idx' = idx + 1 /\ UNCHANGED pc

\* One iteration of the for loop up to sock.recv: the loop ends after the
\* last size; a size create_datagram refuses is skipped; sendto fails
\* above the UDP limit (continue); else the datagram is sent.
Create ==
    /\ pc = "create"
    /\ IF idx > Len(Sizes) THEN pc' = "done" /\ UNCHANGED <<idx, to_server>>
       ELSE LET dg == create_datagram(Sizes[idx])
            IN  CASE dg.err # "none" ->
                       idx' = idx + 1 /\ UNCHANGED <<pc, to_server>>
                  [] dg.len > MaxDatagram -> SendFailed /\ UNCHANGED to_server
                  [] OTHER -> /\ to_server' = Put(to_server, [len |-> dg.len, hdr |-> dg.hdr, src |-> "client"])
                              /\ pc' = "recv"
                              /\ UNCHANGED idx
    /\ UNCHANGED <<to_client, faults, verdicts>>

\* sock.recv returns an answer (any one in flight: UDP does not keep
\* order); VALID, INVALID or another text is printed for the current
\* size, whichever datagram it answers.
Recv ==
    /\ pc = "recv"
    /\ \E i \in 1..Len(to_client) : to_client' = RemoveAt(to_client, i)
    /\ pc' = "create" /\ idx' = idx + 1
    /\ UNCHANGED <<to_server, faults, verdicts>>

\* TimeoutError (or another OSError): printed, next size.  The answer may
\* still be on its way.
Timeout ==
    /\ pc = "recv"
    /\ pc' = "create" /\ idx' = idx + 1
    /\ UNCHANGED <<to_server, to_client, faults, verdicts>>

----------------------------------------------------------------------------
(* The server, the network and the other hosts. *)

\* recvfrom takes any datagram in flight, validate decides, sendto answers
\* the sender (another host's answer leaves the model).
Serve ==
    /\ \E i \in 1..Len(to_server) :
          LET d == to_server[i]
              answer == IF validate(d) THEN "VALID" ELSE "INVALID"
          IN  /\ to_server' = RemoveAt(to_server, i)
              /\ verdicts' = verdicts \cup {[d |-> [len |-> d.len, hdr |-> d.hdr],
                                            answer |-> answer]}
              /\ to_client' = IF d.src = "client" THEN Put(to_client, answer)
                              ELSE to_client
    /\ UNCHANGED <<pc, idx, faults>>

\* A datagram is lost in either direction.
Lose ==
    /\ \/ \E i \in 1..Len(to_server) :
             to_server' = RemoveAt(to_server, i) /\ UNCHANGED to_client
       \/ \E i \in 1..Len(to_client) :
             to_client' = RemoveAt(to_client, i) /\ UNCHANGED to_server
    /\ UNCHANGED <<pc, idx, faults, verdicts>>

\* Another host sends the server a datagram, or the client a text.
Foreign ==
    /\ faults < MaxFaults
    /\ faults' = faults + 1
    /\ \/ \E d \in ForeignDatagrams :
             to_server' = Put(to_server, [len |-> d.len, hdr |-> d.hdr, src |-> "other"])
             /\ UNCHANGED to_client
       \/ to_client' = Put(to_client, "OTHER") /\ UNCHANGED to_server
    /\ UNCHANGED <<pc, idx, verdicts>>

\* main() has returned.
Finished ==
    /\ pc = "done"
    /\ UNCHANGED vars

Client == Create \/ Recv \/ Timeout

Next == Client \/ Serve \/ Lose \/ Foreign \/ Finished

\* The client is one thread running to completion, and its recv always
\* ends (timeout 1.0): weakly fair.  The network and the server owe it
\* nothing.
Spec == Init /\ [][Next]_vars /\ WF_vars(Client)

----------------------------------------------------------------------------
(* Properties. *)

TypeOK ==
    /\ pc \in {"create", "recv", "done"}
    /\ idx \in 1..(Len(Sizes) + 1)
    /\ to_server \in Seq([len : Nat, hdr : (0..255) \X (0..255), src : {"client", "other"}])
    /\ to_client \in Seq({"VALID", "INVALID", "OTHER"})
    /\ faults \in 0..MaxFaults

\* The server's validate and the client's create_datagram agree on the
\* format: the server answers VALID exactly to the datagrams
\* create_datagram builds for their length, whoever sent them, so every
\* datagram of the client is VALID and a wrong count, a wrong size or a
\* byte-order mismatch is INVALID.
ServerAcceptsClientFormat ==
    \A v \in verdicts :
        (v.answer = "VALID") <=>
            LET dg == create_datagram(v.d.len)
            IN  dg.err = "none" /\ dg.len = v.d.len /\ dg.hdr = v.d.hdr

\* main() returns whatever the network does: every size ends with an
\* answer, a timeout, a skip or a failed sendto.
ClientTerminates == <>(pc = "done")

=============================================================================
