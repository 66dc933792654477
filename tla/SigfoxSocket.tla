---------------------------- MODULE SigfoxSocket ----------------------------
(***************************************************************************)
(* The emulated Sigfox link of src/sockets/sigfox_socket.c: datagram        *)
(* clients and the one server they know.  Of an uplink datagram only the    *)
(* sender matters; the server's application may send any buffer at any time, *)
(* each a number of its own, which goes to the client heard last.  An       *)
(* all-zero buffer is NoMessage.                                            *)
(***************************************************************************)
EXTENDS Integers, Sequences

CONSTANTS
    Clients,
    Timeouts,   \* what set_timeout is called with, in milliseconds
    MaxSeqnum,  \* bound: messages a client sends
    MaxAnswers  \* bound: buffers the server sends

VARIABLES
    client,     \* SigfoxClient of each client, with the SO_RCVTIMEO of its socket
    server,     \* SigfoxServer, and how many buffers were sent
    uplink,     \* datagrams in the server's socket, by their sender
    downlink,   \* datagrams in each client's socket
    read        \* answers sgfx_client_recv handed out

vars == <<client, server, uplink, downlink, read>>

NoMessage == 0

NoAddress == "none"

ASSUME SocketAssumption ==
    /\ Timeouts \subseteq Nat /\ MaxSeqnum \in Nat /\ MaxAnswers \in Nat
    /\ NoAddress \notin Clients

\* Both set_timeout functions: the fraction of a second is cut to an int before
\* it is scaled.
timeval(timeout) ==
    [tv_sec  |-> timeout \div 1000,
     tv_usec |-> 1000 * ((timeout % 1000) \div 1000)]

\* A zero timeval is no timeout at all.
Blocks(tv) == tv.tv_sec = 0 /\ tv.tv_usec = 0

\* sgfx_client_start, sgfx_server_start.
Init ==
    /\ client = [c \in Clients |->
                    [expects_ack |-> FALSE, seqnum |-> 0, timeout |-> 60000,
                     rcvtimeo |-> timeval(60000), buffer |-> NoMessage,
                     waiting |-> FALSE]]
    /\ server = [cli_addr |-> NoAddress, sent |-> 0]
    /\ uplink = <<>> /\ downlink = [c \in Clients |-> <<>>]
    /\ read = [c \in Clients |-> {}]

-----------------------------------------------------------------------------
(* The client.                                                              *)

Free(c) == ~client[c].waiting

sgfx_client_set_reception(c, flag) ==
    /\ Free(c)
    /\ client' = [client EXCEPT ![c].expects_ack = flag]
    /\ UNCHANGED <<server, uplink, downlink, read>>

sgfx_client_set_timeout(c, timeout) ==
    /\ Free(c)
    /\ client' = [client EXCEPT ![c].timeout = timeout,
                                ![c].rcvtimeo = timeval(timeout)]
    /\ UNCHANGED <<server, uplink, downlink, read>>

\* Up to the recvfrom, which is entered even when sendto has failed.
Sendto(c, sent) ==
    /\ Free(c) /\ client[c].seqnum < MaxSeqnum
    /\ client' = [client EXCEPT
           ![c].seqnum  = @ + 1,
           ![c].waiting = client[c].expects_ack,
           ![c].buffer  = IF client[c].expects_ack THEN NoMessage ELSE @]
    /\ uplink' = IF sent THEN Append(uplink, c) ELSE uplink
    /\ UNCHANGED <<server, downlink, read>>

RecvfromReturns(c) ==
    /\ client[c].waiting /\ downlink[c] # <<>>
    /\ client' = [client EXCEPT ![c].waiting = FALSE,
                                ![c].buffer = Head(downlink[c])]
    /\ downlink' = [downlink EXCEPT ![c] = Tail(@)]
    /\ UNCHANGED <<server, uplink, read>>

RecvfromExpires(c) ==
    /\ client[c].waiting /\ downlink[c] = <<>>
    /\ ~Blocks(client[c].rcvtimeo)
    /\ client' = [client EXCEPT ![c].waiting = FALSE]
    /\ UNCHANGED <<server, uplink, downlink, read>>

\* Mutant: the buffer is not cleared once it was read.
sgfx_client_recv_keep(c) ==
    /\ Free(c) /\ client[c].buffer # NoMessage
    /\ read' = [read EXCEPT ![c] = @ \cup {client[c].buffer}]
    /\ UNCHANGED <<client, server, uplink, downlink>>

sgfx_client_recv(c) ==
    /\ Free(c) /\ client[c].buffer # NoMessage
    /\ read' = [read EXCEPT ![c] = @ \cup {client[c].buffer}]
    /\ client' = [client EXCEPT ![c].buffer = NoMessage]
    /\ UNCHANGED <<server, uplink, downlink>>

-----------------------------------------------------------------------------
(* The server and the network between them.                                 *)

\* One that expires leaves the address as it was, and everything else.
sgfx_server_recv ==
    /\ uplink # <<>>
    /\ server' = [server EXCEPT !.cli_addr = Head(uplink)]
    /\ uplink' = Tail(uplink)
    /\ UNCHANGED <<client, downlink, read>>

\* Before the first sgfx_server_recv the address is no client's.
sgfx_server_send(zeros) ==
    /\ server.cli_addr # NoAddress /\ server.sent < MaxAnswers
    /\ server' = [server EXCEPT !.sent = @ + 1]
    /\ downlink' = [downlink EXCEPT ![server.cli_addr] =
                       Append(@, IF zeros THEN NoMessage ELSE server.sent + 1)]
    /\ UNCHANGED <<client, uplink, read>>

LoseUplink ==
    /\ uplink # <<>>
    /\ uplink' = Tail(uplink)
    /\ UNCHANGED <<client, server, downlink, read>>

LoseDownlink(c) ==
    /\ downlink[c] # <<>>
    /\ downlink' = [downlink EXCEPT ![c] = Tail(@)]
    /\ UNCHANGED <<client, server, uplink, read>>

Wait(c) == RecvfromReturns(c) \/ RecvfromExpires(c)

Next ==
    \/ \E c \in Clients :
          \/ \E flag \in BOOLEAN : sgfx_client_set_reception(c, flag)
          \/ \E t \in Timeouts : sgfx_client_set_timeout(c, t)
          \/ \E sent \in BOOLEAN : Sendto(c, sent)
          \/ Wait(c) \/ sgfx_client_recv(c) \/ LoseDownlink(c)
    \/ sgfx_server_recv \/ LoseUplink
    \/ \E zeros \in BOOLEAN : sgfx_server_send(zeros)

Spec == Init /\ [][Next]_vars

-----------------------------------------------------------------------------
(* Properties.                                                              *)

\* What client c may still be handed.
Answers(c) ==
    ({client[c].buffer} \cup {downlink[c][k] : k \in DOMAIN downlink[c]})
    \ {NoMessage}

\* An answer is handed out once: neither a later sgfx_client_recv without a
\* request nor one after an expired request finds it again, however many answers
\* the server has sent in the meantime, and to whom.
ReadOnce == \A c \in Clients : Answers(c) \cap read[c] = {}
=============================================================================
