---------------------------- MODULE SCHCTransfer ----------------------------
(***************************************************************************)
(* The sender of SCHCSender, the datagram channel of sigfox_socket.c in     *)
(* both directions, and a receiver that answers truthfully.  The receiver   *)
(* is outside src/ (RECEIVER_URL; src/entities/schc_receiver.c is empty): it *)
(* is modelled from what the sender expects of it.                          *)
(*                                                                         *)
(* Whatever a network may do to the transfer costs one of MaxFaults faults: *)
(* a fragment or an answer lost (on the way, or by the loss rates of        *)
(* config/schc.c), an answer still in flight when recvfrom gives up (it is  *)
(* then read as the answer to a later request), a failed sendto.            *)
(***************************************************************************)
EXTENDS SCHCSender

CONSTANTS
    MaxFaults,
    MayReceiverAbort    \* the receiver may answer with a Receiver-Abort

VARIABLES
    uplink,     \* datagrams on their way to the receiver
    downlink,   \* answers on their way to, or unread in, the sender's socket
    received,   \* fragments the receiver has
    peer,       \* the receiver: "open", "aborted" or, by its own, "gave_up"
    faults

net  == <<uplink, downlink, received, peer, faults>>
tvars == <<vars, net>>

ASSUME TransferAssumption ==
    MaxFaults \in Nat /\ MayReceiverAbort \in BOOLEAN

-----------------------------------------------------------------------------
(* The receiver.                                                            *)

\* The bit of fragment i in the bitmap of its window; the All-1 has the last.
bit(i) == IF i = All1 THEN WindowSize - 1 ELSE i % WindowSize

bitmap_of(w, has) == {bit(i) : i \in {f \in has : window_id(f) = w}}

has_losses(w, has) ==
    \E i \in Fragments \ has : window_id(i) = w

\* The answer to a request about the windows up to w.
answer(w, has) ==
    LET lost == {v \in 0..w : has_losses(v, has)}
    IN  IF lost = {} THEN CompleteAck(w)
                     ELSE LossAck([v \in lost |-> bitmap_of(v, has)])

\* What such a receiver may say; a Receiver-Abort is its to send.
TruthfulAcks ==
    {answer(w, has) : w \in 0..LastWindow, has \in SUBSET Fragments}
    \cup {ReceiverAbort}

ASSUME AcksAreTruthful == Acks = TruthfulAcks

Receiver ==
    /\ uplink # <<>>
    /\ uplink' = Tail(uplink)
    /\ UNCHANGED <<vars, faults>>
    /\ LET m   == Head(uplink)
           has == received \cup {m}
           ack == answer(window_id(m), has)
       IN  \/ /\ m = SENDER_ABORT \/ peer # "open"
              /\ peer' = IF peer = "open" THEN "aborted" ELSE peer
              /\ UNCHANGED <<downlink, received>>
           \/ /\ m # SENDER_ABORT /\ peer = "open"
              /\ received' = has
              /\ \/ m = All1 /\ downlink' = Append(downlink, ack)
                 \/ m # All1 /\ UNCHANGED downlink
                 \/ /\ m # All1 /\ frag_idx(m) = 0
                    /\ ack.kind = "loss"
                    /\ downlink' = Append(downlink, ack)
              /\ UNCHANGED peer
           \/ /\ MayReceiverAbort
              /\ m = All1 /\ peer = "open"
              /\ peer' = "gave_up"
              /\ received' = has
              /\ downlink' = Append(downlink, ReceiverAbort)

-----------------------------------------------------------------------------
(* The sender on the channel.                                               *)

Fault == faults < MaxFaults /\ faults' = faults + 1

\* The datagram is a copy of what the cell holds when sendto is called.
content(p) == IF p \in aborts THEN SENDER_ABORT ELSE p

Transmit ==
    /\ \/ uplink' = Append(uplink, content(frg)) /\ UNCHANGED faults
       \/ Fault /\ UNCHANGED uplink
    /\ UNCHANGED <<downlink, received, peer>>

Local == Loop /\ UNCHANGED net

TransmitPlain   == SendPlain /\ Transmit
TransmitRequest == SendRequest /\ Transmit

LoseOnSend ==
    /\ SendPlainFails \/ SendRequestFails \/ LoseRequest
    /\ Fault
    /\ UNCHANGED <<uplink, downlink, received, peer>>

ReadAnswer ==
    /\ downlink # <<>>
    /\ \/ Answer(Head(downlink)) \/ AnswerUnsent(Head(downlink))
    /\ downlink' = Tail(downlink)
    /\ UNCHANGED <<uplink, received, peer, faults>>

LoseOnRead ==
    /\ downlink # <<>>
    /\ LoseAnswer
    /\ Fault
    /\ downlink' = Tail(downlink)
    /\ UNCHANGED <<uplink, received, peer>>

LoseAnswerOnTheWay ==
    /\ downlink # <<>>
    /\ Fault
    /\ downlink' = Tail(downlink)
    /\ UNCHANGED <<vars, uplink, received, peer>>

\* recvfrom gives up: no answer is to come, or it comes too late.
TimeOut ==
    /\ Expire \/ ExpireUnsent
    /\ IF uplink = <<>> /\ downlink = <<>> THEN UNCHANGED faults ELSE Fault
    /\ UNCHANGED <<uplink, downlink, received, peer>>

TransferInit ==
    /\ Init
    /\ uplink = <<>> /\ downlink = <<>> /\ received = {}
    /\ peer = "open" /\ faults = 0

Sender == Local \/ TransmitPlain \/ TransmitRequest \/ LoseOnSend
          \/ ReadAnswer \/ LoseOnRead \/ TimeOut

TransferNext ==
    \/ Sender \/ Receiver \/ LoseAnswerOnTheWay
    \/ Terminated /\ uplink = <<>> /\ UNCHANGED net

TransferSpec == TransferInit /\ [][TransferNext]_tvars

\* The sender's thread and the receiver's keep running.  No fairness is asked
\* of the losses; a sender step without a fault is enabled until it returns.
FairTransferSpec ==
    TransferSpec /\ WF_tvars(Sender) /\ WF_tvars(Receiver)

-----------------------------------------------------------------------------
(* Properties.                                                              *)

\* The transfer as its user sees it: what the receiver has, how it ended.
Service == INSTANCE PacketTransfer WITH
    Packet <- Fragments, delivered <- received, outcome <- result

\* SCHC_COMPLETED is returned only when the receiver has every fragment, with
\* answers lost, late, or read in the place of another; the outcome is final,
\* and sender_start never falls out of its loop without one.
ImplementsService == Service!Spec

\* A truthful receiver is never found to contradict itself ("Compound ACK
\* reported no missing Fragment", line 109), not even by a late answer that
\* describes losses already repaired.
NoContradiction == SENDER_ABORT \notin aborts

\* The sender gives up only on a network that failed it, or on a receiver that
\* gave up: a Sender-Abort takes MAX_ACK_REQUESTS requests that each lost their
\* answer (schc_sender.h:127: "If a response is obtained, it is parsed as a
\* CompoundACK").
AbortNeedsFaults ==
    result = "SCHC_SENDER_ABORTED" =>
        faults >= MaxAckRequests \/ peer = "gave_up"

\* Every transfer ends: sender_start returns, or runs into the stale flag that
\* RtNamesQueue is about; it never waits or resends forever, even when the
\* receiver has given up and its Receiver-Abort was lost.
TransferEnds == <>(pc \in {"returned", "crashed"})

\* With fewer faults than MAX_ACK_REQUESTS the packet is delivered and the sender
\* knows it, unless the receiver gives up or a refused sendto ends sender_start
\* (with "error", or by the stale flag RtNamesQueue is about).
EventuallyCompleted ==
    [](/\ faults < MaxAckRequests
       /\ peer # "gave_up"
       /\ result # "error" /\ pc # "crashed") => <>(result = "SCHC_COMPLETED")
=============================================================================
