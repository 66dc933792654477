--------------------------- MODULE PacketTransfer ---------------------------
(***************************************************************************)
(* What a SCHC transfer promises: the fragments of one packet reach the     *)
(* receiver in any order, and the sender ends with one outcome, which is    *)
(* SCHC_COMPLETED only when the receiver has the whole packet.              *)
(***************************************************************************)
CONSTANT Packet     \* the fragments of the packet

VARIABLES delivered, outcome

vars == <<delivered, outcome>>

Init == delivered = {} /\ outcome = "none"

Deliver(f) ==
    /\ delivered' = delivered \cup {f}
    /\ UNCHANGED outcome

Complete ==
    /\ outcome = "none"
    /\ delivered = Packet
    /\ outcome' = "SCHC_COMPLETED"
    /\ UNCHANGED delivered

GiveUp ==
    /\ outcome = "none"
    /\ outcome' \in {"SCHC_SENDER_ABORTED", "SCHC_RECEIVER_ABORTED", "error"}
    /\ UNCHANGED delivered

Next == Complete \/ GiveUp \/ \E f \in Packet : Deliver(f)

Spec == Init /\ [][Next]_vars
=============================================================================
