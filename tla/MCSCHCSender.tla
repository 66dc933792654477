---------------------------- MODULE MCSCHCSender ----------------------------
(***************************************************************************)
(* Small instances of SCHCSender for TLC.                                   *)
(***************************************************************************)
EXTENDS SCHCSender

\* Every ACK that reports windows up to w, truthful or not.
LossAcksUpTo(w) ==
    {LossAck(bitmaps) : bitmaps \in
        UNION {[ws -> SUBSET Positions] : ws \in (SUBSET (0..w)) \ {{}}}}

CompleteAcksUpTo(w) == {CompleteAck(x) : x \in 0..w}

\* Any ACK about windows the packet has, as generate_ack lays it out.
PacketAcks ==
    LossAcksUpTo(LastWindow) \cup CompleteAcksUpTo(LastWindow) \cup {ReceiverAbort}

\* And those about windows behind it, which report whole windows.
AscendingAcks ==
    PacketAcks \cup CompleteAcksUpTo(MaxWindowNb - 1)
        \cup {LossAck([w \in ws |-> {}]) :
                  ws \in (SUBSET (0..(MaxWindowNb - 1))) \ {{}}}

\* Messages of the format with up to n of the given tuples, in any order and of
\* windows that may repeat.
Reports(tuples, n) ==
    {[kind |-> "loss", tuples |-> seq] :
        seq \in UNION {[1..k -> tuples] : k \in 1..n}}

\* Any two tuples, or any three that report whole windows lost.
AnyAcks ==
    Reports(Tuples, 2) \cup Reports([window : Windows, bitmap : {{}}], 3)
        \cup CompleteAcksUpTo(MaxWindowNb - 1) \cup {ReceiverAbort}
=============================================================================
