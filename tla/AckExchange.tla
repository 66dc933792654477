---------------------------- MODULE AckExchange ----------------------------
(***************************************************************************)
(* A receiver writes an ACK about the windows of a session and the sender   *)
(* reads it with the functions update_queues() uses: ack.c seen from both   *)
(* ends of the downlink.                                                    *)
(***************************************************************************)
EXTENDS CompoundACK

CONSTANTS
    Headers,        \* the Rule IDs, as bits
    BitmapsOf(_)    \* the bitmaps a window of a Rule may have, blank or not

\* A bitmap is left blank or fills its window.
ASSUME HeadersAreRuleIds == \A bits \in Headers : init_rule(bits) \in Rules
ASSUME BitmapsFillWindows ==
    \A r \in Rules : \A bitmap \in BitmapsOf(r) :
        bitmap = <<>> \/ bitmap \in [1..r.window_size -> Bits]

VARIABLES
    rule,
    bitmaps,    \* what session_check_bitmaps filled in, by window
    wdw,        \* the window the ACK is about
    ack,
    tuples,     \* what the sender read
    pc

vars == <<rule, bitmaps, wdw, ack, tuples, pc>>

Init ==
    /\ rule \in {init_rule(bits) : bits \in Headers}
    /\ wdw \in 0..rule.max_window_nb - 1
    /\ bitmaps \in [0..wdw -> BitmapsOf(rule)]
    /\ ack = NULL_ACK /\ tuples = <<>>
    /\ pc = "new"

Refuse(c) ==
    /\ pc = "new" /\ generate_ack_refuses(c, wdw, bitmaps)
    /\ pc' = "refused"
    /\ UNCHANGED <<rule, bitmaps, wdw, ack, tuples>>

GenerateAck(c) ==
    /\ pc = "new" /\ ~generate_ack_refuses(c, wdw, bitmaps)
    /\ ack' = generate_ack(rule, wdw, c, bitmaps)
    /\ pc' = IF c = 1 THEN "complete" ELSE "losses"
    /\ UNCHANGED <<rule, bitmaps, wdw, tuples>>

GenerateReceiverAbort ==
    /\ pc = "new"
    /\ ack' = generate_receiver_abort(rule)
    /\ pc' = "aborted"
    /\ UNCHANGED <<rule, bitmaps, wdw, tuples>>

Parse ==
    /\ \/ pc = "complete" /\ pc' = "complete read"
       \/ pc = "losses" /\ pc' = "losses read"
       \/ pc = "aborted" /\ pc' = "aborted read"
    /\ tuples' = IF is_ack_receiver_abort(rule, ack) \/ is_ack_complete(rule, ack)
                 THEN <<>>
                 ELSE get_ack_tuples(rule, ack, get_ack_nb_tuples(rule, ack))
    /\ UNCHANGED <<rule, bitmaps, wdw, ack>>

Done ==
    /\ pc \in {"refused", "complete read", "losses read", "aborted read"}
    /\ UNCHANGED vars

Next == (\E c \in Bits : Refuse(c) \/ GenerateAck(c)) \/ GenerateReceiverAbort
        \/ Parse \/ Done

Spec == Init /\ [][Next]_vars
-----------------------------------------------------------------------------
(* Properties.                                                              *)

Lost == lost_windows(wdw, bitmaps)

Kinds(a) == {kind \in {"aborted", "complete"} :
                \/ kind = "aborted" /\ is_ack_receiver_abort(rule, a)
                \/ kind = "complete" /\ is_ack_complete(rule, a)}

\* However the losses fall, the sender tells a Receiver-Abort, a complete ACK
\* and a report of losses apart: ones in a bitmap are never taken for the
\* padding of an abort, nor an abort for the end of the packet.
KindReadBack ==
    /\ pc = "aborted" => Kinds(ack) = {"aborted"} /\ ~is_ack_compound(rule, ack)
    /\ pc = "complete" => Kinds(ack) = {"complete"} /\ ~is_ack_compound(rule, ack)
    /\ pc = "losses" => Kinds(ack) = {}

\* What the sender reads are windows that lost something, the first ones first,
\* each once and with its own bitmap: no bit of one tuple gets into another and
\* no zeros after the last tuple are read as one.
TuplesReadBack ==
    pc = "losses read" /\ Lost # <<>> =>
        /\ Len(tuples) <= Len(Lost)
        /\ \A k \in 1..Len(tuples) :
               tuples[k] = [window |-> Lost[k], bitmap |-> bitmaps[Lost[k]]]

\* Windows whose tuples generate_ack put into the message.
NbWritten == IF Len(Lost) <= tuple_capacity(rule) THEN Len(Lost)
                                                  ELSE tuple_capacity(rule)

EveryTupleRead ==
    pc = "losses read" /\ Lost # <<>> => Len(tuples) = NbWritten

\* The sender learns of every loss the receiver wrote.  Not what ack.h:93 says,
\* that get_ack_nb_tuples "Obtains the number of (window, bitmap) tuples present in
\* the ACK": under the double-byte Rule without options, with losses in each of its
\* four windows, four tuples are present and the last one is not counted.
TuplesReadExceptFourth ==
    ~(rule.rule_id_size = 6 /\ Len(Lost) = 4) => EveryTupleRead

\* The Rule ID of an ACK tells the Rule, for the formats whose id does not
\* depend on the end of the message.
RuleFromAck ==
    pc # "new" /\ pc # "refused" /\ rule.rule_id_size < 8 =>
        init_rule_from_ack(ack) = rule
=============================================================================
