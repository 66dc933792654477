----------------------------- MODULE Reassembly -----------------------------
(***************************************************************************)
(* A packet is fragmented, its Fragments get to the array of a receiver in  *)
(* any order, some of them not at all, and the array is reassembled.        *)
(***************************************************************************)
EXTENDS FRProcedure

CONSTANTS
    Headers,    \* the Rule IDs, as bits
    Sizes,      \* byte sizes of packets
    MaxHoles,   \* bound: Fragments of a packet that one stored may overtake
    Leftovers   \* ints that may be in the place of a result never returned

ASSUME ReassemblyAssumption ==
    /\ \A bits \in Headers : init_rule(bits) \in Rules
    /\ Sizes \subseteq Nat /\ MaxHoles \in [Sizes -> Nat]
    /\ Leftovers \subseteq Int /\ Leftovers # {}

VARIABLES
    rule, byte_size,
    fragments,  \* what fragment() made of the packet
    received,   \* the null-terminated array of the receiver
    length,     \* what get_packet_length_from_array returned
    packet,     \* what reassemble() wrote
    pc

vars == <<rule, byte_size, fragments, received, length, packet, pc>>

Packet == "packet"

Init ==
    /\ rule \in {init_rule(bits) : bits \in Headers}
    /\ byte_size \in Sizes
    /\ fragments = <<>>
    /\ received = [i \in 0..rule.max_fragment_nb |-> NULL_FRG]
    /\ length = 0 /\ packet = <<>>
    /\ pc = "new"

Refuse ==
    /\ pc = "new" /\ fragment_refuses(rule, byte_size)
    /\ pc' = "refused"
    /\ UNCHANGED <<rule, byte_size, fragments, received, length, packet>>

Fragmentation ==
    /\ pc = "new" /\ ~fragment_refuses(rule, byte_size)
    /\ fragments' = fragment(rule, Packet, byte_size)
    /\ pc' = "fragmented"
    /\ UNCHANGED <<rule, byte_size, received, length, packet>>

Holes(i) == {k \in 0..i - 1 : is_frg_null(received[k])}

\* The receiver stores a Fragment where its header says.
Store(i) ==
    /\ pc = "fragmented"
    /\ is_frg_null(received[i])
    /\ Cardinality(Holes(i)) <= MaxHoles[byte_size]
    /\ received' = [received EXCEPT ![get_frg_nb(rule, fragments[i])] = fragments[i]]
    /\ UNCHANGED <<rule, byte_size, fragments, length, packet, pc>>

Reassemble ==
    /\ pc = "fragmented"
    /\ \E leftover \in Leftovers :
           length' = get_packet_length_from_array(rule, received, leftover)
    /\ packet' = reassemble(rule, received)
    /\ pc' = "reassembled"
    /\ UNCHANGED <<rule, byte_size, fragments, received>>

Terminated ==
    /\ pc \in {"refused", "reassembled"}
    /\ UNCHANGED vars

Next == Refuse \/ Fragmentation \/ (\E i \in DOMAIN fragments : Store(i))
        \/ Reassemble \/ Terminated

Spec == Init /\ [][Next]_vars
-----------------------------------------------------------------------------
(* Properties.                                                              *)

LastNb == get_nb_fragments(rule, byte_size) - 1

\* No generate_frg fails, whose result fragment() ignores (fr_procedure.c:59),
\* and the Fragments fit in the array of windows of the Rule.
FragmentsFit ==
    pc # "new" /\ pc # "refused" =>
        /\ DOMAIN fragments = 0..LastNb
        /\ LastNb < rule.max_fragment_nb
        /\ \A i \in 0..LastNb : fragments[i].byte_size \in 1..UPLINK_MTU_BYTES

\* The fields, cut to their widths, give back the position of a Fragment and
\* what kind of Fragment it is: get_frg_nb and the predicates of fragment.c
\* recover what fragment() knew, however long the packet is.
FragmentsRecognised ==
    \A i \in DOMAIN fragments :
        /\ get_frg_nb(rule, fragments[i]) = i
        /\ is_frg_all_1(rule, fragments[i]) <=> i = LastNb
        /\ is_frg_all_0(fragments[i]) <=>
               i # LastNb /\ (i + 1) % rule.window_size = 0
        /\ ~is_frg_sender_abort(rule, fragments[i])

\* The first byte of any Fragment tells the receiver the sender's Rule; so does
\* init_rule_from_frg, which passes the whole message, for the formats whose id
\* does not depend on the end of the message.
RuleRecognised ==
    \A i \in DOMAIN fragments :
        /\ parse_rule_from_bytes(first_byte(rule, fragments[i])) = rule
        /\ rule.rule_id_size < 8 =>
               \A low \in {<<0, 0>>, <<0, 1>>, <<1, 0>>, <<1, 1>>} :
                   init_rule_from_frg(rule, fragments[i], low) = rule

\* What is reassembled is a prefix of the packet, each byte in its place and no
\* byte past the end, whichever Fragments are missing; and the whole of it when
\* none is.
PacketRestored ==
    pc = "reassembled" =>
        /\ \A i \in DOMAIN packet :
               /\ packet[i].payload.from = packet[i].to
               /\ packet[i].to + packet[i].payload.size <= byte_size
               /\ i # LastNb => packet[i].payload.size = regular_payload_byte_size(rule)
        /\ (\A i \in 0..LastNb : ~is_frg_null(received[i])) =>
               /\ DOMAIN packet = 0..LastNb
               /\ packet[LastNb].to + packet[LastNb].payload.size = byte_size

\* The length of a packet that is there as a whole is exactly its size, which is
\* also where the last write of reassemble() ends.  fr_procedure.h:45-46 promises
\* a length for any array that a null Fragment ends; when it ends one before the
\* All-1 there is no such length to state, as the result is any of Leftovers.
LengthIsPacketSize ==
    pc = "reassembled" /\ (\A i \in 0..LastNb : ~is_frg_null(received[i])) =>
        /\ length = byte_size
        /\ length = packet[LastNb].to + packet[LastNb].payload.size
=============================================================================
