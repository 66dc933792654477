-------------------------------- MODULE Rule --------------------------------
(***************************************************************************)
(* The SCHC/Sigfox Rules of src/entities/rule.c: what the first bits of a   *)
(* message say about the sizes of its fields.  Bit strings are sequences    *)
(* of 0 and 1.                                                              *)
(***************************************************************************)
EXTENDS Integers, Sequences

L2_WORD_SIZE      == 8
UPLINK_MTU_BYTES  == 12
UPLINK_MTU_BITS   == 96
DOWNLINK_MTU_BITS == 64

Bits     == {0, 1}
Ones(n)  == [k \in 1..n |-> 1]
Zeros(n) == [k \in 1..n |-> 0]

-----------------------------------------------------------------------------
(* Conversions of src/utils.                                                *)

bin_to_int(bits) ==
    LET value[k \in 0..Len(bits)] ==
            IF k = 0 THEN 0 ELSE 2 * value[k - 1] + bits[k]
    IN  value[Len(bits)]

\* The dest_size low bits of src: an integer too large is cut, not refused.
int_to_bin(src, dest_size) ==
    [k \in 1..dest_size |-> (src \div 2^(dest_size - k)) % 2]

\* The empty string is not made of any character.
is_monochar(bits, c) == bits # <<>> /\ \A k \in DOMAIN bits : bits[k] = c

round_to_next_multiple(n, factor) == ((n + factor - 1) \div factor) * factor

-----------------------------------------------------------------------------
(* A Rule.  The DTag field is empty in every format (t is 0).               *)

RuleOf(id, rule_id_size, m, n, window_size, u, max_schc_packet_byte_size) ==
    LET header      == rule_id_size + m + n
        header_len  == round_to_next_multiple(header, L2_WORD_SIZE)
        all1_len    == round_to_next_multiple(header + u, L2_WORD_SIZE)
        ack_header  == rule_id_size + m + 1
    IN  [id                        |-> id,
         rule_id_size              |-> rule_id_size,
         m                         |-> m,
         n                         |-> n,
         u                         |-> u,
         window_size               |-> window_size,
         header_len                |-> header_len,
         all1_header_len           |-> all1_len,
         ack_header_len            |-> ack_header,
         max_window_nb             |-> 2^m,
         max_fragment_nb           |-> 2^m * window_size,
         regular_payload_len       |-> UPLINK_MTU_BITS - header_len,
         max_schc_packet_byte_size |-> max_schc_packet_byte_size,
         rcs_idx                   |-> header,
         tuple_idx                 |-> ack_header + window_size]

SingleByteRule(id)    == RuleOf(id, 3, 2, 3, 7, 3, 300)
DoubleByteOp1Rule(id) == RuleOf(id, 6, 2, 4, 12, 4, 480)
DoubleByteOp2Rule(id) == RuleOf(id, 8, 3, 5, 31, 5, 2400)

\* bin_to_int(bits) & 3 when bits begins with 1: strtol saturates from 64 bits
\* on, at a value whose low bits are 1.
low_two_bits(bits) ==
    IF Len(bits) > 63 THEN 3 ELSE 2 * bits[Len(bits) - 1] + bits[Len(bits)]

init_rule(bits) ==
    IF ~is_monochar(SubSeq(bits, 1, 3), 1)
    THEN SingleByteRule(bin_to_int(SubSeq(bits, 1, 3)))
    ELSE IF ~is_monochar(SubSeq(bits, 1, 6), 1)
    THEN DoubleByteOp1Rule((bin_to_int(SubSeq(bits, 1, 6)) % 8) + 6)
    ELSE DoubleByteOp2Rule(low_two_bits(bits) + 15)

parse_rule_from_bytes(first_byte) == init_rule(first_byte)

\* Mutant: the bits that tell the formats apart are left out.
get_rule_id_bin_bare(rule) == int_to_bin(rule.id, rule.rule_id_size)

\* The bits that tell the formats apart are put in front of the id: x | 56 and
\* x | 252 in the code.
get_rule_id_bin(rule) ==
    int_to_bin(CASE rule.rule_id_size = 3 -> rule.id
                 [] rule.rule_id_size = 6 -> 56 + (rule.id - 6)
                 [] rule.rule_id_size = 8 -> 252 + ((rule.id - 3) % 4),
               rule.rule_id_size)

\* Every Rule that init_rule makes of a Rule ID.
Rules == {SingleByteRule(id) : id \in 0..6}
         \cup {DoubleByteOp1Rule(id) : id \in 6..12}
         \cup {DoubleByteOp2Rule(id) : id \in 15..18}
=============================================================================
