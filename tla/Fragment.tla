------------------------------ MODULE Fragment ------------------------------
(***************************************************************************)
(* SCHC Fragments, src/messages/fragment.c.  A message is a header and a    *)
(* piece of a packet.  The header is the record of its fields, cut to their *)
(* widths as int_to_bin cuts them; data says which byte of which packet     *)
(* follows a header of so many bytes.                                       *)
(***************************************************************************)
EXTENDS Rule

NoData == [packet |-> "none", from |-> 0, header |-> 0]

NULL_FRG == [rule_id |-> <<>>, w |-> 0, fcn |-> 0, rcs |-> 0,
             data |-> NoData, byte_size |-> -1]

\* A message of zeros, left behind by a generate_frg that fails.
BLANK_FRG == [NULL_FRG EXCEPT !.byte_size = 0]

is_frg_null(frg) == frg = NULL_FRG

AllOnes(size) == 2^size - 1

-----------------------------------------------------------------------------
get_frg_window(frg) == frg.w

is_frg_all_0(frg) == ~is_frg_null(frg) /\ frg.fcn = 0

\* An FCN of ones, in a message that is at least as long as an All-1 header.
is_frg_all_1(rule, frg) ==
    /\ ~is_frg_null(frg)
    /\ frg.fcn = AllOnes(rule.n)
    /\ 8 * frg.byte_size >= rule.all1_header_len

frg_expects_ack(rule, frg) == is_frg_all_0(frg) \/ is_frg_all_1(rule, frg)

is_frg_sender_abort(rule, frg) ==
    /\ ~is_frg_null(frg)
    /\ frg.w = AllOnes(rule.m) /\ frg.fcn = AllOnes(rule.n)
    /\ 8 * frg.byte_size < rule.all1_header_len

\* Mutant: the longer header of an All-1 is not taken into account.
get_frg_header_byte_size_regular(rule, frg) == rule.header_len \div 8

get_frg_header_byte_size(rule, frg) ==
    IF is_frg_all_1(rule, frg) THEN rule.all1_header_len \div 8
                               ELSE rule.header_len \div 8

get_frg_payload_byte_size(rule, frg) ==
    frg.byte_size - get_frg_header_byte_size(rule, frg)

\* What follows the header, wherever that is taken to end.
get_frg_payload(rule, frg) ==
    [packet |-> frg.data.packet,
     from   |-> frg.data.from + get_frg_header_byte_size(rule, frg)
                - frg.data.header,
     size   |-> get_frg_payload_byte_size(rule, frg)]

\* Mutant: the RCS is taken for an index.
get_frg_idx_rcs(rule, frg) ==
    IF is_frg_all_1(rule, frg) THEN frg.rcs ELSE rule.window_size - frg.fcn - 1

get_frg_idx(rule, frg) ==
    IF is_frg_all_1(rule, frg) THEN frg.rcs - 1
                               ELSE rule.window_size - frg.fcn - 1

get_frg_nb(rule, frg) ==
    rule.window_size * get_frg_window(frg) + get_frg_idx(rule, frg)

\* The bits of the first byte of a message.
first_byte(rule, frg) ==
    SubSeq(frg.rule_id \o int_to_bin(frg.w, rule.m) \o int_to_bin(frg.fcn, rule.n),
           1, 8)

\* All the bits of the message are handed to init_rule, not those of the Rule
\* ID.  Of the bits after the header only the last two can matter.
init_rule_from_frg(rule, frg, last_two_bits) ==
    init_rule(first_byte(rule, frg)
              \o Zeros(8 * frg.byte_size - 8 - Len(last_two_bits))
              \o last_two_bits)

-----------------------------------------------------------------------------
\* Sender-Aborts have the Rule ID of src; the bits after the FCN are 0.
generate_sender_abort(rule, src) ==
    [rule_id   |-> src.rule_id,
     w         |-> AllOnes(rule.m),
     fcn       |-> AllOnes(rule.n),
     rcs       |-> 0,
     data      |-> NoData,
     byte_size |-> round_to_next_multiple(rule.rcs_idx, L2_WORD_SIZE) \div 8]

\* The payload is the size bytes of packet from byte from on.
generate_frg(rule, packet, from, size, nb_frag, all_1) ==
    LET header_len == IF all_1 THEN rule.all1_header_len ELSE rule.header_len
        fcn        == IF all_1 THEN AllOnes(rule.n)
                      ELSE rule.window_size - (nb_frag % rule.window_size) - 1
        rcs        == IF all_1 THEN (nb_frag % rule.window_size) + 1 ELSE 0
    IN  IF 8 * size > UPLINK_MTU_BITS - header_len
        THEN BLANK_FRG
        ELSE [rule_id   |-> get_rule_id_bin(rule),
              w         |-> (nb_frag \div rule.window_size) % 2^rule.m,
              fcn       |-> fcn % 2^rule.n,
              rcs       |-> rcs % 2^rule.u,
              data      |-> [packet |-> packet, from |-> from,
                             header |-> header_len \div 8],
              byte_size |-> header_len \div 8 + size]
=============================================================================
