---------------------------- MODULE CompoundACK ----------------------------
(***************************************************************************)
(* Compound ACKs, src/messages/ack.c, as the 64 bits of a downlink message. *)
(* A header (Rule ID, W, C) is followed by the bitmap of window W and by    *)
(* further (window, bitmap) tuples.  Of a tuple list only the order and the *)
(* place in the message matter: windows increase and the rest is zeros.     *)
(***************************************************************************)
EXTENDS Rule, Ascending, SequencesExt

NULL_ACK == [message |-> Zeros(DOWNLINK_MTU_BITS), byte_size |-> -1]

is_ack_null(ack) == ack = NULL_ACK

\* The bits are followed by zeros up to the end of the message.
Downlink(bits) ==
    [message   |-> bits \o Zeros(DOWNLINK_MTU_BITS - Len(bits)),
     byte_size |-> DOWNLINK_MTU_BITS \div 8]

Field(ack, idx, size) == SubSeq(ack.message, idx + 1, idx + size)

w_idx(rule) == rule.rule_id_size
c_idx(rule) == rule.rule_id_size + rule.m

get_ack_w(rule, ack)      == Field(ack, w_idx(rule), rule.m)
get_ack_c(rule, ack)      == Field(ack, c_idx(rule), 1)
get_ack_bitmap(rule, ack) == Field(ack, rule.ack_header_len, rule.window_size)

\* What follows the header.
padding(rule, ack) ==
    Field(ack, rule.ack_header_len, DOWNLINK_MTU_BITS - rule.ack_header_len)

-----------------------------------------------------------------------------
(* Parsing.                                                                 *)

tuple_size(rule) == rule.m + rule.window_size

\* Where tuple k lies; tuple 0 is the header's.
tuple_at(rule, k) == rule.tuple_idx + (k - 1) * tuple_size(rule)

\* Mutant: window 0 does not end the list.
get_ack_nb_tuples_all(rule, ack) ==
    1 + Cardinality({k \in 1..DOWNLINK_MTU_BITS :
                        tuple_at(rule, k) < DOWNLINK_MTU_BITS - rule.tuple_idx})

\* Mutant: the list ends one tuple before the end of the message.
get_ack_nb_tuples_early(rule, ack) ==
    LET ends(k) ==
            \/ tuple_at(rule, k + 1) >= DOWNLINK_MTU_BITS - rule.tuple_idx
            \/ is_monochar(Field(ack, tuple_at(rule, k), rule.m), 0)
    IN  CHOOSE n \in 1..DOWNLINK_MTU_BITS :
            ends(n) /\ \A k \in 1..n - 1 : ~ends(k)

\* Tuples are counted up to one of window 0 or to one that begins in the last
\* tuple_idx bits of the message.
get_ack_nb_tuples(rule, ack) ==
    LET ends(k) ==
            \/ tuple_at(rule, k) >= DOWNLINK_MTU_BITS - rule.tuple_idx
            \/ is_monochar(Field(ack, tuple_at(rule, k), rule.m), 0)
    IN  CHOOSE n \in 1..DOWNLINK_MTU_BITS :
            ends(n) /\ \A k \in 1..n - 1 : ~ends(k)

get_ack_tuples(rule, ack, nb_tuples) ==
    [k \in 1..nb_tuples |->
        IF k = 1
        THEN [window |-> bin_to_int(get_ack_w(rule, ack)),
              bitmap |-> get_ack_bitmap(rule, ack)]
        ELSE LET idx == tuple_at(rule, k - 1)
             IN  [window |-> bin_to_int(Field(ack, idx, rule.m)),
                  bitmap |-> Field(ack, idx + rule.m, rule.window_size)]]

\* After the header come ones up to a byte boundary and then a byte of ones;
\* last_one is where the last 1 of the message is.
is_ack_receiver_abort(rule, ack) ==
    LET last_one == CHOOSE k \in 1..DOWNLINK_MTU_BITS :
                       /\ ack.message[k] = 1
                       /\ \A j \in k + 1..DOWNLINK_MTU_BITS : ack.message[j] = 0
        size == last_one - rule.ack_header_len
    IN  /\ ~is_ack_null(ack)
        /\ is_monochar(get_ack_w(rule, ack), 1) /\ get_ack_c(rule, ack) = <<1>>
        /\ size >= L2_WORD_SIZE
        /\ is_monochar(Field(ack, last_one - L2_WORD_SIZE, L2_WORD_SIZE), 1)
        /\ IF size > L2_WORD_SIZE /\ rule.ack_header_len % L2_WORD_SIZE # 0
           THEN /\ is_monochar(Field(ack, rule.ack_header_len,
                                     size - L2_WORD_SIZE), 1)
                /\ (last_one - L2_WORD_SIZE) % L2_WORD_SIZE = 0
           ELSE rule.ack_header_len % L2_WORD_SIZE = 0

is_ack_complete(rule, ack) ==
    /\ ~is_ack_null(ack)
    /\ ~is_ack_receiver_abort(rule, ack)
    /\ get_ack_c(rule, ack) = <<1>>
    /\ is_monochar(padding(rule, ack), 0)

is_ack_compound(rule, ack) ==
    /\ ~is_ack_null(ack)
    /\ ~is_ack_receiver_abort(rule, ack)
    /\ ~is_monochar(padding(rule, ack), 0)

\* Like init_rule_from_frg, all the bits of the message are handed over.
init_rule_from_ack(ack) == init_rule(ack.message)

-----------------------------------------------------------------------------
(* Generation.  A bitmap that was left blank is <<>>.                        *)

\* C=1 is refused, and dest left as it was, unless every bitmap is made of ones.
generate_ack_refuses(c, wdw, bitmaps) ==
    c = 1 /\ \E i \in 0..wdw : ~is_monochar(bitmaps[i], 1)

\* The windows with something to report, in increasing order.
lost_windows(wdw, bitmaps) ==
    Ascending({i \in 0..wdw : bitmaps[i] # <<>> /\ ~is_monochar(bitmaps[i], 1)})

\* Tuples are added while the message has room for them.
tuple_capacity(rule) ==
    1 + (DOWNLINK_MTU_BITS - rule.tuple_idx) \div tuple_size(rule)

generate_ack(rule, wdw, c, bitmaps) ==
    LET lost     == lost_windows(wdw, bitmaps)
        reported == SubSeq(lost, 1, IF Len(lost) <= tuple_capacity(rule)
                                    THEN Len(lost) ELSE tuple_capacity(rule))
        first    == IF c = 1 THEN wdw ELSE IF lost = <<>> THEN 0 ELSE lost[1]
        tuple(k) == int_to_bin(reported[k], rule.m) \o bitmaps[reported[k]]
        header   == get_rule_id_bin(rule) \o int_to_bin(first, rule.m) \o <<c>>
    IN  Downlink(IF c = 1 \/ lost = <<>> THEN header
                 ELSE header \o bitmaps[first]
                      \o FlattenSeq([k \in 1..Len(reported) - 1 |-> tuple(k + 1)]))

\* Mutant: the padding of ones ends at the byte boundary.
generate_receiver_abort_short(rule) ==
    Downlink(get_rule_id_bin(rule) \o Ones(rule.m) \o <<1>>
             \o Ones(round_to_next_multiple(rule.ack_header_len, L2_WORD_SIZE)
                     - rule.ack_header_len))

\* Ones up to the next byte boundary and another byte of ones.
generate_receiver_abort(rule) ==
    LET remainder == rule.ack_header_len % L2_WORD_SIZE
    IN  Downlink(get_rule_id_bin(rule) \o Ones(rule.m) \o <<1>>
                 \o Ones(IF remainder = 0 THEN L2_WORD_SIZE
                         ELSE 2 * L2_WORD_SIZE - remainder))
=============================================================================
