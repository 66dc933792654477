---------------------------- MODULE FRProcedure ----------------------------
(***************************************************************************)
(* Fragmentation and reassembly, src/entities/fr_procedure.c, as operators. *)
(* An array of Fragments is a function on indices from 0.                   *)
(***************************************************************************)
EXTENDS Fragment, FiniteSets

regular_payload_byte_size(rule) == rule.regular_payload_len \div 8

\* Mutant: a full last piece stays in the All-1, however long its header.
needs_empty_all_1_never(rule, byte_size) == FALSE

\* The All-1 header is longer, so that a full last piece leaves it no room.
needs_empty_all_1(rule, byte_size) ==
    /\ rule.header_len < rule.all1_header_len
    /\ byte_size % regular_payload_byte_size(rule) = 0

get_nb_fragments(rule, byte_size) ==
    LET p == regular_payload_byte_size(rule)
    IN  (byte_size + p - 1) \div p
        + (IF needs_empty_all_1(rule, byte_size) THEN 1 ELSE 0)

get_nb_windows(rule, byte_size) ==
    (get_nb_fragments(rule, byte_size) + rule.window_size - 1)
        \div rule.window_size

fragment_refuses(rule, byte_size) ==
    byte_size > rule.max_schc_packet_byte_size \/ byte_size = 0

payload_size(rule, byte_size, i) ==
    LET p == regular_payload_byte_size(rule)
    IN  IF i # get_nb_fragments(rule, byte_size) - 1 THEN p
        ELSE IF needs_empty_all_1(rule, byte_size) THEN 0
        ELSE ((byte_size - 1) % p) + 1

\* The result of generate_frg is ignored.
fragment(rule, packet, byte_size) ==
    [i \in 0..get_nb_fragments(rule, byte_size) - 1 |->
        generate_frg(rule, packet, i * regular_payload_byte_size(rule),
                     payload_size(rule, byte_size, i), i,
                     i = get_nb_fragments(rule, byte_size) - 1)]

-----------------------------------------------------------------------------
\* The Fragments before the first null one.
before_null(fragments) ==
    {i \in DOMAIN fragments : \A k \in 0..i : ~is_frg_null(fragments[k])}

\* Both loops give up with -1 when they get to index max_fragment_nb.
no_null_found(rule, fragments) == rule.max_fragment_nb \in before_null(fragments)

all_1s(rule, fragments) ==
    {k \in before_null(fragments) \ {rule.max_fragment_nb} :
        is_frg_all_1(rule, fragments[k])}

first_all_1(rule, fragments) ==
    CHOOSE i \in all_1s(rule, fragments) : \A k \in all_1s(rule, fragments) : i <= k

\* Mutant: the payload of the All-1 is not counted.
get_packet_length_from_array_regular(rule, fragments, leftover) ==
    IF all_1s(rule, fragments) # {}
    THEN LET i == first_all_1(rule, fragments)
         IN  regular_payload_byte_size(rule) * i
    ELSE IF no_null_found(rule, fragments) THEN -1 ELSE leftover

\* The length of the packet up to its first All-1.  When a null Fragment comes
\* first the function ends without a return statement: its result is leftover,
\* whatever is where the caller looks for one.
get_packet_length_from_array(rule, fragments, leftover) ==
    IF all_1s(rule, fragments) # {}
    THEN LET i == first_all_1(rule, fragments)
         IN  regular_payload_byte_size(rule) * i
                 + get_frg_payload_byte_size(rule, fragments[i])
    ELSE IF no_null_found(rule, fragments) THEN -1 ELSE leftover

\* The writes to dest: payload i goes to byte i * regular_payload_byte_size.
reassemble(rule, fragments) ==
    [i \in before_null(fragments) \ {rule.max_fragment_nb} |->
        [to |-> i * regular_payload_byte_size(rule),
         payload |-> get_frg_payload(rule, fragments[i])]]
=============================================================================
