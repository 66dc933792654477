---------------------------- MODULE SCHCSession ----------------------------
(***************************************************************************)
(* The receiver's session, src/entities/schc_session.c: each function is an *)
(* operator from the session (and its arguments) to the session it leaves   *)
(* behind or to what it returns.  The strings bitmap and requested_frg are  *)
(* the sets of their indices that hold '1'.                                 *)
(***************************************************************************)
EXTENDS FRProcedure, CompoundACK

CONSTANT InactivityTimeout  \* INACTIVITY_TIMEOUT, in ticks

slots(rule) == 0..rule.max_fragment_nb

state_construct ==
    [last_fragment |-> NULL_FRG, last_ack |-> NULL_ACK, receiver_abort |-> NULL_ACK,
     aborted |-> FALSE, timestamp |-> -1, bitmap |-> {}, requested_frg |-> {}]

session_construct(rule) ==
    [rule |-> rule, ack |-> NULL_ACK, state |-> state_construct,
     fragments |-> [i \in slots(rule) |-> NULL_FRG]]

-----------------------------------------------------------------------------
(* Aborts and time.                                                         *)

session_sender_abort(session) ==
    [session EXCEPT !.state.timestamp = -1, !.state.aborted = TRUE]

session_receiver_abort(session) ==
    LET ra == generate_receiver_abort(session.rule)
    IN  [session EXCEPT !.state.timestamp = -1, !.state.aborted = TRUE,
                        !.ack = ra, !.state.receiver_abort = ra]

session_was_aborted(session) == session.state.aborted

session_update_timestamp(session, timestamp) ==
    [session EXCEPT !.state.timestamp = timestamp]

\* DISABLE_INACTIVITY_TIMEOUT is 0.  The distance counts in both directions.
session_expired_inactivity_timeout(session, timestamp) ==
    LET since == timestamp - session.state.timestamp
    IN  /\ session.state.timestamp >= 0
        /\ since > InactivityTimeout \/ -since > InactivityTimeout

-----------------------------------------------------------------------------
(* What the session makes of a Fragment.                                    *)

session_check_requested_fragment(session, frg) ==
    get_frg_nb(session.rule, frg) \in session.state.requested_frg

\* Mutant: the bitmap is not looked up.
session_already_received_last(session, frg) ==
    /\ is_frg_all_1(session.rule, frg)
    /\ is_ack_complete(session.rule, session.state.last_ack)
    /\ session.state.last_fragment = frg

\* An All-1 is also known when it ended the session before this one.
session_already_received(session, frg) ==
    \/ get_frg_nb(session.rule, frg) \in session.state.bitmap
    \/ /\ is_frg_all_1(session.rule, frg)
       /\ session.state.last_ack.byte_size # 0
       /\ is_ack_complete(session.rule, session.state.last_ack)
       /\ session.state.last_fragment = frg

\* Mutant: an All-1 that was received is not expected either.
session_expects_fragment_once(session, frg) ==
    /\ ~session_already_received(session, frg)
    /\ \/ is_frg_null(session.state.last_fragment)
       \/ get_frg_nb(session.rule, frg)
              > get_frg_nb(session.rule, session.state.last_fragment)

session_expects_fragment(session, frg) ==
    LET rule    == session.rule
        last    == session.state.last_fragment
        all_1   == is_frg_all_1(rule, frg)
        frg_nb  == get_frg_nb(rule, frg)
        last_nb == get_frg_nb(rule, last)
    IN  /\ all_1 \/ ~session_already_received(session, frg)
        /\ IF is_frg_null(last) \/ is_frg_sender_abort(rule, last) THEN TRUE
           ELSE IF is_frg_all_1(rule, last)
                THEN is_ack_complete(rule, session.state.last_ack)
           ELSE \/ session_check_requested_fragment(session, frg)
                \/ get_frg_window(frg) > get_frg_window(last)
                \/ /\ get_frg_window(frg) = get_frg_window(last)
                   /\ frg_nb > last_nb \/ (frg_nb = last_nb /\ all_1)

start_new_session(session, retain_last_data) ==
    LET new == session_construct(session.rule)
    IN  IF retain_last_data
        THEN [new EXCEPT !.state.last_fragment = session.state.last_fragment,
                         !.state.last_ack = session.state.last_ack]
        ELSE new

session_has_pending_ack(session, frg) ==
    /\ is_ack_complete(session.rule, session.state.last_ack)
    /\ is_frg_all_1(session.rule, frg)
    /\ is_frg_all_1(session.rule, session.state.last_fragment)

\* What the same call leaves behind: a Fragment that is no All-1 shows that the
\* complete ACK got to the sender.
forget_last(session, frg) ==
    IF is_ack_complete(session.rule, session.state.last_ack)
       /\ ~is_frg_all_1(session.rule, frg)
    THEN [session EXCEPT !.state.last_fragment = NULL_FRG,
                         !.state.last_ack = NULL_ACK]
    ELSE session

session_store_frg(session, frg) ==
    IF session_already_received(session, frg) THEN session
    ELSE [session EXCEPT !.fragments[get_frg_nb(session.rule, frg)] = frg]

-----------------------------------------------------------------------------
(* Bitmaps and ACKs.                                                        *)

session_get_bitmap(session, frg_window) ==
    LET size == session.rule.window_size
    IN  [j \in 1..size |->
            IF frg_window * size + j - 1 \in session.state.bitmap THEN 1 ELSE 0]

\* Mutant: the All-1 is registered one position too far.
session_update_bitmap_rcs(session, frg) ==
    [session EXCEPT !.state.bitmap = @ \cup
        {get_frg_nb(session.rule, frg)
            + (IF is_frg_all_1(session.rule, frg) THEN 1 ELSE 0)}]

session_update_bitmap(session, frg) ==
    [session EXCEPT !.state.bitmap = @ \cup {get_frg_nb(session.rule, frg)}]

\* A complete ACK is refused.
session_update_requested(session, ack) ==
    LET rule   == session.rule
        tuples == get_ack_tuples(rule, ack, get_ack_nb_tuples(rule, ack))
        lost(t) == {t.window * rule.window_size + j - 1 :
                        j \in {k \in 1..rule.window_size : t.bitmap[k] = 0}}
    IN  IF is_ack_complete(rule, ack) THEN session
        ELSE [session EXCEPT !.state.requested_frg = @ \cup
                 UNION {lost(tuples[k]) : k \in DOMAIN tuples}]

\* What a window with an All-1 should look like: the Fragments before the All-1
\* and, in the last position of the window, the All-1.
expected_bitmap(rule, all_1) ==
    [j \in 1..rule.window_size |->
        IF j < all_1.rcs \/ j = rule.window_size THEN 1 ELSE 0]

\* Mutant: the window of the Fragment itself is not looked at.
session_check_bitmaps_before(session, frg) ==
    [w \in 0..session.rule.max_window_nb - 1 |->
        IF w < get_frg_window(frg)
           /\ ~is_monochar(session_get_bitmap(session, w), 1)
        THEN session_get_bitmap(session, w) ELSE <<>>]

\* The array it fills in for an All-0 or an All-1; it returns whether a window
\* of it is not blank.
session_check_bitmaps(session, frg) ==
    LET rule == session.rule
        lost(w) == IF is_frg_all_1(rule, frg) /\ w = get_frg_window(frg)
                   THEN session_get_bitmap(session, w) # expected_bitmap(rule, frg)
                   ELSE ~is_monochar(session_get_bitmap(session, w), 1)
    IN  [w \in 0..rule.max_window_nb - 1 |->
            IF w <= get_frg_window(frg) /\ lost(w)
            THEN session_get_bitmap(session, w) ELSE <<>>]

finds_lost(bitmaps) == \E w \in DOMAIN bitmaps : bitmaps[w] # <<>>

c_bit(session, frg) ==
    IF finds_lost(session_check_bitmaps(session, frg)) THEN 0 ELSE 1

session_generate_ack_refuses(session, frg) ==
    generate_ack_refuses(c_bit(session, frg), get_frg_window(frg),
                         session_check_bitmaps(session, frg))

session_generate_ack(session, frg) ==
    IF session_generate_ack_refuses(session, frg) THEN session
    ELSE [session EXCEPT !.ack = generate_ack(session.rule, get_frg_window(frg),
                                              c_bit(session, frg),
                                              session_check_bitmaps(session, frg))]
=============================================================================
