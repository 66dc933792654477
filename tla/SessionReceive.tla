--------------------------- MODULE SessionReceive ---------------------------
(***************************************************************************)
(* The life of a session.  The Fragments of some packets and Sender-Aborts  *)
(* reach it in any order, any number of times or never, and are processed   *)
(* in the order the draft of session_schc_recv gives at the end of          *)
(* schc_session.c, the one place that calls the functions together.  What   *)
(* the draft leaves to its caller (last_fragment, last_ack, requested_frg)  *)
(* is set as the tests and the header comments set it.                      *)
(***************************************************************************)
EXTENDS SCHCSession

CONSTANTS
    TheRule,
    PacketSizes,    \* [packet -> byte size]
    MaxTime,        \* bound: the last tick of the clock
    Remembers       \* whether the caller uses what the draft leaves to it

VARIABLES
    session,
    clock,
    frg,        \* the last Fragment received
    outcome     \* what became of it

vars == <<session, clock, frg, outcome>>

Packets == DOMAIN PacketSizes

FragmentsOf(p) == fragment(TheRule, p, PacketSizes[p])

Frag(p, i) == FragmentsOf(p)[i]

LastNb(p) == get_nb_fragments(TheRule, PacketSizes[p]) - 1

\* Under a Rule whose Sender-Abort is as long as an All-1 it is read as an
\* All-1 with RCS 0, for which session_check_bitmaps is not defined.
SenderAborts ==
    {f \in {generate_sender_abort(TheRule, Frag(p, 0)) : p \in Packets} :
        is_frg_sender_abort(TheRule, f)}

Uplinks == UNION {{Frag(p, i) : i \in 0..LastNb(p)} : p \in Packets}

ASSUME SessionAssumption ==
    /\ \A p \in Packets : /\ PacketSizes[p] \in Nat
                          /\ ~fragment_refuses(TheRule, PacketSizes[p])
    /\ InactivityTimeout \in Nat /\ MaxTime \in Nat /\ Remembers \in BOOLEAN

Init ==
    /\ session = session_construct(TheRule)
    /\ clock = 0
    /\ frg = NULL_FRG /\ outcome = "none"

-----------------------------------------------------------------------------
(* session_schc_recv, one disjunct for each way out.                        *)

RecvAborted(f) ==
    /\ session_was_aborted(session)
    /\ outcome' = "aborted before"
    /\ UNCHANGED session

RecvExpired(f) ==
    /\ ~session_was_aborted(session)
    /\ session_expired_inactivity_timeout(session, clock)
    /\ session' = session_receiver_abort(session)
    /\ outcome' = "receiver aborted"

InTime ==
    /\ ~session_was_aborted(session)
    /\ ~session_expired_inactivity_timeout(session, clock)

RecvSenderAbort(f) ==
    /\ InTime
    /\ is_frg_sender_abort(TheRule, f)
    /\ session' = session_sender_abort(session_update_timestamp(session, clock))
    /\ outcome' = "sender aborted"

\* The session once the Fragment is stored and registered; a Fragment that is
\* not expected starts a new one first.
Stored(f) ==
    LET timed == session_update_timestamp(session, clock)
        s     == IF session_expects_fragment(timed, f) THEN timed
                 ELSE start_new_session(timed, FALSE)
    IN  session_update_bitmap(session_store_frg(s, f), f)

RecvFragment(f) ==
    /\ InTime
    /\ ~is_frg_sender_abort(TheRule, f)
    /\ LET stored    == Stored(f)
           forgotten == forget_last(stored, f)
       IN  \/ /\ session_has_pending_ack(stored, f)
              /\ session' = [stored EXCEPT !.ack = stored.state.last_ack]
              /\ outcome' = "pending"
           \/ /\ ~session_has_pending_ack(stored, f)
              /\ \/ ~frg_expects_ack(TheRule, f)
                 \/ session_check_requested_fragment(forgotten, f)
              /\ session' = forgotten
              /\ outcome' = "stored"
           \/ /\ ~session_has_pending_ack(stored, f)
              /\ frg_expects_ack(TheRule, f)
              /\ ~session_check_requested_fragment(forgotten, f)
              /\ session' = session_generate_ack(forgotten, f)
              /\ outcome' = IF session_generate_ack_refuses(forgotten, f)
                            THEN "refused" ELSE "acked"

Recv(f) ==
    /\ \/ RecvAborted(f) \/ RecvExpired(f) \/ RecvSenderAbort(f)
       \/ RecvFragment(f)
    /\ frg' = f
    /\ UNCHANGED clock

-----------------------------------------------------------------------------
(* The caller.                                                              *)

Tick ==
    /\ clock < MaxTime
    /\ clock' = clock + 1
    /\ outcome' = "none"
    /\ UNCHANGED <<session, frg>>

complete_ack(f) ==
    generate_ack(TheRule, get_frg_window(f), 1,
                 [w \in 0..get_frg_window(f) |-> Ones(TheRule.window_size)])

WholePacket(p) == \A i \in 0..LastNb(p) : session.fragments[i] = Frag(p, i)

\* The caller notes the Fragment and the ACK it sends: the session's, or a
\* complete one when a whole packet is there.
Remember ==
    /\ Remembers
    /\ outcome \in {"acked", "refused", "stored"}
    /\ session' = [session EXCEPT
           !.state.last_fragment = frg,
           !.state.last_ack = CASE outcome = "stored" -> @
                                [] \E p \in Packets : WholePacket(p)
                                                      /\ frg = Frag(p, LastNb(p))
                                       -> complete_ack(frg)
                                [] OTHER -> session.ack]
    /\ outcome' = "none"
    /\ UNCHANGED <<clock, frg>>

\* A report of losses was sent: its Fragments are requested.
Request ==
    /\ Remembers
    /\ outcome = "acked"
    /\ session' = session_update_requested(session, session.ack)
    /\ outcome' = "none"
    /\ UNCHANGED <<clock, frg>>

\* The packet was reassembled, or the caller gives up on an aborted session.  It
\* may retain the last Fragment and ACK, to know the All-1 if it is repeated.
StartNewSession(retain_last_data) ==
    /\ \/ session_was_aborted(session)
       \/ \E p \in Packets : WholePacket(p)
    /\ session' = start_new_session(session, retain_last_data)
    /\ outcome' = "none"
    /\ UNCHANGED <<clock, frg>>

Next == (\E f \in Uplinks \cup SenderAborts : Recv(f))
        \/ Tick \/ Remember \/ Request
        \/ \E retain \in BOOLEAN : StartNewSession(retain)

Spec == Init /\ [][Next]_vars

-----------------------------------------------------------------------------
(* Properties.                                                              *)

\* The positions of Fragments: the last slot and the ends of the two strings are
\* for what terminates them.
Places == 0..TheRule.max_fragment_nb - 1

TypeOK ==
    /\ DOMAIN session.fragments = slots(TheRule)
    /\ is_frg_null(session.fragments[TheRule.max_fragment_nb])
    /\ session.state.bitmap \subseteq Places
    /\ session.state.requested_frg \subseteq Places
    /\ session.state.timestamp \in -1..MaxTime
    /\ session.ack.byte_size \in {-1, DOWNLINK_MTU_BITS \div 8}

StoredSlots == {i \in slots(TheRule) : ~is_frg_null(session.fragments[i])}

\* Bits that were set by a Fragment the session does not hold.
Unfounded == session.state.bitmap \ StoredSlots

\* bitmap and fragments are written by two calls, the first of which may refuse a
\* Fragment that the second registers.  Whatever mixture of packets, duplicates
\* and restarts came in, a Fragment that is stored lies where its header says and
\* is registered, and of the bits registered at most one has no Fragment: that of
\* an All-1, which ended the session before this one.
BitmapMatchesStore ==
    /\ StoredSlots \subseteq session.state.bitmap
    /\ \A i \in StoredSlots : get_frg_nb(TheRule, session.fragments[i]) = i
    /\ \A i \in Unfounded : \E p \in Packets : i = LastNb(p)
    /\ \A i, j \in Unfounded : i = j

OnePacket ==
    \A i \in slots(TheRule) :
        \/ is_frg_null(session.fragments[i])
        \/ session.fragments[i].data.packet = frg.data.packet

Reported ==
    get_ack_tuples(TheRule, session.ack, get_ack_nb_tuples(TheRule, session.ack))

\* What the ACK says of Fragment i: the bits of the tuples about its window.
bits_reported(i) ==
    LET size == TheRule.window_size
    IN  {Reported[k].bitmap[(i % size) + 1] :
            k \in {j \in DOMAIN Reported : Reported[j].window = i \div size}}

\* As long as the session holds one packet, the sender learns of every Fragment
\* that is missing before the one that asked for the ACK, and no stored Fragment
\* is reported lost: what it reads from the 64 bits is what session.fragments
\* holds.  A bit without a Fragment hides its own loss and no other, unless it is
\* in the window of the Fragment that asked: like one of a Fragment of another
\* packet it can then fill a window that counts as lost; generate_ack leaves it
\* out, and zeros are read as losses in window 0.
LossesReported ==
    outcome = "acked" /\ OnePacket
    /\ (\A i \in Unfounded : i \div TheRule.window_size # get_frg_window(frg)) =>
        /\ ~is_ack_complete(TheRule, session.ack)
        /\ \A i \in slots(TheRule) \ Unfounded :
               IF is_frg_null(session.fragments[i])
               THEN i < get_frg_nb(TheRule, frg) => bits_reported(i) = {0}
               ELSE 0 \notin bits_reported(i)

\* The first half of it whatever the session retained of the one before, as the
\* comments say: the bitmap is one "of received SCHC Fragments"
\* (schc_session.h:208), start_new_session "deletes the data of a SCHC session"
\* (159) and what it retains is there "to detect All-1 retransmissions" (163).
EveryLossReported ==
    outcome = "acked" /\ OnePacket =>
        \A i \in slots(TheRule) :
            is_frg_null(session.fragments[i]) /\ i < get_frg_nb(TheRule, frg) =>
                bits_reported(i) = {0}

\* A session aborted for inactivity, and only such a one, leaves an ACK that a
\* sender reads as a Receiver-Abort, until the caller starts a new session.
AbortDelivered ==
    is_ack_receiver_abort(TheRule, session.ack) <=>
        session.state.aborted /\ ~is_ack_null(session.state.receiver_abort)

\* A stored Fragment is never replaced by another one, of the same packet or of
\* the next: it goes only when the whole session does.
KeptUntilRestart ==
    [][\A i \in slots(TheRule) :
          session'.fragments[i] # session.fragments[i] =>
              \/ is_frg_null(session.fragments[i])
              \/ \A j \in slots(TheRule) :
                    session'.fragments[j] \in {NULL_FRG, frg'}]_vars

\* The retransmission of an All-1 whose complete ACK was lost is answered with
\* that ACK, and does not start a session of its own.
PendingAckAnswered ==
    [][/\ outcome' # "none" /\ InTime
       /\ is_frg_all_1(TheRule, session.state.last_fragment)
       /\ is_ack_complete(TheRule, session.state.last_ack)
       /\ frg' = session.state.last_fragment
       => /\ outcome' = "pending"
          /\ session'.ack = session.state.last_ack
          /\ session'.fragments = session.fragments]_vars

\* When every Fragment of a packet is stored, the All-1 is answered with a
\* complete ACK: session_generate_ack "Generates a Compound ACK into the internal
\* ack parameter by separating the bitmaps of the session and checking for
\* fragments reported lost" (schc_session.h), and none is lost.
WholePacketAcked ==
    \A p \in Packets :
        outcome \in {"acked", "refused"} /\ frg = Frag(p, LastNb(p)) /\ WholePacket(p)
            => is_ack_complete(TheRule, session.ack)
=============================================================================
