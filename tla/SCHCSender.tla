----------------------------- MODULE SCHCSender -----------------------------
(***************************************************************************)
(* The ACK-on-Error sender of src/entities/schc_sender.c, with the client  *)
(* half of src/sockets/sigfox_socket.c it blocks in.  The peer is open: a   *)
(* request is answered by any member of Acks, or by nothing.                *)
(*                                                                         *)
(* A queue holds pointers.  The pointer &s->fragments[i] is the number i,   *)
(* &s->sender_abort is SENDER_ABORT and NULL is NULL.  Generating a         *)
(* Sender-Abort overwrites the cell a pointer leads to, in place: aborts    *)
(* is the set of cells that hold one.  What a predicate such as             *)
(* is_frg_all_1 says of a pointer therefore depends on aborts.              *)
(*                                                                         *)
(* schc() is cut where the peer can act: Fetch (fq_get and the attempts     *)
(* counter), one action for each way sendto can go, one for each way the    *)
(* blocking recvfrom can end.                                               *)
(***************************************************************************)
EXTENDS Integers, Sequences, FiniteSets, Ascending

CONSTANTS
    NbFragments,            \* s->nb_fragments
    WindowSize,             \* rule->window_size
    MaxWindowNb,            \* rule->max_window_nb, 2^m
    MaxTuples,              \* windows get_ack_nb_tuples finds in one ACK
    AbortIsShort,           \* a Sender-Abort is shorter than the All-1 header
    ZeroRuleId,             \* the Rule ID bits are all zero
    MaxAckRequests,         \* MAX_ACK_REQUESTS
    DisableMaxAckRequests,  \* DISABLE_MAX_ACK_REQUESTS
    SendErrors,             \* whether sendto may fail
    Acks                    \* the downlink messages a peer may send

VARIABLES
    transmission_q, retransmission_q,
    aborts,     \* cells overwritten by generate_sender_abort
    attempts,   \* ACK requests sent since the last answer
    rt,         \* the retransmission flag
    buffer,     \* client->buffer: <<>> when all zero, else <<ack>>
    frg,        \* the fragment schc() is working on
    pc, result

vars == <<transmission_q, retransmission_q, aborts, attempts, rt, buffer,
          frg, pc, result>>

SENDER_ABORT == -1
NULL         == -2

All1       == NbFragments - 1
LastWindow == (NbFragments - 1) \div WindowSize
Windows    == 0..MaxWindowNb - 1
Positions  == 0..WindowSize - 1
Fragments  == 0..NbFragments - 1

\* &s->fragments[idx] is computed for any window an ACK may name.
Pointers == {SENDER_ABORT} \cup 0..(MaxWindowNb * WindowSize - 1)

-----------------------------------------------------------------------------
(* Downlink messages: (window, bitmap) tuples in the order of the message,  *)
(* which need not be that of the windows.  A bitmap is the set of positions *)
(* the receiver has.                                                        *)

Tuples == [window : Windows, bitmap : SUBSET Positions]

IsAck(ack) ==
    /\ ack.kind \in {"loss", "complete", "receiver_abort"}
    /\ ack.tuples \in Seq(Tuples) \ {<<>>}

Blank(w) == <<[window |-> w, bitmap |-> {}]>>

CompleteAck(w) == [kind |-> "complete", tuples |-> Blank(w)]

ReceiverAbort == [kind |-> "receiver_abort", tuples |-> Blank(MaxWindowNb - 1)]

\* The report generate_ack writes has its windows in ascending order.
LossAck(bitmaps) ==
    LET windows == Ascending(DOMAIN bitmaps)
    IN  [kind   |-> "loss",
         tuples |-> [k \in DOMAIN windows |->
                        [window |-> windows[k], bitmap |-> bitmaps[windows[k]]]]]

Greatest(S) == CHOOSE x \in S : \A y \in S : x >= y

get_ack_w(ack) == ack.tuples[1].window

\* The tuples get_ack_tuples returns, by their places in the message: at most
\* MaxTuples, up to a second one that seems to be of window 0.
tuples_read(ack) ==
    {k \in DOMAIN ack.tuples :
        k <= MaxTuples /\ \A i \in 2..k : ack.tuples[i].window # 0}

\* sgfx_client_recv takes an all-zero buffer for "nothing was received".
IsAllZero(ack) ==
    /\ ZeroRuleId
    /\ ack.kind = "loss"
    /\ \A k \in DOMAIN ack.tuples : ack.tuples[k] = [window |-> 0, bitmap |-> {}]

ASSUME SenderAssumption ==
    /\ NbFragments \in Nat \ {0} /\ WindowSize \in Nat \ {0}
    /\ MaxWindowNb \in Nat \ {0} /\ NbFragments <= MaxWindowNb * WindowSize
    /\ MaxTuples \in Nat \ {0} /\ MaxAckRequests \in Nat
    /\ {AbortIsShort, ZeroRuleId, DisableMaxAckRequests, SendErrors}
           \subseteq BOOLEAN

ASSUME AcksAssumption == \A ack \in Acks : IsAck(ack)

-----------------------------------------------------------------------------
(* Uplink messages: what generate_frg writes in fragment i, and what the    *)
(* predicates of fragment.c say of the cell p.                              *)

window_id(i) == i \div WindowSize

\* The FCN of a regular fragment counts down to 0 at the end of its window.
frag_idx(i) == WindowSize - (i % WindowSize) - 1

\* dest is overwritten in place, wherever its pointer is queued.
generate_sender_abort(dest) == aborts \cup {dest}

is_frg_sender_abort(p) == p \in aborts /\ AbortIsShort

\* Mutant: told by the FCN alone, without the length of the message.
is_frg_all_1_by_fcn(p) == p \in aborts \cup {All1}

is_frg_all_1(p) == IF p \in aborts THEN ~AbortIsShort ELSE p = All1

is_frg_all_0(p) == p \notin aborts \cup {All1} /\ frag_idx(p) = 0

frg_expects_ack(p) == is_frg_all_0(p) \/ is_frg_all_1(p)

\* A Sender-Abort carries the window whose bits are all 1.
get_frg_window(p) == IF p \in aborts THEN MaxWindowNb - 1 ELSE window_id(p)

-----------------------------------------------------------------------------
(* The ring buffers of fifo_queue.c as sequences (see FIFOQueue).  A ring   *)
(* of size nb_fragments + 1 has room for nb_fragments objects; a refused    *)
(* fq_put leaves it as it was, and every caller ignores the refusal.        *)

fq_put(q, obj) == IF Len(q) < NbFragments THEN Append(q, obj) ELSE q

\* Mutant: the ring has room for one window only.
fq_put_all_window(q, objs) ==
    LET room == WindowSize - Len(q)
    IN  q \o SubSeq(objs, 1, IF Len(objs) <= room THEN Len(objs) ELSE room)

fq_put_all(q, objs) ==
    LET room == NbFragments - Len(q)
    IN  q \o SubSeq(objs, 1, IF Len(objs) <= room THEN Len(objs) ELSE room)

-----------------------------------------------------------------------------
(* The bitmap of window w, cut to the fragments before the All-1 when w is  *)
(* the last window.                                                         *)

\* Mutants: the bitmap of the last window is not cut; is cut one too short.
bitmap_positions_uncut(w) == Positions

bitmap_positions_short(w) ==
    IF w = LastWindow THEN {j \in Positions : j + 1 < All1 % WindowSize}
                      ELSE Positions

bitmap_positions(w) ==
    IF w = LastWindow THEN {j \in Positions : j < All1 % WindowSize}
                      ELSE Positions

frgs_arent_missing(w, bitmap) ==
    \/ bitmap_positions(w) # {} /\ bitmap_positions(w) \subseteq bitmap
    \/ bitmap_positions(w) = {} /\ WindowSize - 1 \in bitmap

get_bitmap_to_retransmit(w, bitmap) == bitmap_positions(w) \ bitmap

\* Tuples are processed in their order up to the first that reports no loss.
clean_tuples(ack) ==
    {k \in tuples_read(ack) :
        frgs_arent_missing(ack.tuples[k].window, ack.tuples[k].bitmap)}

reported_tuples(ack) ==
    {k \in tuples_read(ack) : \A i \in clean_tuples(ack) : k < i}

\* Position j of tuple k is loss WindowSize * k + j: the loops over the tuples
\* and over the positions of each come across the losses in ascending order.
losses(ack) ==
    UNION {{WindowSize * k + j :
               j \in get_bitmap_to_retransmit(ack.tuples[k].window,
                                              ack.tuples[k].bitmap)} :
              k \in reported_tuples(ack)}

\* Mutant: windows counted from 1.
fragment_lost_next(ack, loss) ==
    WindowSize * (ack.tuples[loss \div WindowSize].window + 1)
        + (loss % WindowSize)

fragment_lost(ack, loss) ==
    WindowSize * ack.tuples[loss \div WindowSize].window + (loss % WindowSize)

missing_fragments(ack) ==
    LET places == Ascending(losses(ack))
    IN  [n \in DOMAIN places |-> fragment_lost(ack, places[n])]

\* What the retransmission queue becomes.
queued_losses(ack) == fq_put_all(retransmission_q, missing_fragments(ack))

\* Mutants: the ACK-REQ is not sent again; an All-0 is sent again as well.
requeued_never(p) == transmission_q

requeued_all_0(p) ==
    IF frg_expects_ack(p) THEN fq_put(transmission_q, p) ELSE transmission_q

\* After losses were queued the All-1 that asked for them waits behind them.
requeued(p) ==
    IF is_frg_all_1(p) THEN fq_put(transmission_q, p) ELSE transmission_q

\* The window of the last tuple is compared, which an ACK whose windows ascend
\* has as its greatest.
refused(p, ack) ==
    ack.tuples[Greatest(tuples_read(ack))].window > get_frg_window(p)

update_queues(p, ack) ==
    IF refused(p, ack)
    THEN UNCHANGED <<transmission_q, retransmission_q, aborts>>
    ELSE /\ retransmission_q' = queued_losses(ack)
         /\ \/ /\ clean_tuples(ack) # {}
               /\ aborts' = generate_sender_abort(SENDER_ABORT)
               /\ transmission_q' = fq_put(transmission_q, SENDER_ABORT)
            \/ /\ clean_tuples(ack) = {}
               /\ transmission_q' = requeued(p)
               /\ UNCHANGED aborts

-----------------------------------------------------------------------------
(* Ends of schc().                                                          *)

Continue ==
    /\ pc' = "loop"
    /\ frg' = NULL
    /\ UNCHANGED result

Return(r) ==
    /\ pc' = "returned"
    /\ result' = r
    /\ frg' = NULL

update_rt == rt' = (retransmission_q' # <<>>)

\* Mutants: one request too many; no limit.
gives_up_late == attempts > MaxAckRequests /\ ~DisableMaxAckRequests

gives_up_never == FALSE

gives_up == attempts >= MaxAckRequests /\ ~DisableMaxAckRequests

timeout_procedure(p) ==
    /\ \/ /\ is_frg_all_1(p)
          /\ aborts' = IF gives_up THEN generate_sender_abort(p) ELSE aborts
          /\ transmission_q' = fq_put(transmission_q, p)
          /\ Continue
       \/ /\ is_frg_all_0(p)
          /\ Continue
          /\ UNCHANGED <<transmission_q, aborts>>
       \/ /\ ~frg_expects_ack(p)
          /\ Return("error")
          /\ UNCHANGED <<transmission_q, aborts>>
    /\ UNCHANGED <<retransmission_q, attempts>>

\* Mutant: the C bit is not looked at.
completes_any(p, ack) == is_frg_all_1(p) /\ get_ack_w(ack) = LastWindow

completes(p, ack) ==
    /\ is_frg_all_1(p)
    /\ get_ack_w(ack) = LastWindow
    /\ ack.kind = "complete"

\* What schc() does with the message schc_recv delivered.
process_ack(p, ack) ==
    /\ attempts' = 0
    /\ IF ack.kind = "receiver_abort"
       THEN /\ Return("SCHC_RECEIVER_ABORTED")
            /\ UNCHANGED <<transmission_q, retransmission_q, aborts>>
       ELSE IF completes(p, ack)
       THEN /\ Return("SCHC_COMPLETED")
            /\ UNCHANGED <<transmission_q, retransmission_q, aborts>>
       ELSE /\ update_queues(p, ack)
            /\ Continue

-----------------------------------------------------------------------------
Init ==
    /\ transmission_q = <<>> /\ retransmission_q = <<>>
    /\ aborts = {} /\ attempts = 0 /\ rt = FALSE
    /\ buffer = <<>> /\ frg = NULL
    /\ pc = "constructed" /\ result = "none"

\* sender_start up to its loop.
Start ==
    /\ pc = "constructed"
    /\ transmission_q' = [k \in 1..NbFragments |-> k - 1]
    /\ pc' = "loop"
    /\ UNCHANGED <<retransmission_q, aborts, attempts, rt, buffer, frg, result>>

\* attempts is compared with MaxAckRequests only, so it saturates above it.
AttemptsBound == MaxAckRequests + 1

\* Mutant: an All-0 counts as an ACK-REQ.
counted_all_0(p) ==
    IF frg_expects_ack(p) /\ attempts < AttemptsBound
    THEN attempts + 1 ELSE attempts

counted(p) ==
    IF is_frg_all_1(p) /\ attempts < AttemptsBound
    THEN attempts + 1 ELSE attempts

\* One turn of the loop up to schc_send: take a fragment, count an ACK-REQ.
Fetch(q) ==
    /\ q # <<>>
    /\ Head(q) \in Fragments \cup {SENDER_ABORT}
    /\ frg' = Head(q)
    /\ attempts' = counted(Head(q))
    /\ pc' = "schc"

FetchTransmission ==
    /\ pc = "loop" /\ ~rt
    /\ Fetch(transmission_q)
    /\ transmission_q' = Tail(transmission_q)
    /\ UNCHANGED <<retransmission_q, aborts, rt, buffer, result>>

FetchRetransmission ==
    /\ pc = "loop" /\ rt
    /\ Fetch(retransmission_q)
    /\ retransmission_q' = Tail(retransmission_q)
    /\ UNCHANGED <<transmission_q, aborts, rt, buffer, result>>

\* schc() is handed NULL, because the queue rt selects is empty while the
\* other is not, or a pointer past the end of s->fragments.
FetchInvalid ==
    /\ pc = "loop"
    /\ transmission_q # <<>> \/ retransmission_q # <<>>
    /\ LET q == IF rt THEN retransmission_q ELSE transmission_q
       IN  q # <<>> => Head(q) \notin Fragments \cup {SENDER_ABORT}
    /\ pc' = "crashed"
    /\ UNCHANGED <<transmission_q, retransmission_q, aborts, attempts, rt,
                   buffer, frg, result>>

QueuesDrained ==
    /\ pc = "loop"
    /\ transmission_q = <<>> /\ retransmission_q = <<>>
    /\ Return("drained")
    /\ UNCHANGED <<transmission_q, retransmission_q, aborts, attempts, rt, buffer>>

-----------------------------------------------------------------------------
(* schc_send.                                                               *)

enable_recv == frg_expects_ack(frg) /\ ~rt

\* No answer is awaited.  A loss drawn by ul_loss_rate looks the same.
SendPlain ==
    /\ pc = "schc" /\ ~enable_recv
    /\ IF is_frg_sender_abort(frg) THEN Return("SCHC_SENDER_ABORTED")
                                   ELSE Continue
    /\ UNCHANGED <<transmission_q, retransmission_q, aborts, attempts, buffer>>
    /\ update_rt

\* sendto fails: schc() returns through timeout_procedure before update_rt.
SendPlainFails ==
    /\ SendErrors
    /\ pc = "schc" /\ ~enable_recv
    /\ timeout_procedure(frg)
    /\ UNCHANGED <<rt, buffer>>

\* sgfx_client_send goes on to a blocking recvfrom, whatever sendto returned.
SendRequest ==
    /\ pc = "schc" /\ enable_recv
    /\ buffer' = <<>>
    /\ pc' = "recvfrom"
    /\ UNCHANGED <<transmission_q, retransmission_q, aborts, attempts, rt,
                   frg, result>>

SendRequestFails ==
    /\ SendErrors
    /\ pc = "schc" /\ enable_recv
    /\ buffer' = <<>>
    /\ pc' = "recvfrom_unsent"
    /\ UNCHANGED <<transmission_q, retransmission_q, aborts, attempts, rt,
                   frg, result>>

\* ul_loss_rate drops the request: nothing is sent and nothing is awaited, but
\* schc_recv still reads client->buffer.
LoseRequest ==
    /\ pc = "schc" /\ enable_recv
    /\ buffer' = <<>>
    /\ \/ buffer = <<>> /\ timeout_procedure(frg)
       \/ buffer # <<>> /\ timeout_procedure(frg)       \* dl_loss_rate
       \/ buffer # <<>> /\ process_ack(frg, Head(buffer))
    /\ update_rt

-----------------------------------------------------------------------------
(* The recvfrom of sgfx_client_send, then schc_recv.                        *)

Answer(ack) ==
    /\ pc = "recvfrom"
    /\ UNCHANGED buffer
    /\ IF IsAllZero(ack) THEN timeout_procedure(frg)
                         ELSE process_ack(frg, ack)
    /\ update_rt

\* dl_loss_rate drops an answer that was received.
LoseAnswer ==
    /\ pc = "recvfrom"
    /\ timeout_procedure(frg)
    /\ UNCHANGED buffer
    /\ update_rt

\* SO_RCVTIMEO: schc_send fails.
Expire ==
    /\ pc = "recvfrom"
    /\ timeout_procedure(frg)
    /\ UNCHANGED <<rt, buffer>>

\* A message arrives although the request was not sent.  schc_send fails and
\* leaves the message in client->buffer.
AnswerUnsent(ack) ==
    /\ pc = "recvfrom_unsent"
    /\ buffer' = IF IsAllZero(ack) THEN <<>> ELSE <<ack>>
    /\ timeout_procedure(frg)
    /\ UNCHANGED rt

ExpireUnsent ==
    /\ pc = "recvfrom_unsent"
    /\ timeout_procedure(frg)
    /\ UNCHANGED <<rt, buffer>>

-----------------------------------------------------------------------------
Terminated ==
    /\ pc \in {"returned", "crashed"}
    /\ UNCHANGED vars

Loop == Start \/ FetchTransmission \/ FetchRetransmission \/ FetchInvalid
        \/ QueuesDrained

Send == SendPlain \/ SendPlainFails \/ SendRequest \/ SendRequestFails
        \/ LoseRequest

Receive == \/ \E ack \in Acks : Answer(ack) \/ AnswerUnsent(ack)
           \/ LoseAnswer \/ Expire \/ ExpireUnsent

Next == Loop \/ Send \/ Receive \/ Terminated

Spec == Init /\ [][Next]_vars

\* The sender is one thread that only blocks in a recvfrom with a timeout.
FairSpec == Spec /\ WF_vars(Next)
-----------------------------------------------------------------------------
(* Properties.                                                              *)

Elements(q) == {q[k] : k \in DOMAIN q}

\* schc() is at work on frg.
Busy == pc \in {"schc", "recvfrom", "recvfrom_unsent"}

\* The queues hold pointers within their capacity; results are what
\* sender_start returns ("error" is -1, "drained" is 0).
TypeOK ==
    /\ transmission_q \in Seq(Pointers) /\ Len(transmission_q) <= NbFragments
    /\ retransmission_q \in Seq(Pointers) /\ Len(retransmission_q) <= NbFragments
    /\ aborts \subseteq Pointers
    /\ attempts \in 0..AttemptsBound
    /\ rt \in BOOLEAN
    /\ buffer # <<>> => \E ack \in Acks : buffer = <<ack>>
    /\ frg \in Fragments \cup {SENDER_ABORT, NULL}
    /\ frg = NULL <=> ~Busy
    /\ pc \in {"constructed", "loop", "schc", "recvfrom", "recvfrom_unsent",
               "returned", "crashed"}
    /\ result \in {"none", "error", "drained", "SCHC_SENDER_ABORTED",
                   "SCHC_RECEIVER_ABORTED", "SCHC_COMPLETED"}

\* When sender_start picks a queue by rt (line 232), rt says which queue has
\* fragments to retransmit: update_rt ran after the last change to the queue.
RtNamesQueue == pc = "loop" => (rt <=> retransmission_q # <<>>)

\* update_queues "Returns -1 on errors" (schc_sender.h:91), but not when fq_put
\* "Returns -1 if the queue is full" (fifo_queue.h:47).  Ignoring that loses
\* nothing: whatever report of losses comes next, each fragment it asks for finds
\* room in the retransmission queue, and whenever schc() may put a request back
\* (it awaits an answer, or its send failed) the transmission queue has room for it.
NoRefusedPut ==
    /\ Busy /\ ~rt => Len(transmission_q) < NbFragments
    /\ pc = "recvfrom" =>
           \A ack \in Acks : ack.kind = "loss" /\ ~refused(frg, ack) =>
               queued_losses(ack) = retransmission_q \o missing_fragments(ack)

\* An ACK can only put regular fragments of the packet in the retransmission
\* queue, each once and in the order of the packet, so that the receiver gets
\* every loss filled before the next request.
RetransmissionOrdered ==
    /\ Elements(retransmission_q) \subseteq Fragments \ {All1}
    /\ \A i, j \in DOMAIN retransmission_q :
           i < j => retransmission_q[i] < retransmission_q[j]

\* The last request asks about a packet sent in full: while the All-1 is being
\* sent or answered no regular fragment is still waiting for its first sending.
RequestAfterFragments ==
    Busy /\ frg = All1 => Elements(transmission_q) \subseteq {SENDER_ABORT}

\* There is exactly one ACK-REQ, whatever was timed out, refused or answered,
\* until the transmission ends or a Sender-Abort has replaced it.
RequestPending ==
    pc = "loop" \/ Busy =>
        LET requests == {k \in DOMAIN transmission_q : transmission_q[k] = All1}
            n == Cardinality(requests) + (IF frg = All1 THEN 1 ELSE 0)
        IN  \/ n = 1
            \/ n = 0 /\ SENDER_ABORT \in Elements(transmission_q) \cup {frg}

\* MAX_ACK_REQUESTS bounds the requests in a row that stay unanswered.
RequestsBounded == attempts <= MaxAckRequests \/ attempts <= 1

\* Once a Sender-Abort is sent schc() returns SCHC_SENDER_ABORTED
\* (schc_sender.h:140); it does not wait for an answer to it.
NoWaitAfterAbort == pc \in {"recvfrom", "recvfrom_unsent"} => frg \notin aborts

\* sender_start returns, unless answers (which reset attempts) go on coming in
\* forever, or a sendto that failed has led it to dereference NULL (see
\* RtNamesQueue).
EventuallyReturns ==
    \/ <>(pc = "returned")
    \/ SendErrors /\ <>(pc = "crashed")
    \/ []<><<attempts # 0 /\ attempts' = 0>>_vars
=============================================================================
