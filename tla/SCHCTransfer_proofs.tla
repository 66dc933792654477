------------------------ MODULE SCHCTransfer_proofs ------------------------
(***************************************************************************)
(* What the sender and a truthful receiver do together, for every packet,   *)
(* Rule and number of faults.  Every step of the composition is a step of   *)
(* the sender against a peer whose answers are in Acks, so that the         *)
(* invariants of the sender hold; what is added is about the answers that   *)
(* are on their way, and about the faults each unanswered request has cost. *)
(***************************************************************************)
EXTENDS SCHCTransfer, SCHCSender_proofs

-----------------------------------------------------------------------------
(* Invariants.                                                              *)

NamesLosses(ack) ==
    \A k \in DOMAIN ack.tuples :
        ~frgs_arent_missing(ack.tuples[k].window, ack.tuples[k].bitmap)

\* What an answer says is true of what the receiver has now: a report of losses
\* names no window without a loss, and a complete ACK is sent for the last
\* window of a packet that is there.
Truthful(ack) ==
    \/ ack.kind = "receiver_abort"
    \/ /\ ack.kind = "complete"
       /\ ack.tuples = Blank(LastWindow)
       /\ received = Fragments
    \/ ack.kind = "loss" /\ NamesLosses(ack)

InReach == Elements(downlink) \cup Elements(buffer)

NetType ==
    /\ uplink \in Seq(Fragments \cup {SENDER_ABORT})
    /\ downlink \in Seq(Acks)
    /\ received \subseteq Fragments
    /\ peer \in {"open", "aborted", "gave_up"}
    /\ faults \in Nat

SenderInv == IInv /\ ShapeInv /\ PendingInv

TransferInv ==
    /\ SenderInv
    /\ NetType
    /\ \A ack \in InReach : Truthful(ack)
    /\ NoContradiction
    /\ pc # "returned" => result = "none"
    /\ result = "SCHC_COMPLETED" => received = Fragments

\* A request whose answer has not been lost yet is worth one fault.
Counted ==
    \/ peer = "gave_up"
    \/ attempts <= faults
    \/ /\ attempts <= faults + 1
       /\ frg = All1 /\ All1 \notin aborts
       /\ \/ pc = "schc"
          \/ pc = "recvfrom" /\ (All1 \in Elements(uplink) \/ downlink # <<>>)

FaultInv ==
    /\ Counted
    /\ peer = "aborted" \/ SENDER_ABORT \in Elements(uplink) => pc = "returned"
    /\ All1 \in aborts => faults >= MaxAckRequests \/ peer = "gave_up"
    /\ result = "SCHC_SENDER_ABORTED" => All1 \in aborts

-----------------------------------------------------------------------------
(* What the receiver answers.                                               *)

\* The windows of the fragments, and where the All-1 stands in the last one.
LEMMA WindowFacts ==
    ASSUME NEW i \in Fragments
    PROVE  /\ window_id(i) \in 0..LastWindow
           /\ i = WindowSize * window_id(i) + (i % WindowSize)
           /\ i % WindowSize \in Positions
           /\ i # All1 /\ frag_idx(i) = 0 => window_id(i) < LastWindow
           /\ i # All1 /\ window_id(i) = LastWindow
              => i % WindowSize < All1 % WindowSize
<1> DEFINE ws == WindowSize
           d == i \div ws
           r == i % ws
           D == All1 \div ws
           R == All1 % ws
<1>1. ws \in Nat \ {0} /\ i \in Nat /\ All1 \in Nat /\ i <= All1
  BY SenderAssumption DEF Fragments, All1
<1>2. /\ d \in Nat /\ r \in 0..ws - 1 /\ i = ws * d + r
      /\ D \in Nat /\ R \in 0..ws - 1 /\ All1 = ws * D + R
  BY <1>1, DivisionProperties
<1>3. window_id(i) = d /\ LastWindow = D /\ frag_idx(i) = ws - r - 1
  BY DEF window_id, LastWindow, All1, frag_idx
<1>4. Positions = 0..ws - 1
  BY DEF Positions
<1>. HIDE DEF ws, d, r, D, R
<1>5. D < d => ws * D + ws <= ws * d
  BY <1>1, <1>2, Z3
<1>6. ws * D \in Nat /\ ws * d \in Nat
  BY <1>1, <1>2
<1>7. d <= D
  BY <1>1, <1>2, <1>5, <1>6
<1>8. d = D /\ i # All1 => r < R
  BY <1>1, <1>2, <1>6
<1>9. i # All1 /\ ws - r - 1 = 0 => d < D
  BY <1>1, <1>2, <1>7, <1>8
<1>. QED  BY <1>2, <1>3, <1>4, <1>7, <1>8, <1>9 DEF ws, d, r, D, R

LEMMA LastWindowNat == LastWindow \in Nat /\ All1 \in Fragments
<1>1. All1 \in Fragments
  BY SenderAssumption DEF Fragments, All1
<1>2. LastWindow = window_id(All1)
  BY DEF LastWindow, window_id, All1
<1>3. All1 \in Nat /\ WindowSize \in Nat \ {0}
  BY SenderAssumption DEF All1
<1>. QED  BY <1>1, <1>2, <1>3, DivisionProperties DEF window_id

\* A window that lost something is never found clean, given that the receiver
\* has the All-1, whose bit is the last one of its window.
LEMMA LossNotClean ==
    ASSUME NEW v \in 0..LastWindow, NEW has \in SUBSET Fragments,
           has_losses(v, has), v = LastWindow => All1 \in has
    PROVE  ~frgs_arent_missing(v, bitmap_of(v, has))
<1>1. PICK i \in Fragments \ has : window_id(i) = v
  BY DEF has_losses
<1>. DEFINE pos == i % WindowSize
<1>2. v = LastWindow => pos < All1 % WindowSize
  BY <1>1, WindowFacts
<1>3. pos \in bitmap_positions(v)
  BY <1>1, <1>2, WindowFacts DEF bitmap_positions
<1>4. ASSUME NEW f \in has, window_id(f) = v, bit(f) = pos
      PROVE  FALSE
  <2>1. CASE f = All1
    <3>1. v = LastWindow /\ pos = WindowSize - 1
      BY <1>4, <2>1 DEF bit, window_id, LastWindow, All1
    <3>2. WindowSize \in Nat \ {0} /\ All1 \in Fragments
      BY SenderAssumption DEF All1, Fragments
    <3>3. All1 % WindowSize \in 0..WindowSize - 1
      BY <3>2, WindowFacts DEF Positions
    <3>. QED  BY <1>2, <3>1, <3>2, <3>3
  <2>2. CASE f # All1
    <3>1. f % WindowSize = i % WindowSize
      BY <1>4, <2>2 DEF bit
    <3>2. f = WindowSize * v + (f % WindowSize) /\ i = WindowSize * v + (i % WindowSize)
      BY <1>1, <1>4, WindowFacts
    <3>. QED  BY <1>1, <3>1, <3>2
  <2>. QED  BY <2>1, <2>2
<1>5. pos \notin bitmap_of(v, has)
  BY <1>4 DEF bitmap_of
<1>. QED  BY <1>3, <1>5 DEF frgs_arent_missing

\* Any answer is one of Acks.
LEMMA AnswerInAcks ==
    ASSUME NEW w \in 0..LastWindow, NEW has \in SUBSET Fragments
    PROVE  answer(w, has) \in Acks
  BY AcksAreTruthful DEF TruthfulAcks

\* A report of losses has a tuple for each window that lost something.
LEMMA ReportTuples ==
    ASSUME NEW w \in 0..LastWindow, NEW bitmaps, DOMAIN bitmaps \subseteq 0..w
    PROVE  /\ LossAck(bitmaps).kind = "loss"
           /\ \A k \in DOMAIN LossAck(bitmaps).tuples :
                  LET t == LossAck(bitmaps).tuples[k]
                  IN  t.window \in DOMAIN bitmaps /\ t.bitmap = bitmaps[t.window]
<1> DEFINE S == DOMAIN bitmaps
           a == Ascending(S)
           ack == LossAck(bitmaps)
<1>1. w \in Int /\ 0..w \subseteq Int
  BY LastWindowNat
<1>2. IsFiniteSet(0..w)
  BY <1>1, FS_Interval
<1>3. S \in SUBSET Int /\ IsFiniteSet(S)
  <2>. HIDE DEF S
  <2>1. S \subseteq 0..w
    BY DEF S
  <2>. QED  BY <1>1, <1>2, <2>1, FS_Subset
<1>4. a \in Seq(S)
  BY <1>3, InOrder
<1>5. /\ ack.kind = "loss"
      /\ ack.tuples = [k \in DOMAIN a |-> [window |-> a[k], bitmap |-> bitmaps[a[k]]]]
  BY DEF LossAck
<1>. HIDE DEF a, S, ack
<1>6. \A k \in DOMAIN a : a[k] \in S
  BY <1>4, LenProperties, ElementOfSeq
<1>. QED  BY <1>5, <1>6 DEF S, ack

\* No answer is about a window past the last.
LEMMA AnswersAboutPacket == PacketOnly
<1> SUFFICES ASSUME NEW ack \in Acks, ack.kind # "receiver_abort",
                    NEW k \in DOMAIN ack.tuples
             PROVE  ack.tuples[k].window \in 0..LastWindow
  BY DEF PacketOnly, AboutPacket
<1>1. PICK w \in 0..LastWindow, has \in SUBSET Fragments : ack = answer(w, has)
  BY AcksAreTruthful DEF TruthfulAcks, ReceiverAbort
<1> DEFINE lost == {v \in 0..w : has_losses(v, has)}
           bitmaps == [v \in lost |-> bitmap_of(v, has)]
<1>2. w \in 0..LastWindow /\ 0..w \subseteq 0..LastWindow
  BY LastWindowNat
<1>3. CASE ack = CompleteAck(w)
  BY <1>2, <1>3 DEF CompleteAck, Blank
<1>4. CASE ack = LossAck(bitmaps)
  <2>1. DOMAIN bitmaps = lost /\ lost \subseteq 0..w
    OBVIOUS
  <2>. HIDE DEF bitmaps, lost
  <2>. QED  BY <1>2, <1>4, <2>1, ReportTuples
<1>. QED  BY <1>1, <1>3, <1>4 DEF answer

\* An answer to the All-1, or the report of losses in answer to an All-0, is
\* true of a receiver that has the fragment it answers.
LEMMA AnswerIsTruthful ==
    ASSUME NEW m \in Fragments, NEW has \in SUBSET Fragments, m \in has,
           LET ack == answer(window_id(m), has)
           IN  m = All1 \/ (frag_idx(m) = 0 /\ ack.kind = "loss")
    PROVE  LET ack == answer(window_id(m), has)
           IN  \/ /\ ack.kind = "complete"
                  /\ ack.tuples = Blank(LastWindow) /\ has = Fragments
               \/ ack.kind = "loss" /\ NamesLosses(ack)
<1> DEFINE w == window_id(m)
           lost == {v \in 0..w : has_losses(v, has)}
           ack == answer(w, has)
<1>1. w \in 0..LastWindow
  BY WindowFacts
<1>2. m = All1 => w = LastWindow
  BY DEF window_id, LastWindow, All1
<1>3. CASE lost = {}
  <2>1. ack = CompleteAck(w)
    BY <1>3 DEF answer
  <2>2. ack.kind = "complete" /\ ack.tuples = Blank(w)
    BY <2>1 DEF CompleteAck
  <2>3. w = LastWindow
    BY <1>2, <2>2
  <2>4. has = Fragments
    <3>1. ASSUME NEW i \in Fragments \ has
          PROVE  FALSE
      <4>1. window_id(i) \in 0..w
        BY <2>3, WindowFacts
      <4>. QED  BY <1>3, <4>1 DEF has_losses
    <3>. QED  BY <3>1
  <2>. QED  BY <2>2, <2>3, <2>4
<1>4. CASE lost # {}
  <2> DEFINE bitmaps == [v \in lost |-> bitmap_of(v, has)]
  <2>1. ack = LossAck(bitmaps)
    BY <1>4 DEF answer
  <2>2. /\ DOMAIN bitmaps = lost /\ lost \subseteq 0..w
        /\ \A v \in lost : bitmaps[v] = bitmap_of(v, has)
    OBVIOUS
  <2>3. ASSUME NEW v \in lost
        PROVE  ~frgs_arent_missing(v, bitmap_of(v, has))
    <3>1. v \in 0..LastWindow /\ has_losses(v, has)
      BY <1>1, LastWindowNat
    <3>2. v = LastWindow => w = LastWindow
      BY <1>1, LastWindowNat
    <3>3. w = LastWindow => m = All1
      BY <1>1, WindowFacts
    <3>. QED  BY <3>1, <3>2, <3>3, LossNotClean
  <2>. HIDE DEF bitmaps, lost, ack, w
  <2>4. /\ ack.kind = "loss"
        /\ \A k \in DOMAIN ack.tuples :
              /\ ack.tuples[k].window \in lost
              /\ ack.tuples[k].bitmap = bitmaps[ack.tuples[k].window]
    BY <1>1, <2>1, <2>2, ReportTuples
  <2>5. NamesLosses(ack)
    BY <2>2, <2>3, <2>4 DEF NamesLosses
  <2>. QED  BY <2>4, <2>5 DEF ack, w
<1>. QED  BY <1>3, <1>4

-----------------------------------------------------------------------------
(* The sender and a true answer.                                            *)

\* The sender never finds fault with an answer that is true, not even when it
\* is the answer to an earlier request, and completes on a true one only.
LEMMA TruthfulAck ==
    ASSUME SenderInv, NoContradiction, Busy, frg_expects_ack(frg),
           NEW ack \in Acks, Truthful(ack), process_ack(frg, ack)
    PROVE  /\ UNCHANGED aborts
           /\ attempts' = 0
           /\ \/ pc' = "loop" /\ UNCHANGED result
              \/ pc' = "returned" /\ result' = "SCHC_RECEIVER_ABORTED"
              \/ /\ pc' = "returned" /\ result' = "SCHC_COMPLETED"
                 /\ received = Fragments
<1>1. frg # SENDER_ABORT
  BY DEF SenderInv, PendingInv, AbortMarked, Queued, NoContradiction
<1>2. CASE ack.kind = "receiver_abort" \/ completes(frg, ack)
  BY <1>2 DEF process_ack, Return, completes, Truthful
<1>3. CASE ack.kind # "receiver_abort" /\ ~completes(frg, ack)
  <2>1. attempts' = 0 /\ update_queues(frg, ack) /\ Continue
    BY <1>3 DEF process_ack
  <2>2. CASE ack.kind = "complete"
    <3>1. ack.tuples = Blank(LastWindow)
      BY <2>2 DEF Truthful
    <3>2. /\ \A k \in DOMAIN ack.tuples : ack.tuples[k].window = LastWindow
          /\ get_ack_w(ack) = LastWindow
      BY <3>1 DEF Blank, get_ack_w
    <3>3. ~is_frg_all_1(frg)
      BY <1>3, <2>2, <3>2 DEF completes
    <3>4. /\ frg \in Fragments \ {All1} /\ frag_idx(frg) = 0
          /\ frg \notin aborts
      BY <1>1, <3>3 DEF frg_expects_ack, is_frg_all_0, SenderInv, IInv, TypeOK
    <3>5. get_frg_window(frg) < LastWindow
      BY <3>4, WindowFacts DEF get_frg_window
    <3>6. get_frg_window(frg) \in Int
      BY <3>4, WindowFacts, LastWindowNat DEF get_frg_window
    <3>7. Greatest(tuples_read(ack)) \in DOMAIN ack.tuples
      BY AcksAssumption, TuplesRead
    <3>8. refused(frg, ack)
      BY <3>2, <3>5, <3>6, <3>7, LastWindowNat DEF refused
    <3>. QED  BY <2>1, <3>8 DEF update_queues, Continue
  <2>3. CASE ack.kind = "loss"
    <3>1. clean_tuples(ack) = {}
      BY <2>3, AcksAssumption, TuplesRead
         DEF Truthful, NamesLosses, clean_tuples
    <3>. QED  BY <2>1, <3>1 DEF update_queues, Continue
  <2>. QED  BY <1>3, <2>2, <2>3 DEF Truthful
<1>. QED  BY <1>2, <1>3

\* After a timeout only the All-1 may have become a Sender-Abort.
LEMMA TimeoutStep ==
    ASSUME SenderInv, NoContradiction, Busy, timeout_procedure(frg)
    PROVE  /\ NoContradiction'
           /\ All1 \in aborts' => All1 \in aborts \/ (gives_up /\ frg = All1)
           /\ UNCHANGED attempts
           /\ frg' = NULL
           /\ \/ pc' = "loop" /\ UNCHANGED result
              \/ pc' = "returned" /\ result' = "error"
<1>1. frg # SENDER_ABORT
  BY DEF SenderInv, PendingInv, AbortMarked, Queued, NoContradiction
<1>2. is_frg_all_1(frg) => frg = All1
  BY <1>1, All1Cells DEF SenderInv, IInv
<1>. QED  BY <1>1, <1>2 DEF timeout_procedure, Return, Continue, NoContradiction,
                            generate_sender_abort

-----------------------------------------------------------------------------
(* The composition.                                                         *)

\* The elements of a queue, and of what is left or added.
LEMMA QueueElements ==
    ASSUME NEW T, NEW q \in Seq(T)
    PROVE  /\ Elements(q) \subseteq T
           /\ q # <<>> => /\ Tail(q) \in Seq(T)
                          /\ Elements(q) = {Head(q)} \cup Elements(Tail(q))
           /\ \A x \in T : /\ Append(q, x) \in Seq(T)
                           /\ Append(q, x) # <<>>
                           /\ Elements(Append(q, x)) = Elements(q) \cup {x}
<1> DEFINE n == Len(q)
<1>1. n \in Nat /\ DOMAIN q = 1..n /\ \A k \in 1..n : q[k] \in T
  BY LenProperties, ElementOfSeq
<1>2. ASSUME q # <<>>
      PROVE  Tail(q) \in Seq(T) /\ Elements(q) = {Head(q)} \cup Elements(Tail(q))
  <2>1. /\ Tail(q) \in Seq(T) /\ Len(Tail(q)) = n - 1
        /\ \A k \in 1..n - 1 : Tail(q)[k] = q[k + 1]
    BY <1>2, HeadTailProperties
  <2>2. DOMAIN Tail(q) = 1..n - 1
    BY <2>1, LenProperties
  <2>3. n >= 1 /\ Head(q) = q[1]
    BY <1>1, <1>2, EmptySeq
  <2>. HIDE DEF n
  <2>4. \A k \in 1..n : k = 1 \/ (k - 1 \in 1..n - 1 /\ (k - 1) + 1 = k)
    BY <1>1
  <2>5. 1 \in 1..n /\ \A k \in 1..n - 1 : k + 1 \in 1..n
    BY <1>1, <2>3
  <2>6. ASSUME NEW k \in 1..n
        PROVE  q[k] \in {Head(q)} \cup Elements(Tail(q))
    <3>1. k = 1 \/ (k - 1 \in DOMAIN Tail(q) /\ Tail(q)[k - 1] = q[k])
      BY <2>1, <2>2, <2>4
    <3>. QED  BY <2>3, <3>1 DEF Elements
  <2>7. {Head(q)} \cup Elements(Tail(q)) \subseteq Elements(q)
    BY <1>1, <2>1, <2>2, <2>3, <2>5 DEF Elements
  <2>. QED  BY <1>1, <2>1, <2>6, <2>7 DEF Elements
<1>3. ASSUME NEW x \in T
      PROVE  /\ Append(q, x) \in Seq(T) /\ Append(q, x) # <<>>
             /\ Elements(Append(q, x)) = Elements(q) \cup {x}
  <2> DEFINE a == Append(q, x)
  <2>1. /\ a \in Seq(T) /\ a # <<>> /\ Len(a) = n + 1 /\ a[n + 1] = x
        /\ \A k \in 1..n : a[k] = q[k]
    BY AppendProperties
  <2>2. DOMAIN a = 1..n + 1
    BY <2>1, LenProperties
  <2>. HIDE DEF a, n
  <2>3. \A k \in DOMAIN a : k \in 1..n \/ k = n + 1
    BY <1>1, <2>2
  <2>4. n + 1 \in DOMAIN a /\ 1..n \subseteq DOMAIN a
    BY <1>1, <2>2
  <2>5. Elements(a) = Elements(q) \cup {x}
    BY <1>1, <2>1, <2>3, <2>4 DEF Elements
  <2>. QED  BY <2>1, <2>5 DEF a
<1>4. Elements(q) \subseteq T
  BY <1>1 DEF Elements
<1>. QED  BY <1>2, <1>3, <1>4

\* Every step of the composition is one of the sender, or leaves it alone.
LEMMA SenderSteps ==
    ASSUME downlink \in Seq(Acks), [TransferNext]_tvars
    PROVE  [Next]_vars
<1>1. downlink # <<>> => Head(downlink) \in Acks
  BY HeadTailProperties
<1>2. CASE Sender
  BY <1>1, <1>2 DEF Sender, Local, TransmitPlain, TransmitRequest, LoseOnSend,
                    ReadAnswer, LoseOnRead, TimeOut, Next, Send, Receive
<1>3. CASE Receiver \/ LoseAnswerOnTheWay \/ Terminated \/ UNCHANGED tvars
  BY <1>3 DEF Receiver, LoseAnswerOnTheWay, Terminated, tvars
<1>. QED  BY <1>2, <1>3 DEF TransferNext

\* Every step keeps the invariants of the sender.
LEMMA SenderInvNext ==
    ASSUME SenderInv, downlink \in Seq(Acks), [TransferNext]_tvars
    PROVE  SenderInv'
<1>1. [Next]_vars
  BY SenderSteps
<1>. QED  BY <1>1, AnswersAboutPacket, NextInv, ShapeNext, PendingNext DEF SenderInv

\* What can become of the outcome in a step of the sender.
Outcome ==
    /\ pc # "returned"
    /\ \/ pc' # "returned" /\ UNCHANGED result
       \/ /\ pc' = "returned"
          /\ result' \in {"SCHC_SENDER_ABORTED", "SCHC_RECEIVER_ABORTED", "error",
                          "SCHC_COMPLETED"}
          /\ result' = "SCHC_COMPLETED" => received = Fragments

\* A step of the sender contradicts nothing, and returns a true outcome.
LEMMA SenderOutcome ==
    ASSUME TransferInv, Sender
    PROVE  NoContradiction' /\ Outcome
<1>. USE DEF TransferInv, Outcome
<1>1. CASE Start \/ FetchTransmission \/ FetchRetransmission \/ FetchInvalid
  BY <1>1 DEF Start, FetchTransmission, FetchRetransmission, Fetch, FetchInvalid,
              NoContradiction
<1>2. ~QueuesDrained
  <2> SUFFICES ASSUME QueuesDrained
               PROVE  FALSE
    OBVIOUS
  <2>1. Elements(transmission_q) = {} /\ frg = NULL /\ pc = "loop"
    BY DEF QueuesDrained, Elements, SenderInv, IInv, TypeOK, Busy
  <2>. QED  BY <2>1, AsksFacts DEF SenderInv, PendingInv, Pending, Queued
<1>3. CASE SendPlain
  BY <1>3 DEF SendPlain, Return, Continue, NoContradiction
<1>4. CASE SendRequest \/ SendRequestFails
  BY <1>4 DEF SendRequest, SendRequestFails, NoContradiction
<1>5. CASE SendPlainFails \/ LoseAnswer \/ Expire \/ ExpireUnsent
  BY <1>5, TimeoutStep DEF SendPlainFails, LoseAnswer, Expire, ExpireUnsent, Busy
<1>6. CASE LoseRequest
  <2>1. Busy /\ pc # "returned" /\ frg_expects_ack(frg)
    BY <1>6 DEF LoseRequest, Busy, enable_recv
  <2>2. buffer # <<>> => /\ Head(buffer) \in Acks
                         /\ Head(buffer) \in Elements(buffer)
    BY DEF SenderInv, IInv, TypeOK, Elements
  <2>3. CASE timeout_procedure(frg)
    BY <2>1, <2>3, TimeoutStep
  <2>4. CASE buffer # <<>> /\ process_ack(frg, Head(buffer))
    BY <2>1, <2>2, <2>4, TruthfulAck DEF InReach, NoContradiction
  <2>. QED  BY <1>6, <2>3, <2>4 DEF LoseRequest
<1>7. CASE ReadAnswer
  <2>1. /\ Head(downlink) \in Acks /\ Head(downlink) \in Elements(downlink)
    BY <1>7, HeadTailProperties, QueueElements DEF ReadAnswer, NetType
  <2>2. Busy /\ pc # "returned" /\ frg_expects_ack(frg)
    BY <1>7 DEF ReadAnswer, Answer, AnswerUnsent, Busy, SenderInv, PendingInv,
                AwaitsRequest
  <2>3. CASE timeout_procedure(frg)
    BY <2>2, <2>3, TimeoutStep
  <2>4. CASE process_ack(frg, Head(downlink))
    BY <2>1, <2>2, <2>4, TruthfulAck DEF InReach, NoContradiction
  <2>. QED  BY <1>7, <2>3, <2>4 DEF ReadAnswer, Answer, AnswerUnsent
<1>. QED  BY <1>1, <1>2, <1>3, <1>4, <1>5, <1>6, <1>7
          DEF Sender, Local, Loop, TransmitPlain, TransmitRequest, LoseOnSend,
              LoseOnRead, TimeOut

\* The channel and the receiver are left alone by the sender, except that it
\* sends copies of what its cells hold and takes answers in order.
LEMMA SenderOnChannel ==
    ASSUME SenderInv, NetType, Sender
    PROVE  /\ NetType'
           /\ UNCHANGED <<received, peer>>
           /\ InReach' \subseteq InReach
           /\ uplink' = uplink \/ uplink' = Append(uplink, content(frg))
<1>. USE DEF NetType
<1>1. faults' = faults \/ faults' = faults + 1
  BY DEF Sender, Local, TransmitPlain, TransmitRequest, Transmit, LoseOnSend,
         ReadAnswer, LoseOnRead, TimeOut, Fault, net
<1>2. UNCHANGED <<received, peer>>
  BY DEF Sender, Local, TransmitPlain, TransmitRequest, Transmit, LoseOnSend,
         ReadAnswer, LoseOnRead, TimeOut, net
<1>3. /\ uplink' = uplink \/ uplink' = Append(uplink, content(frg))
      /\ uplink' \in Seq(Fragments \cup {SENDER_ABORT})
  <2>1. CASE UNCHANGED uplink
    BY <2>1
  <2>2. CASE Busy /\ uplink' = Append(uplink, content(frg))
    <3>1. content(frg) \in Fragments \cup {SENDER_ABORT}
      BY <2>2 DEF content, SenderInv, IInv, TypeOK
    <3>. QED  BY <2>2, <3>1, QueueElements
  <2>. QED  BY <2>1, <2>2
            DEF Sender, Local, TransmitPlain, TransmitRequest, Transmit, SendPlain,
                SendRequest, Busy, LoseOnSend, ReadAnswer, LoseOnRead, TimeOut, net
<1>4. \/ UNCHANGED downlink
      \/ downlink # <<>> /\ downlink' = Tail(downlink)
  BY DEF Sender, Local, TransmitPlain, TransmitRequest, Transmit, LoseOnSend,
         ReadAnswer, LoseOnRead, TimeOut, net
<1>5. downlink' \in Seq(Acks) /\ Elements(downlink') \subseteq Elements(downlink)
  <2>1. CASE UNCHANGED downlink
    BY <2>1
  <2>2. CASE downlink # <<>> /\ downlink' = Tail(downlink)
    BY <2>2, QueueElements
  <2>. QED  BY <1>4, <2>1, <2>2
<1>6. Elements(buffer') \subseteq InReach
  <2>1. CASE Local \/ TransmitPlain \/ TransmitRequest \/ LoseOnSend \/ LoseOnRead
             \/ TimeOut
    <3>1. buffer' \in {buffer, <<>>}
      BY <2>1 DEF Local, Loop, Start, FetchTransmission, FetchRetransmission,
              FetchInvalid, QueuesDrained, TransmitPlain, SendPlain, TransmitRequest,
              SendRequest, LoseOnSend, SendPlainFails, SendRequestFails,
              LoseRequest, LoseOnRead, LoseAnswer, TimeOut, Expire, ExpireUnsent
    <3>. QED  BY <3>1 DEF InReach, Elements
  <2>2. CASE ReadAnswer
    <3>1. buffer' \in {buffer, <<>>, <<Head(downlink)>>}
      BY <2>2 DEF ReadAnswer, Answer, AnswerUnsent
    <3>2. Head(downlink) \in Elements(downlink)
      BY <2>2, QueueElements DEF ReadAnswer
    <3>3. Elements(<<Head(downlink)>>) = {Head(downlink)} /\ Elements(<<>>) = {}
      BY DEF Elements
    <3>. QED  BY <3>1, <3>2, <3>3 DEF InReach
  <2>. QED  BY <2>1, <2>2 DEF Sender
<1>7. InReach' \subseteq InReach
  BY <1>5, <1>6 DEF InReach, Elements
<1>. QED  BY <1>1, <1>2, <1>3, <1>5, <1>7

\* The receiver says nothing.
ReceiverSilent(m) ==
    /\ UNCHANGED downlink
    /\ peer' = "aborted" => m = SENDER_ABORT \/ peer = "aborted"
    /\ peer = "gave_up" => peer' = "gave_up"
    /\ peer = "open" => m # All1

\* It says something that is true.
ReceiverReplies ==
    /\ peer = "open" /\ peer' \in {"open", "gave_up"}
    /\ \E ack \in Acks : downlink' = Append(downlink, ack) /\ Truthful(ack)'

\* What the receiver does with a message.
LEMMA ReceiverOnChannel ==
    ASSUME NetType, Receiver
    PROVE  /\ UNCHANGED <<vars, faults>>
           /\ uplink # <<>> /\ uplink' = Tail(uplink)
           /\ Head(uplink) \in Fragments \cup {SENDER_ABORT}
           /\ \/ UNCHANGED received
              \/ /\ Head(uplink) \in Fragments
                 /\ received' = received \cup {Head(uplink)}
           /\ ReceiverSilent(Head(uplink)) \/ ReceiverReplies
<1>. DEFINE m   == Head(uplink)
            has == received \cup {m}
            ack == answer(window_id(m), has)
<1>1. uplink # <<>> /\ uplink' = Tail(uplink) /\ UNCHANGED <<vars, faults>>
  BY DEF Receiver
<1>2. m \in Fragments \cup {SENDER_ABORT} /\ received \subseteq Fragments
  BY <1>1, HeadTailProperties DEF NetType
<1>3. \/ /\ m = SENDER_ABORT \/ peer # "open"
         /\ peer' = IF peer = "open" THEN "aborted" ELSE peer
         /\ UNCHANGED <<downlink, received>>
      \/ /\ m # SENDER_ABORT /\ received' = has /\ UNCHANGED peer
         /\ m # All1 /\ UNCHANGED downlink
      \/ /\ m # SENDER_ABORT /\ peer = "open" /\ received' = has /\ UNCHANGED peer
         /\ downlink' = Append(downlink, ack)
         /\ m = All1 \/ (frag_idx(m) = 0 /\ ack.kind = "loss")
      \/ /\ m = All1 /\ peer = "open" /\ peer' = "gave_up" /\ received' = has
         /\ downlink' = Append(downlink, ReceiverAbort)
  BY DEF Receiver
<1>4. ASSUME m \in Fragments, received' = has,
             m = All1 \/ (frag_idx(m) = 0 /\ ack.kind = "loss")
      PROVE  \E a \in Acks : a = ack /\ Truthful(a)'
  <2>1. has \in SUBSET Fragments /\ m \in has
    BY <1>2, <1>4
  <2>2. \/ ack.kind = "complete" /\ ack.tuples = Blank(LastWindow)
           /\ has = Fragments
        \/ ack.kind = "loss" /\ NamesLosses(ack)
    <3>. HIDE DEF has
    <3>. QED  BY <1>4, <2>1, AnswerIsTruthful
  <2>3. ack \in Acks
    <3>. HIDE DEF has
    <3>. QED  BY <1>4, <2>1, AnswerInAcks, WindowFacts
  <2>4. PICK a \in Acks : a = ack
    BY <2>3
  <2>5. \/ a.kind = "complete" /\ a.tuples = Blank(LastWindow)
           /\ has = Fragments
        \/ a.kind = "loss" /\ NamesLosses(a)
    BY <2>2, <2>4
  <2>6. Truthful(a)'
    <3>. HIDE DEF ack, has
    <3>. QED  BY <1>4, <2>5 DEF Truthful
  <2>. QED  BY <2>4, <2>6
<1>5. ReceiverAbort \in Acks
  BY AcksAreTruthful DEF TruthfulAcks
<1>6. SENDER_ABORT # All1 /\ All1 \in Fragments
  BY AsksFacts, LastWindowNat
<1>. HIDE DEF m, has, ack
<1>7. UNCHANGED received \/ (m \in Fragments /\ received' = has)
  BY <1>2, <1>3, <1>6
<1>8. ASSUME m \in Fragments, peer = "open", received' = has, UNCHANGED peer,
             downlink' = Append(downlink, ack),
             m = All1 \/ (frag_idx(m) = 0 /\ ack.kind = "loss")
      PROVE  ReceiverReplies
  <2>1. PICK a \in Acks : a = ack /\ Truthful(a)'
    BY <1>4, <1>8
  <2>2. downlink' = Append(downlink, a) /\ peer' \in {"open", "gave_up"}
    BY <1>8, <2>1
  <2>3. \E b \in Acks : downlink' = Append(downlink, b) /\ Truthful(b)'
    BY <2>1, <2>2
  <2>. QED  BY <1>8, <2>2, <2>3 DEF ReceiverReplies
<1>9. ASSUME peer = "open", peer' = "gave_up",
             downlink' = Append(downlink, ReceiverAbort)
      PROVE  ReceiverReplies
  <2>1. PICK a \in Acks : a = ReceiverAbort
    BY <1>5
  <2>2. a.kind = "receiver_abort"
    BY <2>1 DEF ReceiverAbort
  <2>3. Truthful(a)'
    BY <2>2 DEF Truthful
  <2>4. downlink' = Append(downlink, a)
    BY <1>9, <2>1
  <2>5. \E b \in Acks : downlink' = Append(downlink, b) /\ Truthful(b)'
    BY <2>3, <2>4
  <2>. QED  BY <1>9, <2>5 DEF ReceiverReplies
<1>10. ReceiverSilent(m) \/ ReceiverReplies
  BY <1>2, <1>3, <1>6, <1>8, <1>9 DEF ReceiverSilent
<1>. QED  BY <1>1, <1>2, <1>7, <1>10 DEF m, has

\* What was true of the receiver stays true: it forgets no fragment.
LEMMA StaysTruthful ==
    ASSUME received \subseteq received', received' \subseteq Fragments,
           NEW ack \in Acks, Truthful(ack)
    PROVE  Truthful(ack)'
  BY DEF Truthful

LEMMA TransferStart == TransferInit => TransferInv
<1> SUFFICES ASSUME TransferInit
             PROVE  TransferInv
  OBVIOUS
<1>1. Init
  BY DEF TransferInit
<1>2. SenderInv
  <2>1. PendingInv
    BY <1>1, AsksFacts DEF Init, PendingInv, AbortMarked, AwaitsRequest, Pending,
                           Queued, Busy, Elements, Asks
  <2>. QED  BY <1>1, <2>1, InitInv, ShapeInit DEF SenderInv
<1>3. NetType
  BY DEF TransferInit, NetType
<1>4. InReach = {}
  BY DEF TransferInit, Init, InReach, Elements
<1>. QED  BY <1>1, <1>2, <1>3, <1>4 DEF TransferInv, Init, NoContradiction

LEMMA TransferInvNext == TransferInv /\ [TransferNext]_tvars => TransferInv'
<1> SUFFICES ASSUME TransferInv, [TransferNext]_tvars
             PROVE  TransferInv'
  OBVIOUS
<1>1. SenderInv /\ NetType /\ downlink \in Seq(Acks)
  BY DEF TransferInv, NetType
<1>2. SenderInv'
  BY <1>1, SenderInvNext
<1>3. InReach \subseteq Acks
  BY <1>1, QueueElements DEF InReach, SenderInv, IInv, TypeOK, Elements
<1>4. \A ack \in InReach : Truthful(ack)
  BY DEF TransferInv
<1>5. CASE Sender
  <2>1. NetType' /\ UNCHANGED received /\ InReach' \subseteq InReach
    BY <1>1, <1>5, SenderOnChannel
  <2>2. ASSUME NEW ack \in InReach'
        PROVE  Truthful(ack)'
    <3>1. ack \in Acks /\ Truthful(ack)
      BY <1>3, <1>4, <2>1, <2>2
    <3>. QED  BY <2>1, <3>1, StaysTruthful DEF NetType
  <2>3. NoContradiction' /\ Outcome
    BY <1>5, SenderOutcome
  <2>. QED  BY <1>2, <2>1, <2>2, <2>3 DEF TransferInv, Outcome
<1>6. CASE Receiver
  <2>1. /\ UNCHANGED <<vars, faults>>
        /\ uplink # <<>> /\ uplink' = Tail(uplink)
        /\ received \subseteq received' /\ received' \subseteq Fragments
        /\ ReceiverSilent(Head(uplink)) \/ ReceiverReplies
    BY <1>1, <1>6, ReceiverOnChannel DEF NetType
  <2>2. uplink' \in Seq(Fragments \cup {SENDER_ABORT})
    BY <1>1, <2>1, QueueElements DEF NetType
  <2>3. peer' \in {"open", "aborted", "gave_up"}
    BY <1>1, <1>6 DEF NetType, Receiver
  <2>4. \/ UNCHANGED downlink
        \/ \E ack \in Acks : downlink' = Append(downlink, ack) /\ Truthful(ack)'
    BY <2>1 DEF ReceiverSilent, ReceiverReplies
  <2>5. /\ downlink' \in Seq(Acks)
        /\ \A ack \in Elements(downlink') : ack \in Elements(downlink)
                                            \/ (ack \in Acks /\ Truthful(ack)')
    <3>1. CASE UNCHANGED downlink
      BY <1>1, <3>1
    <3>2. CASE \E ack \in Acks : downlink' = Append(downlink, ack) /\ Truthful(ack)'
      <4>1. PICK a \in Acks : downlink' = Append(downlink, a) /\ Truthful(a)'
        BY <3>2
      <4>2. /\ downlink' \in Seq(Acks)
            /\ Elements(downlink') = Elements(downlink) \cup {a}
        BY <1>1, <4>1, QueueElements
      <4>. QED  BY <4>1, <4>2
    <3>. QED  BY <2>4, <3>1, <3>2
  <2>6. ASSUME NEW ack \in InReach'
        PROVE  Truthful(ack)'
    <3>1. CASE ack \in InReach
      BY <1>3, <1>4, <2>1, <3>1, StaysTruthful
    <3>2. CASE ack \notin InReach
      <4>1. ack \in Elements(downlink') \cup Elements(buffer)
        BY <2>1 DEF InReach, vars, Elements
      <4>. QED  BY <2>5, <3>2, <4>1 DEF InReach
    <3>. QED  BY <3>1, <3>2
  <2>7. NetType'
    BY <1>1, <2>1, <2>2, <2>3, <2>5 DEF NetType
  <2>8. /\ NoContradiction' /\ (pc' # "returned" => result' = "none")
        /\ result' = "SCHC_COMPLETED" => received' = Fragments
    BY <2>1 DEF TransferInv, NoContradiction, vars
  <2>. QED  BY <1>2, <2>6, <2>7, <2>8 DEF TransferInv
<1>7. CASE LoseAnswerOnTheWay
  <2>1. /\ UNCHANGED <<vars, uplink, received, peer>>
        /\ faults' = faults + 1
        /\ downlink # <<>> /\ downlink' = Tail(downlink)
    BY <1>7 DEF LoseAnswerOnTheWay, Fault
  <2>2. /\ downlink' \in Seq(Acks)
        /\ Elements(downlink') \subseteq Elements(downlink)
    BY <1>1, <2>1, QueueElements
  <2>3. InReach' \subseteq InReach
    BY <2>1, <2>2 DEF InReach, vars, Elements
  <2>4. ASSUME NEW ack \in InReach'
        PROVE  Truthful(ack)'
    <3>1. ack \in Acks /\ Truthful(ack)
      BY <1>3, <1>4, <2>3, <2>4
    <3>. QED  BY <1>1, <2>1, <3>1, StaysTruthful DEF NetType
  <2>5. NetType'
    BY <1>1, <2>1, <2>2 DEF NetType
  <2>. QED  BY <1>2, <2>1, <2>4, <2>5 DEF TransferInv, NoContradiction, vars
<1>8. CASE (Terminated /\ UNCHANGED net) \/ UNCHANGED tvars
  <2>1. UNCHANGED <<vars, net>>
    BY <1>8 DEF Terminated, tvars
  <2>2. ASSUME NEW ack \in InReach'
        PROVE  Truthful(ack)'
    <3>1. ack \in Acks /\ Truthful(ack)
      BY <1>3, <1>4, <2>1, <2>2 DEF InReach, vars, net, Elements
    <3>. QED  BY <1>1, <2>1, <3>1, StaysTruthful DEF NetType, net
  <2>. QED  BY <1>1, <1>2, <2>1, <2>2
            DEF TransferInv, NetType, NoContradiction, vars, net
<1>. QED  BY <1>5, <1>6, <1>7, <1>8 DEF TransferNext

LEMMA TransferInvariant == TransferSpec => []TransferInv
  BY TransferStart, TransferInvNext, PTL DEF TransferSpec

-----------------------------------------------------------------------------
(* The theorems.                                                            *)

\* The "Compound ACK reported no missing Fragment" of schc_sender.c is reached
\* by no answer of a truthful receiver, however late it is read, for every
\* packet, window size, Rule and number of faults.
THEOREM TruthIsNeverContradicted == TransferSpec => []NoContradiction
<1>1. TransferInv => NoContradiction
  BY DEF TransferInv
<1>. QED  BY <1>1, TransferInvariant, PTL

\* The transfer keeps the promise of PacketTransfer: fragments only arrive, and
\* sender_start returns once, with SCHC_COMPLETED only when all of them did.
THEOREM TransferImplementsService == TransferSpec => ImplementsService
<1>1. TransferInit => Service!Init
  BY DEF TransferInit, Init, Service!Init
<1>2. TransferInv /\ [TransferNext]_tvars => [Service!Next]_(Service!vars)
  <2> SUFFICES ASSUME TransferInv, [TransferNext]_tvars
               PROVE  Service!Next \/ UNCHANGED <<received, result>>
    BY DEF Service!vars
  <2>1. CASE Sender
    <3>1. UNCHANGED received /\ Outcome
      BY <2>1, SenderOnChannel, SenderOutcome DEF TransferInv
    <3>2. CASE UNCHANGED result
      BY <3>1, <3>2
    <3>3. CASE result' # result
      BY <3>1, <3>3 DEF Outcome, TransferInv, Service!Next, Service!Complete,
                        Service!GiveUp
    <3>. QED  BY <3>2, <3>3
  <2>2. CASE Receiver
    <3>1. /\ UNCHANGED vars
          /\ \/ UNCHANGED received
             \/ /\ Head(uplink) \in Fragments
                /\ received' = received \cup {Head(uplink)}
      BY <2>2, ReceiverOnChannel DEF TransferInv
    <3>. QED  BY <3>1 DEF vars, Service!Next, Service!Deliver
  <2>3. CASE LoseAnswerOnTheWay \/ (Terminated /\ UNCHANGED net) \/ UNCHANGED tvars
    BY <2>3 DEF LoseAnswerOnTheWay, Terminated, tvars, vars, net
  <2>. QED  BY <2>1, <2>2, <2>3 DEF TransferNext
<1>. QED  BY <1>1, <1>2, TransferInvariant, PTL
          DEF TransferSpec, ImplementsService, Service!Spec

-----------------------------------------------------------------------------
(* What an abort costs.                                                     *)

\* Without a Sender-Abort that is longer than the All-1 header (it would be
\* taken for an All-1, and never returned as an abort), aborts are paid for.
CostInv == IF AbortIsShort THEN FaultInv ELSE result # "SCHC_SENDER_ABORTED"

\* The state before a step of the sender, and what the step does to the faults.
LEMMA CostFacts ==
    ASSUME TransferInv, AbortIsShort, FaultInv, Sender
    PROVE  /\ pc # "returned" /\ result = "none"
           /\ peer # "aborted" /\ SENDER_ABORT \notin Elements(uplink)
           /\ aborts \subseteq {All1} /\ frg # SENDER_ABORT
           /\ \A p : is_frg_all_1(p) <=> p = All1 /\ All1 \notin aborts
           /\ attempts \in Nat /\ faults \in Nat /\ MaxAckRequests \in Nat
           /\ UNCHANGED peer /\ faults' \in {faults, faults + 1}
<1>1. pc # "returned" /\ result = "none"
  BY SenderOutcome DEF Outcome, TransferInv
<1>2. aborts \subseteq {All1} /\ frg # SENDER_ABORT
  BY DEF TransferInv, SenderInv, IInv, RequestAborts, PendingInv, AbortMarked,
         Queued, NoContradiction
<1>3. attempts \in Nat /\ faults \in Nat /\ MaxAckRequests \in Nat
  BY SenderAssumption
     DEF TransferInv, SenderInv, IInv, TypeOK, AttemptsBound, NetType
<1>4. UNCHANGED peer /\ faults' \in {faults, faults + 1}
  BY DEF Sender, Local, TransmitPlain, TransmitRequest, Transmit, LoseOnSend,
         ReadAnswer, LoseOnRead, TimeOut, Fault, net
<1>5. \A p : is_frg_all_1(p) <=> p = All1 /\ All1 \notin aborts
  BY <1>2 DEF is_frg_all_1
<1>. QED  BY <1>1, <1>2, <1>3, <1>4, <1>5 DEF FaultInv

\* A step of the sender that aborts nothing need only keep the count.
LEMMA KeepsAccount ==
    ASSUME TransferInv, AbortIsShort, FaultInv, Sender, Counted', UNCHANGED aborts,
           SENDER_ABORT \in Elements(uplink') => pc' = "returned",
           result' = "SCHC_SENDER_ABORTED" => All1 \in aborts
    PROVE  FaultInv'
<1>1. All1 \in aborts' => faults' >= MaxAckRequests \/ peer' = "gave_up"
  BY CostFacts DEF FaultInv
<1>2. peer' # "aborted"
  BY CostFacts
<1>. QED  BY <1>1, <1>2 DEF FaultInv, Elements

\* A request that times out has cost a fault of its own by then.
LEMMA TimeoutCost ==
    ASSUME TransferInv, AbortIsShort, FaultInv, Sender, Busy,
           timeout_procedure(frg), UNCHANGED uplink,
           faults' = faults + 1 \/ attempts <= faults \/ peer = "gave_up"
    PROVE  FaultInv'
<1>1. /\ NoContradiction'
      /\ All1 \in aborts' => All1 \in aborts \/ (gives_up /\ frg = All1)
      /\ UNCHANGED attempts
      /\ result' = result \/ result' = "error"
  BY TimeoutStep DEF TransferInv
<1>2. attempts <= faults' \/ peer = "gave_up"
  BY CostFacts DEF FaultInv, Counted
<1>3. Counted'
  BY <1>1, <1>2, CostFacts DEF Counted
<1>4. ASSUME All1 \in aborts'
      PROVE  faults' >= MaxAckRequests \/ peer' = "gave_up"
  <2>1. CASE All1 \in aborts
    BY <2>1, CostFacts DEF FaultInv
  <2>2. CASE gives_up
    BY <1>2, <2>2, CostFacts DEF gives_up
  <2>. QED  BY <1>1, <1>4, <2>1, <2>2
<1>5. ~(peer' = "aborted" \/ SENDER_ABORT \in Elements(uplink'))
  BY CostFacts DEF Elements
<1>6. result' # "SCHC_SENDER_ABORTED"
  BY <1>1, CostFacts
<1>. QED  BY <1>3, <1>4, <1>5, <1>6 DEF FaultInv, Elements

\* A request that is answered costs nothing.
LEMMA AnswerCost ==
    ASSUME TransferInv, AbortIsShort, FaultInv, Sender, Busy, frg_expects_ack(frg),
           NEW ack \in InReach, ack \in Acks, process_ack(frg, ack), UNCHANGED uplink
    PROVE  FaultInv'
<1>1. /\ UNCHANGED aborts /\ attempts' = 0
      /\ \/ UNCHANGED result
         \/ result' \in {"SCHC_RECEIVER_ABORTED", "SCHC_COMPLETED"}
  BY TruthfulAck DEF TransferInv
<1>2. Counted'
  BY <1>1, CostFacts DEF Counted
<1>3. SENDER_ABORT \notin Elements(uplink') /\ result' # "SCHC_SENDER_ABORTED"
  BY <1>1, CostFacts DEF Elements
<1>. QED  BY <1>1, <1>2, <1>3, KeepsAccount

\* The messages the sender reads, and what it works on when it reads them.
LEMMA ReadFacts ==
    ASSUME TransferInv
    PROVE  /\ buffer # <<>> => Head(buffer) \in Acks /\ Head(buffer) \in InReach
           /\ downlink # <<>> => Head(downlink) \in Acks /\ Head(downlink) \in InReach
           /\ pc \in {"recvfrom", "recvfrom_unsent"} => Busy /\ frg_expects_ack(frg)
<1>1. buffer # <<>> => Head(buffer) \in Acks /\ Head(buffer) \in Elements(buffer)
  BY DEF TransferInv, SenderInv, IInv, TypeOK, Elements
<1>2. downlink # <<>> => /\ Head(downlink) \in Acks
                         /\ Head(downlink) \in Elements(downlink)
  BY HeadTailProperties, QueueElements DEF TransferInv, NetType
<1>. QED  BY <1>1, <1>2 DEF InReach, TransferInv, SenderInv, PendingInv,
                            AwaitsRequest, Busy

\* Every step of the sender keeps the account.
LEMMA SenderCost ==
    ASSUME TransferInv, AbortIsShort, ~ZeroRuleId, FaultInv, Sender
    PROVE  FaultInv'
<1>. USE CostFacts
<1>1. attempts <= faults \/ peer = "gave_up" \/ pc \in {"schc", "recvfrom"}
  BY DEF FaultInv, Counted
<1>2. CASE Local
  <2>1. /\ UNCHANGED <<aborts, net>> /\ result' # "SCHC_SENDER_ABORTED"
        /\ pc \in {"constructed", "loop"}
    BY <1>2 DEF Local, Loop, Start, FetchTransmission, FetchRetransmission,
                FetchInvalid, QueuesDrained, Return
  <2>2. ASSUME NEW q, Fetch(q)
        PROVE  Counted'
    <3>1. \/ attempts' = attempts
          \/ /\ attempts' = attempts + 1 /\ frg' = All1 /\ All1 \notin aborts
             /\ pc' = "schc"
      BY <2>2 DEF Fetch, counted
    <3>. QED  BY <1>1, <2>1, <3>1 DEF Counted, net
  <2>3. Counted'
    <3>1. CASE UNCHANGED attempts
      BY <1>1, <2>1, <3>1 DEF Counted, net
    <3>. QED  BY <1>2, <2>2, <3>1
              DEF Local, Loop, Start, FetchTransmission, FetchRetransmission,
                  FetchInvalid, QueuesDrained
  <2>. QED  BY <2>1, <2>3, KeepsAccount DEF net, Elements
<1>3. ASSUME uplink' = Append(uplink, content(frg)), pc = "schc"
      PROVE  /\ content(frg) \in Elements(uplink')
             /\ SENDER_ABORT \in Elements(uplink') => frg \in aborts
  <2>1. content(frg) \in Fragments \cup {SENDER_ABORT}
    BY <1>3 DEF content, TransferInv, SenderInv, IInv, TypeOK, Busy
  <2>2. Elements(uplink') = Elements(uplink) \cup {content(frg)}
    BY <1>3, <2>1, QueueElements DEF TransferInv, NetType
  <2>. QED  BY <2>2 DEF content
<1>4. CASE TransmitPlain
  <2>1. /\ pc = "schc" /\ ~enable_recv
        /\ UNCHANGED <<aborts, attempts>>
        /\ \/ is_frg_sender_abort(frg) /\ pc' = "returned"
           \/ ~is_frg_sender_abort(frg) /\ UNCHANGED result
        /\ UNCHANGED uplink \/ uplink' = Append(uplink, content(frg))
    BY <1>4 DEF TransmitPlain, SendPlain, Transmit, Return, Continue
  <2>2. ~(frg = All1 /\ All1 \notin aborts)
    BY <2>1 DEF enable_recv, frg_expects_ack, TransferInv, SenderInv, IInv,
                RoomForRequest, Busy
  <2>3. Counted'
    BY <2>1, <2>2 DEF FaultInv, Counted
  <2>4. frg \in aborts <=> is_frg_sender_abort(frg)
    BY DEF is_frg_sender_abort
  <2>5. SENDER_ABORT \in Elements(uplink') => frg \in aborts
    BY <1>3, <2>1 DEF Elements
  <2>. QED  BY <2>1, <2>3, <2>4, <2>5, KeepsAccount
<1>5. CASE TransmitRequest
  <2>1. /\ pc = "schc" /\ frg_expects_ack(frg) /\ pc' = "recvfrom"
        /\ UNCHANGED <<aborts, attempts, frg, result>>
        /\ \/ uplink' = Append(uplink, content(frg)) /\ UNCHANGED faults
           \/ faults' = faults + 1 /\ UNCHANGED uplink
    BY <1>5 DEF TransmitRequest, SendRequest, Transmit, enable_recv, Fault
  <2>2. frg \notin aborts
    BY <2>1 DEF frg_expects_ack, is_frg_all_0
  <2>3. CASE uplink' = Append(uplink, content(frg)) /\ UNCHANGED faults
    <3>1. SENDER_ABORT \notin Elements(uplink') /\ frg \in Elements(uplink')
      BY <1>3, <2>1, <2>2, <2>3 DEF content
    <3>2. Counted'
      BY <2>1, <2>3, <3>1 DEF FaultInv, Counted, Elements
    <3>. QED  BY <2>1, <3>1, <3>2, KeepsAccount
  <2>4. CASE faults' = faults + 1 /\ UNCHANGED uplink
    <3>1. Counted'
      BY <2>1, <2>4 DEF FaultInv, Counted
    <3>. QED  BY <2>1, <2>4, <3>1, KeepsAccount DEF Elements
  <2>. QED  BY <2>1, <2>3, <2>4
<1>6. CASE LoseOnSend
  <2>1. faults' = faults + 1 /\ UNCHANGED uplink
    BY <1>6 DEF LoseOnSend, Fault
  <2>2. CASE Busy /\ timeout_procedure(frg)
    BY <2>1, <2>2, TimeoutCost
  <2>3. CASE SendRequestFails
    <3>1. UNCHANGED <<aborts, attempts, result>>
      BY <2>3 DEF SendRequestFails
    <3>2. Counted'
      BY <2>1, <3>1 DEF FaultInv, Counted
    <3>. QED  BY <2>1, <3>1, <3>2, KeepsAccount DEF Elements
  <2>4. CASE LoseRequest
    <3>1. Busy /\ frg_expects_ack(frg)
      BY <2>4 DEF LoseRequest, enable_recv, Busy
    <3>2. CASE buffer # <<>> /\ process_ack(frg, Head(buffer))
      BY <2>1, <3>1, <3>2, ReadFacts, AnswerCost
    <3>. QED  BY <2>2, <2>4, <3>1, <3>2 DEF LoseRequest
  <2>. QED  BY <1>6, <2>2, <2>3, <2>4 DEF LoseOnSend, SendPlainFails, Busy
<1>7. CASE ReadAnswer
  <2>1. downlink # <<>> /\ UNCHANGED uplink
    BY <1>7 DEF ReadAnswer
  <2>2. CASE Answer(Head(downlink))
    <3>1. process_ack(frg, Head(downlink)) /\ Busy /\ frg_expects_ack(frg)
      BY <2>2, ReadFacts DEF Answer, IsAllZero
    <3>. QED  BY <2>1, <3>1, ReadFacts, AnswerCost
  <2>3. CASE AnswerUnsent(Head(downlink))
    <3>1. timeout_procedure(frg) /\ Busy /\ pc = "recvfrom_unsent"
      BY <2>3, ReadFacts DEF AnswerUnsent
    <3>. QED  BY <1>1, <2>1, <3>1, TimeoutCost
  <2>. QED  BY <1>7, <2>2, <2>3 DEF ReadAnswer
<1>8. CASE LoseOnRead
  BY <1>8, ReadFacts, TimeoutCost DEF LoseOnRead, LoseAnswer, Fault
<1>9. CASE TimeOut
  <2>1. Busy /\ timeout_procedure(frg) /\ UNCHANGED uplink /\ pc # "schc"
    BY <1>9, ReadFacts DEF TimeOut, Expire, ExpireUnsent
  <2>2. CASE faults' = faults + 1
    BY <2>1, <2>2, TimeoutCost
  <2>3. CASE uplink = <<>> /\ downlink = <<>>
    <3>1. attempts <= faults \/ peer = "gave_up"
      BY <2>1, <2>3 DEF FaultInv, Counted, Elements
    <3>. QED  BY <2>1, <3>1, TimeoutCost
  <2>. QED  BY <1>9, <2>2, <2>3 DEF TimeOut, Fault
<1>. QED  BY <1>2, <1>4, <1>5, <1>6, <1>7, <1>8, <1>9 DEF Sender

\* The receiver costs nothing: a request it takes is answered, or it gave up.
LEMMA ReceiverCost ==
    ASSUME TransferInv, FaultInv, Receiver
    PROVE  FaultInv'
<1> DEFINE m == Head(uplink)
<1>1. /\ UNCHANGED <<vars, faults>>
      /\ ReceiverSilent(m) \/ ReceiverReplies
  BY ReceiverOnChannel DEF TransferInv
<1>2. /\ Elements(uplink) = {m} \cup Elements(uplink')
      /\ peer \in {"open", "aborted", "gave_up"}
  <2>1. NetType /\ uplink # <<>> /\ uplink' = Tail(uplink)
    BY ReceiverOnChannel DEF TransferInv
  <2>. QED  BY <2>1, QueueElements DEF NetType
<1>3. ReceiverReplies => downlink' # <<>>
  BY QueueElements DEF ReceiverReplies, TransferInv, NetType
<1>. HIDE DEF m
<1>4. peer = "gave_up" => peer' = "gave_up"
  BY <1>1 DEF ReceiverSilent, ReceiverReplies
<1>5. peer' = "aborted" \/ SENDER_ABORT \in Elements(uplink') => pc = "returned"
  BY <1>1, <1>2 DEF ReceiverSilent, ReceiverReplies, FaultInv
<1>6. pc = "recvfrom" /\ (All1 \in Elements(uplink) \/ downlink # <<>>)
      => \/ All1 \in Elements(uplink') \/ downlink' # <<>>
         \/ peer' = "gave_up"
  BY <1>1, <1>2, <1>3 DEF ReceiverSilent, FaultInv
<1>7. Counted'
  <2>1. UNCHANGED <<attempts, faults, frg, aborts, pc>>
    BY <1>1 DEF vars
  <2>2. CASE peer = "gave_up" \/ attempts <= faults
    BY <1>4, <2>1, <2>2 DEF Counted
  <2>3. CASE /\ attempts <= faults + 1 /\ frg = All1 /\ All1 \notin aborts
             /\ \/ pc = "schc"
                \/ pc = "recvfrom" /\ (All1 \in Elements(uplink) \/ downlink # <<>>)
    BY <1>6, <2>1, <2>3 DEF Counted, Elements
  <2>. QED  BY <2>1, <2>2, <2>3 DEF FaultInv, Counted
<1>. QED  BY <1>1, <1>4, <1>5, <1>7 DEF FaultInv, vars, Elements

\* A Sender-Abort that is not short is never returned as one.
LEMMA LongAbortsUnseen ==
    ASSUME TransferInv, ~AbortIsShort, Sender, result # "SCHC_SENDER_ABORTED"
    PROVE  result' # "SCHC_SENDER_ABORTED"
<1>1. CASE Local \/ TransmitPlain \/ TransmitRequest
  BY <1>1 DEF Local, Loop, Start, FetchTransmission, FetchRetransmission, Fetch,
              FetchInvalid, QueuesDrained, Return, Continue, TransmitPlain,
              SendPlain, is_frg_sender_abort, TransmitRequest, SendRequest
<1>2. CASE Busy /\ timeout_procedure(frg)
  BY <1>2, TimeoutStep DEF TransferInv
<1>3. CASE SendRequestFails
  BY <1>3 DEF SendRequestFails
<1>4. ASSUME NEW ack \in Acks, ack \in InReach, process_ack(frg, ack), Busy,
             frg_expects_ack(frg)
      PROVE  result' # "SCHC_SENDER_ABORTED"
  BY <1>4, TruthfulAck DEF TransferInv
<1>5. CASE LoseRequest
  BY <1>2, <1>4, <1>5, ReadFacts DEF LoseRequest, enable_recv, Busy
<1>6. CASE ReadAnswer
  BY <1>2, <1>4, <1>6, ReadFacts DEF ReadAnswer, Answer, AnswerUnsent
<1>7. CASE LoseOnRead \/ TimeOut \/ SendPlainFails
  BY <1>2, <1>7, ReadFacts DEF LoseOnRead, LoseAnswer, TimeOut, Expire, ExpireUnsent,
                               SendPlainFails, Busy
<1>. QED  BY <1>1, <1>3, <1>5, <1>6, <1>7 DEF Sender, LoseOnSend

LEMMA CostNext ==
    ASSUME ~ZeroRuleId, TransferInv, CostInv, [TransferNext]_tvars
    PROVE  CostInv'
<1>1. CASE Sender /\ ~AbortIsShort
  BY <1>1, LongAbortsUnseen DEF CostInv
<1>2. CASE Sender /\ AbortIsShort
  BY <1>2, SenderCost DEF CostInv
<1>3. CASE Receiver
  BY <1>3, ReceiverCost, ReceiverOnChannel DEF CostInv, TransferInv, vars
<1>4. CASE LoseAnswerOnTheWay
  <2>1. UNCHANGED <<vars, uplink, peer>> /\ faults' = faults + 1
    BY <1>4 DEF LoseAnswerOnTheWay, Fault
  <2>2. attempts \in Nat /\ faults \in Nat /\ MaxAckRequests \in Nat
    BY SenderAssumption
       DEF TransferInv, SenderInv, IInv, TypeOK, AttemptsBound, NetType
  <2>3. FaultInv => FaultInv'
    BY <2>1, <2>2 DEF FaultInv, Counted, Elements, vars
  <2>. QED  BY <2>1, <2>3 DEF CostInv, vars
<1>5. CASE (Terminated /\ UNCHANGED net) \/ UNCHANGED tvars
  BY <1>5 DEF Terminated, tvars, vars, net, CostInv, FaultInv, Counted, Elements
<1>. QED  BY <1>1, <1>2, <1>3, <1>4, <1>5 DEF TransferNext

\* A Sender-Abort takes MAX_ACK_REQUESTS faults of the network, unless the
\* receiver gave up: no answer that arrives, however late, is ever wasted so that
\* a request is counted twice.  It holds for every packet and every Rule but one
\* whose ID is all zero: its all-zero answer is taken for none.
THEOREM AbortsArePaid ==
    ASSUME ~ZeroRuleId
    PROVE  TransferSpec => []AbortNeedsFaults
<1>1. TransferInit => CostInv
  BY DEF TransferInit, Init, CostInv, FaultInv, Counted, Elements
<1>2. TransferInv /\ CostInv /\ [TransferNext]_tvars => CostInv'
  BY CostNext
<1>3. CostInv => AbortNeedsFaults
  BY DEF CostInv, FaultInv, AbortNeedsFaults
<1>. QED  BY <1>1, <1>2, <1>3, TransferInvariant, PTL DEF TransferSpec
=============================================================================
