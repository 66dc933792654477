-------------------------- MODULE SCHCSender_proofs --------------------------
(***************************************************************************)
(* Theorems about SCHCSender, for every packet size, window size, peer and  *)
(* configuration, and their proofs.                                         *)
(***************************************************************************)
EXTENDS SCHCSender, FiniteSetTheorems, SequenceTheorems, FunctionTheorems, TLAPS

Data == INSTANCE Messages_proofs

-----------------------------------------------------------------------------
(* Lemmas about the data.                                                   *)

\* Ascending lists a finite set of integers without repetition, in order.
LEMMA InOrder ==
    ASSUME NEW S \in SUBSET Int, IsFiniteSet(S)
    PROVE  /\ Ascending(S) \in Seq(S)
           /\ Len(Ascending(S)) = Cardinality(S)
           /\ \A i, j \in 1..Cardinality(S) :
                  i < j => Ascending(S)[i] < Ascending(S)[j]
<1>1. Ascending(S) = Data!Ascending(S)
  BY DEF Ascending, Data!Ascending, Cardinality, Data!Cardinality
<1>2. Cardinality(S) = Data!Cardinality(S) /\ (IsFiniteSet(S) <=> Data!IsFiniteSet(S))
  BY DEF Cardinality, Data!Cardinality, IsFiniteSet, Data!IsFiniteSet
<1> QED  BY <1>1, <1>2, Data!AscendingProperties

\* Quotient and remainder, by which a fragment has its window and position.
LEMMA DivisionProperties ==
    ASSUME NEW a \in Nat, NEW b \in Nat \ {0}
    PROVE  /\ a \div b \in Nat
           /\ a % b \in 0..b - 1
           /\ a = b * (a \div b) + (a % b)
  BY Z3

\* A quotient and a remainder are found in what they make up.
LEMMA DivisionUnique ==
    ASSUME NEW b \in Nat \ {0}, NEW k \in Nat, NEW j \in 0..b - 1
    PROVE  (b * k + j) \div b = k /\ (b * k + j) % b = j
<1> DEFINE a == b * k + j
           q == a \div b
           r == a % b
<1>1. a \in Nat
  OBVIOUS
<1>2. q \in Nat /\ r \in 0..b - 1 /\ a = b * q + r
  BY <1>1, DivisionProperties
<1>. HIDE DEF q, r
<1>3. b * k \in Nat /\ b * q \in Nat
  BY <1>2
<1>4. (q < k => b * q + b <= b * k) /\ (k < q => b * k + b <= b * q)
  BY <1>2, Z3
<1>5. q = k
  BY <1>2, <1>3, <1>4
<1>. QED  BY <1>2, <1>5 DEF q, r

\* A put returns a queue of the same kind, within the capacity.
LEMMA PutProperties ==
    ASSUME NEW T, NEW q \in Seq(T), Len(q) <= NbFragments, NEW x \in T
    PROVE  /\ fq_put(q, x) \in Seq(T)
           /\ Len(fq_put(q, x)) <= NbFragments
<1>1. NbFragments \in Nat /\ Len(q) \in Nat
  BY SenderAssumption, LenProperties
<1>2. Append(q, x) \in Seq(T) /\ Len(Append(q, x)) = Len(q) + 1
  OBVIOUS
<1>. QED  BY <1>1, <1>2 DEF fq_put

\* So do the puts of a whole ACK, one after the other.
LEMMA PutAllProperties ==
    ASSUME NEW T, NEW q \in Seq(T), Len(q) <= NbFragments, NEW objs \in Seq(T)
    PROVE  /\ fq_put_all(q, objs) \in Seq(T)
           /\ Len(fq_put_all(q, objs)) <= NbFragments
<1> DEFINE room == NbFragments - Len(q)
           n    == IF Len(objs) <= room THEN Len(objs) ELSE room
<1>1. NbFragments \in Nat /\ Len(q) \in Nat /\ Len(objs) \in Nat
  BY SenderAssumption, LenProperties
<1>2. n \in Nat /\ n <= room /\ n <= Len(objs)
  BY <1>1
<1>3. \A i \in 1..n : objs[i] \in T
  BY <1>1, <1>2, ElementOfSeq
<1>4. SubSeq(objs, 1, n) \in Seq(T) /\ Len(SubSeq(objs, 1, n)) = n
  BY <1>2, <1>3, SubSeqProperties
<1>5. fq_put_all(q, objs) = q \o SubSeq(objs, 1, n)
  BY DEF fq_put_all
<1>. HIDE DEF n
<1>6. /\ q \o SubSeq(objs, 1, n) \in Seq(T)
      /\ Len(q \o SubSeq(objs, 1, n)) = Len(q) + n
  BY <1>4, ConcatProperties
<1>. QED  BY <1>1, <1>2, <1>5, <1>6

\* The fragments of the packet, and those past its end that an ACK may name,
\* without the two that can carry an ACK-REQ or a Sender-Abort.
Regular == Pointers \ {All1, SENDER_ABORT}

\* get_bitmap_to_retransmit never asks for the All-1.
LEMMA MissingInWindow ==
    ASSUME NEW w \in Windows, NEW j \in bitmap_positions(w)
    PROVE  WindowSize * w + j \in Regular
<1> DEFINE ws == WindowSize
           i  == ws * w + j
<1>1. ws \in Nat \ {0} /\ MaxWindowNb \in Nat \ {0} /\ All1 \in Nat
  BY SenderAssumption DEF All1
<1>2. j \in 0..ws - 1 /\ w \in 0..MaxWindowNb - 1
  BY DEF bitmap_positions, Positions, Windows
<1>3. i \in 0..(MaxWindowNb * ws - 1)
  <2>1. ws * w \in Nat
    BY <1>1, <1>2
  <2>2. ws * w <= ws * (MaxWindowNb - 1)
    BY <1>1, <1>2, Z3
  <2>3. ws * (MaxWindowNb - 1) = MaxWindowNb * ws - ws
    BY <1>1, Z3
  <2>4. MaxWindowNb * ws \in Nat
    BY <1>1
  <2>. HIDE DEF ws
  <2>. QED  BY <1>1, <1>2, <2>1, <2>2, <2>3, <2>4
<1>4. i # All1
  <2> DEFINE d == All1 \div ws
             r == All1 % ws
  <2>1. d \in Nat /\ r \in 0..ws - 1 /\ All1 = ws * d + r
    BY <1>1, DivisionProperties
  <2>2. d = LastWindow
    BY DEF LastWindow, All1
  <2>3. CASE w = LastWindow
    <3>1. j < r
      BY <2>3 DEF bitmap_positions
    <3>. HIDE DEF ws, d, r
    <3>2. ws * w \in Int
      BY <1>1, <1>2
    <3>. QED  BY <1>1, <1>2, <2>1, <2>2, <2>3, <3>1, <3>2
  <2>4. CASE w # LastWindow
    <3>. HIDE DEF ws, d, r
    <3>1. CASE w < d
      <4>1. ws * w + ws <= ws * d
        BY <1>1, <1>2, <2>1, <3>1, Z3
      <4>2. ws * w \in Int /\ ws * d \in Int
        BY <1>1, <1>2, <2>1
      <4>. QED  BY <1>1, <1>2, <2>1, <4>1, <4>2
    <3>2. CASE d < w
      <4>1. ws * d + ws <= ws * w
        BY <1>1, <1>2, <2>1, <3>2, Z3
      <4>2. ws * w \in Int /\ ws * d \in Int
        BY <1>1, <1>2, <2>1
      <4>. QED  BY <1>1, <1>2, <2>1, <4>1, <4>2
    <3>. QED  BY <1>2, <2>1, <2>2, <2>4, <3>1, <3>2
  <2>. QED  BY <2>3, <2>4
<1>5. i # SENDER_ABORT
  BY <1>3 DEF SENDER_ABORT
<1>. QED  BY <1>3, <1>4, <1>5 DEF Regular, Pointers

\* A finite set of integers has a least and a greatest member.
LEMMA Extremes ==
    ASSUME NEW S \in SUBSET Int, IsFiniteSet(S), S # {}
    PROVE  \E lo, hi \in S : \A y \in S : lo <= y /\ y <= hi
<1> DEFINE n == Cardinality(S)
           a == Ascending(S)
<1>1. n \in Nat /\ n # 0
  BY FS_CardinalityType, FS_EmptySet
<1>2. a \in Seq(S) /\ Len(a) = n /\ \A i, j \in 1..n : i < j => a[i] < a[j]
  BY InOrder
<1>3. a \in [1..n -> S]
  BY <1>2
<1>4. IsFiniteSet(1..n) /\ Cardinality(1..n) = n
  BY <1>1, FS_Interval
<1>. HIDE DEF a, n
<1>5. \A i, j \in 1..n : a[i] = a[j] => i = j
  <2> SUFFICES ASSUME NEW i \in 1..n, NEW j \in 1..n, i # j
               PROVE  a[i] # a[j]
    OBVIOUS
  <2>1. i \in Int /\ j \in Int /\ a[i] \in Int /\ a[j] \in Int
    <3>1. a[i] \in S /\ a[j] \in S
      BY <1>3
    <3>2. \A x \in S : x \in Int
      OBVIOUS
    <3>3. \A k \in 1..n : k \in Int
      BY <1>1
    <3>. QED  BY <3>1, <3>2, <3>3
  <2>2. i < j \/ j < i
    BY <2>1
  <2>. QED  BY <1>2, <2>1, <2>2
<1>6. a \in Injection(1..n, S)
  BY <1>3, <1>5 DEF Injection, IsInjective
<1>7. a \in Surjection(1..n, S)
  BY <1>4, <1>6, FS_Injection DEF n
<1>8. 1 \in 1..n /\ n \in 1..n
  BY <1>1
<1>9. ASSUME NEW y \in S
      PROVE  a[1] <= y /\ y <= a[n]
  <2>1. PICK k \in 1..n : a[k] = y
    BY <1>7 DEF Surjection
  <2>2. a[1] \in Int /\ a[n] \in Int /\ y \in Int
    BY <1>3, <1>8
  <2>3. k = 1 \/ 1 < k
    BY <1>1
  <2>4. k = n \/ k < n
    BY <1>1
  <2>. QED  BY <1>2, <1>8, <2>1, <2>2, <2>3, <2>4
<1>10. a[1] \in S /\ a[n] \in S
  BY <1>3, <1>8
<1>. QED  BY <1>9, <1>10

\* The tuples that are read: the first of the message, and no more than it has.
LEMMA TuplesRead ==
    ASSUME NEW ack, IsAck(ack)
    PROVE  /\ tuples_read(ack) \subseteq DOMAIN ack.tuples
           /\ tuples_read(ack) \in SUBSET (Nat \ {0})
           /\ IsFiniteSet(tuples_read(ack))
           /\ Greatest(tuples_read(ack)) \in tuples_read(ack)
           /\ \A k \in DOMAIN ack.tuples : ack.tuples[k] \in Tuples
<1> DEFINE n == Len(ack.tuples)
           R == tuples_read(ack)
<1>1. /\ n \in Nat \ {0} /\ DOMAIN ack.tuples = 1..n
      /\ \A k \in 1..n : ack.tuples[k] \in Tuples
  BY EmptySeq, LenProperties DEF IsAck
<1>2. R \subseteq 1..n /\ 1 \in R
  BY <1>1, SenderAssumption DEF tuples_read
<1>. HIDE DEF R, n
<1>3. IsFiniteSet(1..n) /\ 1..n \subseteq Nat \ {0}
  <2>1. 1 \in Int /\ n \in Int
    BY <1>1
  <2>2. IsFiniteSet(1..n)
    BY <2>1, FS_Interval
  <2>. QED  BY <1>1, <2>2
<1>4. IsFiniteSet(R) /\ R \in SUBSET Int /\ R # {}
  <2>1. IsFiniteSet(R)
    BY <1>2, <1>3, FS_Subset
  <2>. QED  BY <1>2, <1>3, <2>1
<1>5. \E x \in R : \A y \in R : x >= y
  <2>1. PICK x \in R : \A y \in R : y <= x
    BY <1>4, Extremes
  <2>. QED  BY <1>4, <2>1
<1>6. Greatest(R) \in R
  BY <1>5 DEF Greatest
<1>. QED  BY <1>1, <1>2, <1>3, <1>4, <1>6 DEF R

\* A loss is a position of a tuple that is processed.
LEMMA LossProperties ==
    ASSUME NEW ack, IsAck(ack)
    PROVE  /\ losses(ack) \in SUBSET Nat /\ IsFiniteSet(losses(ack))
           /\ \A loss \in losses(ack) :
                  /\ loss \div WindowSize \in reported_tuples(ack)
                  /\ loss % WindowSize \in
                        bitmap_positions(ack.tuples[loss \div WindowSize].window)
                  /\ loss = WindowSize * (loss \div WindowSize)
                               + (loss % WindowSize)
<1> DEFINE ws == WindowSize
           n == Len(ack.tuples)
           L == losses(ack)
<1>1. ws \in Nat \ {0}
  BY SenderAssumption
<1>2. reported_tuples(ack) \subseteq Nat \ {0} /\ reported_tuples(ack) \subseteq 1..n
      /\ n \in Nat
  BY TuplesRead, LenProperties DEF reported_tuples, IsAck
<1>3. ASSUME NEW loss \in L
      PROVE  /\ loss \in 0..ws * n + ws
             /\ loss \div ws \in reported_tuples(ack)
             /\ loss % ws \in bitmap_positions(ack.tuples[loss \div ws].window)
             /\ loss = ws * (loss \div ws) + (loss % ws)
  <2>1. PICK k \in reported_tuples(ack) :
               \E j \in bitmap_positions(ack.tuples[k].window) : loss = ws * k + j
    BY DEF losses, get_bitmap_to_retransmit
  <2>2. PICK j \in bitmap_positions(ack.tuples[k].window) : loss = ws * k + j
    BY <2>1
  <2>3. j \in 0..ws - 1
    BY DEF bitmap_positions, Positions
  <2>4. k \in Nat /\ k <= n
    BY <1>2
  <2>5. loss \div ws = k /\ loss % ws = j
    BY <1>1, <2>2, <2>3, <2>4, DivisionUnique
  <2>6. ws * k <= ws * n /\ ws * k \in Nat /\ ws * n \in Nat
    BY <1>1, <1>2, <2>4, Z3
  <2>. HIDE DEF ws, n
  <2>7. loss \in 0..ws * n + ws
    BY <1>1, <2>2, <2>3, <2>6
  <2>. QED  BY <2>2, <2>5, <2>7
<1>4. IsFiniteSet(0..ws * n + ws) /\ 0..ws * n + ws \subseteq Nat
  <2>1. ws * n + ws \in Nat
    BY <1>1, <1>2
  <2>. HIDE DEF ws, n
  <2>. QED  BY <2>1, FS_Interval
<1>. HIDE DEF L
<1>5. L \subseteq 0..ws * n + ws
  BY <1>3
<1>6. L \in SUBSET Nat /\ IsFiniteSet(L)
  <2>. HIDE DEF ws, n
  <2>. QED  BY <1>4, <1>5, FS_Subset
<1>. QED  BY <1>3, <1>6 DEF L

\* The fragments an ACK asks for, one for each loss.
LEMMA MissingSequence ==
    ASSUME NEW ack, IsAck(ack), NEW T,
           \A k \in reported_tuples(ack) :
               \A j \in bitmap_positions(ack.tuples[k].window) :
                   WindowSize * ack.tuples[k].window + j \in T
    PROVE  /\ missing_fragments(ack) \in Seq(T)
           /\ DOMAIN missing_fragments(ack) = 1..Cardinality(losses(ack))
           /\ \A i \in 1..Cardinality(losses(ack)) :
                  /\ Ascending(losses(ack))[i] \in losses(ack)
                  /\ missing_fragments(ack)[i] =
                         fragment_lost(ack, Ascending(losses(ack))[i])
<1> DEFINE L == losses(ack)
           n == Cardinality(L)
           a == Ascending(L)
           m == missing_fragments(ack)
<1>1. L \in SUBSET Nat /\ L \in SUBSET Int /\ IsFiniteSet(L)
  BY LossProperties
<1>2. n \in Nat
  BY <1>1, FS_CardinalityType
<1>3. a \in Seq(L) /\ Len(a) = n
  BY <1>1, InOrder
<1>4. \A loss \in L : fragment_lost(ack, loss) \in T
  BY LossProperties DEF fragment_lost
<1>5. m = [i \in DOMAIN a |-> fragment_lost(ack, a[i])]
  BY DEF missing_fragments
<1>. HIDE DEF L, n, a, m
<1>6. DOMAIN a = 1..n /\ \A i \in 1..n : a[i] \in L
  BY <1>2, <1>3
<1>7. m \in [1..n -> T]
  BY <1>4, <1>5, <1>6
<1>8. m \in Seq(T) /\ DOMAIN m = 1..n
  BY <1>2, <1>7
<1>. QED  BY <1>5, <1>6, <1>8 DEF L, n, a, m

\* What an ACK adds to the retransmission queue are regular fragments.
LEMMA MissingProperties ==
    ASSUME NEW ack, IsAck(ack)
    PROVE  missing_fragments(ack) \in Seq(Regular)
<1>1. \A k \in reported_tuples(ack) : ack.tuples[k].window \in Windows
  BY TuplesRead DEF reported_tuples, Tuples
<1>. QED  BY <1>1, MissingInWindow, MissingSequence

-----------------------------------------------------------------------------
(* The invariant.  A queue stays within its capacity because an ACK is only *)
(* awaited when there is nothing left to retransmit, and because only the   *)
(* two pointers that never enter the retransmission queue are put back in   *)
(* the transmission queue.                                                  *)

RequestAborts == aborts \subseteq {All1, SENDER_ABORT}

RetransmissionRegular == retransmission_q \in Seq(Regular)

RtCoversQueue == ~rt => retransmission_q = <<>>

RoomForRequest ==
    Busy => IF rt THEN frg \notin {All1, SENDER_ABORT}
                  ELSE Len(transmission_q) < NbFragments

\* The inductive invariant.
IInv == /\ TypeOK
        /\ RequestAborts
        /\ RetransmissionRegular
        /\ RtCoversQueue
        /\ RoomForRequest

\* The cells a fragment of the packet or the Sender-Abort lies in.
LEMMA PointersFacts ==
    /\ Regular \subseteq Pointers
    /\ Fragments \cup {SENDER_ABORT} \subseteq Pointers
    /\ {All1, SENDER_ABORT} \subseteq Fragments \cup {SENDER_ABORT}
    /\ NULL \notin Fragments \cup {SENDER_ABORT}
<1>1. Fragments \subseteq 0..(MaxWindowNb * WindowSize - 1)
  <2>1. MaxWindowNb * WindowSize \in Nat
    BY SenderAssumption
  <2>. QED  BY <2>1, SenderAssumption DEF Fragments
<1>2. All1 \in Fragments
  BY SenderAssumption DEF All1, Fragments
<1>. QED  BY <1>1, <1>2 DEF Regular, Pointers, Fragments, SENDER_ABORT, NULL

\* Only these two cells are ever taken for an All-1.
LEMMA All1Cells ==
    ASSUME RequestAborts, NEW p, is_frg_all_1(p)
    PROVE  p \in {All1, SENDER_ABORT}
  BY DEF RequestAborts, is_frg_all_1

\* The invariant holds of a constructed sender.
LEMMA InitInv == Init => IInv
<1> SUFFICES ASSUME Init PROVE IInv
  OBVIOUS
<1>1. /\ transmission_q \in Seq(Pointers) /\ Len(transmission_q) <= NbFragments
      /\ retransmission_q \in Seq(Pointers) /\ Len(retransmission_q) <= NbFragments
      /\ retransmission_q \in Seq(Regular)
  BY SenderAssumption, EmptySeq DEF Init
<1>2. attempts \in 0..AttemptsBound
  BY SenderAssumption DEF Init, AttemptsBound
<1>3. ~Busy
  BY DEF Init, Busy
<1>4. TypeOK
  BY <1>1, <1>2, <1>3 DEF Init, TypeOK
<1>. QED  BY <1>1, <1>3, <1>4 DEF Init, IInv, RequestAborts,
              RetransmissionRegular, RtCoversQueue, RoomForRequest

\* timeout_procedure, with or without the update_rt that precedes it.
LEMMA TimeoutInv ==
    /\ IInv /\ Busy /\ timeout_procedure(frg)
    /\ UNCHANGED rt \/ update_rt
    /\ buffer' \in {<<>>} \cup {<<ack>> : ack \in Acks}
    => IInv'
<1> SUFFICES ASSUME IInv, Busy, timeout_procedure(frg),
                    UNCHANGED rt \/ update_rt,
                    buffer' \in {<<>>} \cup {<<ack>> : ack \in Acks}
             PROVE  IInv'
  OBVIOUS
<1>. USE DEF IInv
<1>1. UNCHANGED <<retransmission_q, attempts>> /\ frg' = NULL
  BY DEF timeout_procedure, Continue, Return
<1>2. /\ pc' \in {"loop", "returned"}
      /\ result' \in {result, "error"}
  BY DEF timeout_procedure, Continue, Return
<1>3. /\ transmission_q' \in Seq(Pointers)
      /\ Len(transmission_q') <= NbFragments
      /\ aborts' \subseteq {All1, SENDER_ABORT}
  <2>1. CASE is_frg_all_1(frg)
    <3>1. frg \in {All1, SENDER_ABORT} /\ frg \in Pointers
      BY <2>1, All1Cells, PointersFacts
    <3>2. /\ transmission_q' = fq_put(transmission_q, frg)
          /\ aborts' \subseteq aborts \cup {frg}
      BY <2>1 DEF timeout_procedure, generate_sender_abort, is_frg_all_0,
                   is_frg_all_1, frg_expects_ack
    <3>. QED  BY <3>1, <3>2, PutProperties DEF TypeOK, RequestAborts
  <2>2. CASE ~is_frg_all_1(frg)
    BY <2>2 DEF timeout_procedure, TypeOK, RequestAborts
  <2>. QED  BY <2>1, <2>2
<1>4. ~Busy'
  BY <1>2 DEF Busy
<1>5. rt' \in BOOLEAN /\ (~rt' => retransmission_q' = <<>>)
  BY <1>1 DEF update_rt, TypeOK, RtCoversQueue
<1>6. aborts' \subseteq Pointers
  BY <1>3, PointersFacts
<1>7. TypeOK'
  BY <1>1, <1>2, <1>3, <1>4, <1>5, <1>6 DEF TypeOK
<1>. QED  BY <1>1, <1>3, <1>4, <1>5, <1>7
          DEF RequestAborts, RetransmissionRegular, RtCoversQueue, RoomForRequest

\* An answer, to a fragment sent with nothing left to retransmit.
LEMMA ProcessAckInv ==
    ASSUME NEW ack, IsAck(ack)
    PROVE  /\ IInv /\ Busy /\ process_ack(frg, ack) /\ update_rt
           /\ buffer' \in {<<>>} \cup {<<a>> : a \in Acks}
           => IInv'
<1> SUFFICES ASSUME IInv, Busy, process_ack(frg, ack), update_rt,
                    buffer' \in {<<>>} \cup {<<a>> : a \in Acks}
             PROVE  IInv'
  OBVIOUS
<1>. USE DEF IInv
<1>1. attempts' = 0 /\ frg' = NULL
  BY DEF process_ack, Continue, Return
<1>2. /\ pc' \in {"loop", "returned"}
      /\ result' \in {result, "SCHC_RECEIVER_ABORTED", "SCHC_COMPLETED"}
  BY DEF process_ack, completes, Continue, Return
<1>3. \/ UNCHANGED <<transmission_q, retransmission_q, aborts>>
      \/ update_queues(frg, ack)
  BY DEF process_ack
<1>4. /\ retransmission_q' \in Seq(Regular)
      /\ Len(retransmission_q') <= NbFragments
  <2>1. \/ UNCHANGED retransmission_q
        \/ retransmission_q' = fq_put_all(retransmission_q, missing_fragments(ack))
    BY <1>3 DEF update_queues, queued_losses
  <2>. QED  BY <2>1, MissingProperties, PutAllProperties
            DEF TypeOK, RetransmissionRegular
<1>5. /\ transmission_q' \in Seq(Pointers)
      /\ Len(transmission_q') <= NbFragments
  <2>1. \/ UNCHANGED transmission_q
        \/ transmission_q' = fq_put(transmission_q, SENDER_ABORT)
        \/ is_frg_all_1(frg) /\ transmission_q' = fq_put(transmission_q, frg)
    BY <1>3 DEF update_queues, requeued, generate_sender_abort
  <2>2. SENDER_ABORT \in Pointers /\ (is_frg_all_1(frg) => frg \in Pointers)
    BY All1Cells, PointersFacts
  <2>. QED  BY <2>1, <2>2, PutProperties DEF TypeOK
<1>6. aborts' \subseteq {All1, SENDER_ABORT}
  BY <1>3 DEF update_queues, requeued, generate_sender_abort, RequestAborts
<1>7. ~Busy'
  BY <1>2 DEF Busy
<1>8. rt' \in BOOLEAN /\ (~rt' => retransmission_q' = <<>>)
  BY DEF update_rt
<1>9. retransmission_q' \in Seq(Pointers) /\ aborts' \subseteq Pointers
  BY <1>4, <1>6, PointersFacts, SeqMonotonic
<1>10. attempts' \in 0..AttemptsBound
  BY <1>1, SenderAssumption DEF AttemptsBound
<1>11. TypeOK'
  BY <1>1, <1>2, <1>4, <1>5, <1>7, <1>8, <1>9, <1>10 DEF TypeOK
<1>. QED  BY <1>4, <1>6, <1>7, <1>8, <1>11
          DEF RequestAborts, RetransmissionRegular, RtCoversQueue, RoomForRequest

\* Every step of the sender preserves the invariant.
LEMMA NextInv == IInv /\ [Next]_vars => IInv'
<1> SUFFICES ASSUME IInv, [Next]_vars
             PROVE  IInv'
  OBVIOUS
<1>. USE DEF IInv
<1>1. CASE Start
  <2>1. /\ transmission_q' \in Seq(Pointers)
        /\ Len(transmission_q') <= NbFragments
    <3>1. \A k \in 1..NbFragments : k - 1 \in Pointers
      BY PointersFacts, SenderAssumption DEF Fragments
    <3>. QED  BY <1>1, <3>1, SenderAssumption DEF Start
  <2>2. ~Busy /\ ~Busy'
    BY <1>1 DEF Start, Busy
  <2>. QED  BY <1>1, <2>1, <2>2
            DEF Start, TypeOK, RequestAborts, RetransmissionRegular,
                RtCoversQueue, RoomForRequest
<1>2. ASSUME NEW q \in Seq(Pointers), pc = "loop", Fetch(q)
      PROVE  /\ Busy' /\ ~Busy
             /\ frg' \in Fragments \cup {SENDER_ABORT} /\ frg' # NULL
             /\ attempts' \in 0..AttemptsBound
             /\ pc' = "schc"
             /\ Tail(q) \in Seq(Pointers) /\ Len(Tail(q)) = Len(q) - 1
  <2>1. frg' # NULL /\ frg' \in Fragments \cup {SENDER_ABORT}
    BY <1>2, PointersFacts DEF Fetch
  <2>2. attempts' \in 0..AttemptsBound
    BY <1>2, SenderAssumption DEF Fetch, counted, TypeOK, AttemptsBound
  <2>3. Tail(q) \in Seq(Pointers) /\ Len(Tail(q)) = Len(q) - 1
    BY <1>2, HeadTailProperties DEF Fetch
  <2>. QED  BY <1>2, <2>1, <2>2, <2>3 DEF Fetch, Busy
<1>3. CASE FetchTransmission
  <2>1. Fetch(transmission_q) /\ pc = "loop" /\ ~rt /\ UNCHANGED rt
    BY <1>3 DEF FetchTransmission
  <2>2. Len(transmission_q') <= NbFragments /\ Len(transmission_q') < NbFragments
    <3>1. Len(transmission_q) \in Nat /\ Len(transmission_q) <= NbFragments
      BY LenProperties DEF TypeOK
    <3>. QED  BY <1>2, <1>3, <2>1, <3>1, SenderAssumption
              DEF FetchTransmission, TypeOK
  <2>. QED  BY <1>2, <1>3, <2>1, <2>2
            DEF FetchTransmission, TypeOK, RequestAborts,
                RetransmissionRegular, RtCoversQueue, RoomForRequest
<1>4. CASE FetchRetransmission
  <2>1. Fetch(retransmission_q) /\ pc = "loop" /\ rt /\ UNCHANGED rt
    BY <1>4 DEF FetchRetransmission
  <2>2. /\ frg' \in Regular
        /\ retransmission_q' \in Seq(Regular)
    BY <1>4, <2>1, HeadTailProperties
       DEF FetchRetransmission, Fetch, RetransmissionRegular
  <2>3. Len(retransmission_q') <= NbFragments
    <3>1. Len(retransmission_q) \in Nat /\ Len(retransmission_q) <= NbFragments
      BY LenProperties DEF TypeOK
    <3>. QED  BY <1>2, <1>4, <2>1, <3>1, SenderAssumption
              DEF FetchRetransmission, TypeOK
  <2>. QED  BY <1>2, <1>4, <2>1, <2>2, <2>3
            DEF FetchRetransmission, TypeOK, RequestAborts, Regular,
                RetransmissionRegular, RtCoversQueue, RoomForRequest
<1>5. CASE FetchInvalid
  BY <1>5 DEF FetchInvalid, TypeOK, Busy, RequestAborts,
              RetransmissionRegular, RtCoversQueue, RoomForRequest
<1>6. CASE QueuesDrained
  BY <1>6 DEF QueuesDrained, Return, TypeOK, Busy, RequestAborts,
              RetransmissionRegular, RtCoversQueue, RoomForRequest
<1>7. CASE SendPlain
  <2>1. /\ frg' = NULL /\ pc' \in {"loop", "returned"}
        /\ result' \in {result, "SCHC_SENDER_ABORTED"}
        /\ rt' = (retransmission_q # <<>>)
    BY <1>7 DEF SendPlain, Return, Continue, update_rt
  <2>2. ~Busy'
    BY <2>1 DEF Busy
  <2>. QED  BY <1>7, <2>1, <2>2
            DEF SendPlain, TypeOK, RequestAborts,
                RetransmissionRegular, RtCoversQueue, RoomForRequest
<1>8. CASE SendPlainFails
  BY <1>8, TimeoutInv DEF SendPlainFails, Busy, TypeOK
<1>9. CASE SendRequest \/ SendRequestFails
  BY <1>9 DEF SendRequest, SendRequestFails, TypeOK, Busy, RequestAborts,
              RetransmissionRegular, RtCoversQueue, RoomForRequest
<1>10. CASE LoseRequest
  <2>1. CASE timeout_procedure(frg)
    BY <1>10, <2>1, TimeoutInv DEF LoseRequest, Busy
  <2>2. CASE buffer # <<>> /\ process_ack(frg, Head(buffer))
    <3>1. Head(buffer) \in Acks
      BY <2>2 DEF TypeOK
    <3>2. IsAck(Head(buffer))
      BY <3>1, AcksAssumption
    <3>. QED  BY <1>10, <2>2, <3>2, ProcessAckInv DEF LoseRequest, Busy
  <2>. QED  BY <1>10, <2>1, <2>2 DEF LoseRequest
<1>11. ASSUME NEW ack \in Acks, Answer(ack)
       PROVE  IInv'
  <2>1. IsAck(ack)
    BY AcksAssumption
  <2>2. /\ Busy /\ update_rt
        /\ buffer' \in {<<>>} \cup {<<a>> : a \in Acks}
    BY <1>11 DEF Answer, Busy, TypeOK
  <2>3. timeout_procedure(frg) \/ process_ack(frg, ack)
    BY <1>11 DEF Answer
  <2>4. CASE timeout_procedure(frg)
    BY <2>2, <2>4, TimeoutInv
  <2>5. CASE process_ack(frg, ack)
    BY <2>1, <2>2, <2>5, ProcessAckInv
  <2>. QED  BY <2>3, <2>4, <2>5
<1>12. CASE LoseAnswer
  BY <1>12, TimeoutInv DEF LoseAnswer, Busy, TypeOK
<1>13. CASE Expire \/ ExpireUnsent
  BY <1>13, TimeoutInv DEF Expire, ExpireUnsent, Busy, TypeOK
<1>14. ASSUME NEW ack \in Acks, AnswerUnsent(ack)
       PROVE  IInv'
  <2>1. buffer' \in {<<>>} \cup {<<a>> : a \in Acks}
    BY <1>14 DEF AnswerUnsent
  <2>. QED  BY <1>14, <2>1, TimeoutInv DEF AnswerUnsent, Busy
<1>15. CASE Terminated \/ UNCHANGED vars
  BY <1>15 DEF Terminated, vars, TypeOK, Busy, RequestAborts,
               RetransmissionRegular, RtCoversQueue, RoomForRequest
<1>. QED  BY <1>1, <1>3, <1>4, <1>5, <1>6, <1>7, <1>8, <1>9, <1>10, <1>11,
             <1>12, <1>13, <1>14, <1>15
          DEF Next, Loop, Send, Receive

\* The invariant holds throughout, for every peer, packet and Rule.
THEOREM SenderInvariant == Spec => []IInv
<1>1. IInv /\ [Next]_vars => IInv'
  BY NextInv
<1>. QED  BY InitInv, <1>1, PTL DEF Spec

-----------------------------------------------------------------------------
(* The theorems.                                                            *)

\* The state of the sender is well formed whatever the peer and the socket do.
THEOREM TypeCorrect == Spec => []TypeOK
<1>1. IInv => TypeOK
  BY DEF IInv
<1>. QED  BY <1>1, SenderInvariant, PTL

-----------------------------------------------------------------------------
(* The retransmission flag, on a socket whose sendto does not fail.  An     *)
(* answer is only awaited while the flag is down.                           *)

RtInv ==
    /\ RtNamesQueue
    /\ pc \in {"constructed", "recvfrom", "recvfrom_unsent"} => ~rt

\* With sends that do not fail, sender_start never takes the next fragment
\* from an empty queue while the other one has fragments: schc() is never
\* handed the NULL of fq_get.
THEOREM RtIsSound ==
    ASSUME ~SendErrors
    PROVE  Spec => []RtNamesQueue
<1>1. Init => RtInv
  BY DEF Init, RtInv, RtNamesQueue
<1>2. IInv /\ RtInv /\ [Next]_vars => RtInv'
  <2> SUFFICES ASSUME IInv, RtInv, [Next]_vars
               PROVE  RtInv'
    OBVIOUS
  <2>. USE DEF IInv, RtInv, RtNamesQueue
  <2>1. CASE Start
    BY <2>1 DEF Start, RtCoversQueue
  <2>2. CASE FetchTransmission \/ FetchRetransmission
    BY <2>2 DEF FetchTransmission, FetchRetransmission, Fetch
  <2>3. CASE FetchInvalid \/ QueuesDrained
    BY <2>3 DEF FetchInvalid, QueuesDrained, Return
  <2>4. CASE SendPlain
    BY <2>4 DEF SendPlain, update_rt, Return, Continue
  <2>5. CASE SendPlainFails \/ SendRequestFails
    BY <2>5 DEF SendPlainFails, SendRequestFails
  <2>6. CASE SendRequest
    BY <2>6 DEF SendRequest, enable_recv
  <2>7. CASE LoseRequest \/ LoseAnswer
    BY <2>7 DEF LoseRequest, LoseAnswer, update_rt, timeout_procedure,
                process_ack, Return, Continue
  <2>8. ASSUME NEW ack \in Acks, Answer(ack)
        PROVE  RtInv'
    BY <2>8 DEF Answer, update_rt, timeout_procedure, process_ack,
                Return, Continue
  <2>9. CASE Expire \/ ExpireUnsent
    BY <2>9 DEF Expire, ExpireUnsent, timeout_procedure, RtCoversQueue,
                Return, Continue
  <2>10. ASSUME NEW ack \in Acks, AnswerUnsent(ack)
         PROVE  RtInv'
    BY <2>10 DEF AnswerUnsent, timeout_procedure, RtCoversQueue,
                 Return, Continue
  <2>11. CASE Terminated \/ UNCHANGED vars
    BY <2>11 DEF Terminated, vars
  <2>. QED  BY <2>1, <2>2, <2>3, <2>4, <2>5, <2>6, <2>7, <2>8, <2>9, <2>10,
               <2>11 DEF Next, Loop, Send, Receive
<1>3. RtInv => RtNamesQueue
  BY DEF RtInv
<1>. QED  BY <1>1, <1>2, <1>3, SenderInvariant, PTL DEF Spec

-----------------------------------------------------------------------------
(* Requests and Sender-Aborts, under a Rule whose Sender-Abort is shorter   *)
(* than its All-1 header.                                                   *)

\* A Sender-Abort is sent and done with: schc() never waits for its answer.
THEOREM AbortIsFinal ==
    ASSUME AbortIsShort
    PROVE  Spec => []NoWaitAfterAbort
<1>1. Init => NoWaitAfterAbort
  BY DEF Init, NoWaitAfterAbort
<1>2. NoWaitAfterAbort /\ [Next]_vars => NoWaitAfterAbort'
  <2> SUFFICES ASSUME NoWaitAfterAbort, [Next]_vars
               PROVE  NoWaitAfterAbort'
    OBVIOUS
  <2>1. CASE SendRequest \/ SendRequestFails
    BY <2>1 DEF SendRequest, SendRequestFails, enable_recv, frg_expects_ack,
                is_frg_all_0, is_frg_all_1, NoWaitAfterAbort
  <2>2. CASE Loop
    BY <2>2 DEF Loop, Start, FetchTransmission, FetchRetransmission, Fetch,
                FetchInvalid, QueuesDrained, Return, NoWaitAfterAbort
  <2>3. CASE SendPlain \/ SendPlainFails \/ LoseRequest
    BY <2>3 DEF SendPlain, SendPlainFails, LoseRequest, timeout_procedure,
                process_ack, Return, Continue, NoWaitAfterAbort
  <2>4. CASE Receive
    BY <2>4 DEF Receive, Answer, AnswerUnsent, LoseAnswer, Expire,
                ExpireUnsent, timeout_procedure, process_ack, Return,
                Continue, NoWaitAfterAbort
  <2>5. CASE Terminated \/ UNCHANGED vars
    BY <2>5 DEF Terminated, vars, NoWaitAfterAbort
  <2>. QED  BY <2>1, <2>2, <2>3, <2>4, <2>5 DEF Next, Send
<1>. QED  BY <1>1, <1>2, PTL DEF Spec

\* The counter is below its limit unless an ACK-REQ is on its way, or the
\* limit has already turned the All-1 into a Sender-Abort.
Limit == IF MaxAckRequests = 0 THEN 1 ELSE MaxAckRequests

RequestInv ==
    /\ attempts <= Limit
    /\ All1 \notin aborts /\ ~(Busy /\ frg = All1) => attempts < Limit

\* No more than MAX_ACK_REQUESTS requests in a row go unanswered.
THEOREM RequestsAreBounded ==
    ASSUME AbortIsShort, ~DisableMaxAckRequests
    PROVE  Spec => []RequestsBounded
<1>. USE SenderAssumption DEF Limit
<1>1. Init => RequestInv
  BY DEF Init, RequestInv
<1>2. IInv /\ RequestInv /\ Busy /\ timeout_procedure(frg) => RequestInv'
  <2> SUFFICES ASSUME IInv, RequestInv, Busy, timeout_procedure(frg)
               PROVE  RequestInv'
    OBVIOUS
  <2>1. attempts \in Int /\ attempts' = attempts
    BY DEF IInv, TypeOK, AttemptsBound, timeout_procedure
  <2>2. ~Busy'
    BY DEF timeout_procedure, Return, Continue, Busy
  <2>3. CASE frg = All1 /\ All1 \notin aborts
    <3>1. is_frg_all_1(frg)
      BY <2>3 DEF is_frg_all_1
    <3>2. attempts >= MaxAckRequests => All1 \in aborts'
      BY <2>3, <3>1
         DEF timeout_procedure, gives_up, generate_sender_abort, is_frg_all_0,
             frg_expects_ack
    <3>. QED  BY <2>1, <2>2, <3>2 DEF RequestInv
  <2>4. CASE ~(frg = All1 /\ All1 \notin aborts)
    <3>1. aborts \subseteq aborts'
      BY DEF timeout_procedure, generate_sender_abort
    <3>. QED  BY <2>1, <2>2, <2>4, <3>1 DEF RequestInv
  <2>. QED  BY <2>3, <2>4
<1>3. IInv /\ RequestInv /\ [Next]_vars => RequestInv'
  <2> SUFFICES ASSUME IInv, RequestInv, [Next]_vars
               PROVE  RequestInv'
    OBVIOUS
  <2>. USE DEF RequestInv
  <2>1. attempts \in Int
    BY DEF IInv, TypeOK, AttemptsBound
  <2>2. ASSUME NEW q, pc = "loop", Fetch(q), UNCHANGED aborts
        PROVE  RequestInv'
    <3>1. ~Busy /\ Busy' /\ frg' = Head(q)
      BY <2>2 DEF Busy, Fetch
    <3>2. CASE is_frg_all_1(Head(q))
      <4>1. Head(q) = All1 /\ All1 \notin aborts
        BY <3>2 DEF is_frg_all_1
      <4>2. attempts' \in {attempts, attempts + 1}
        BY <2>2 DEF Fetch, counted
      <4>. QED  BY <2>1, <2>2, <3>1, <4>1, <4>2
    <3>3. CASE ~is_frg_all_1(Head(q))
      <4>1. attempts' = attempts
        BY <2>2, <3>3 DEF Fetch, counted
      <4>2. Head(q) # All1 \/ All1 \in aborts
        BY <3>3 DEF is_frg_all_1
      <4>. QED  BY <2>1, <2>2, <3>1, <4>1, <4>2
    <3>. QED  BY <3>2, <3>3
  <2>3. ASSUME NEW ack, process_ack(frg, ack)
        PROVE  RequestInv'
    BY <2>3 DEF process_ack
  <2>4. CASE Start \/ FetchInvalid \/ QueuesDrained
    BY <2>1, <2>4 DEF Start, FetchInvalid, QueuesDrained, Return, Busy
  <2>5. CASE FetchTransmission \/ FetchRetransmission
    BY <2>2, <2>5 DEF FetchTransmission, FetchRetransmission
  <2>6. CASE SendPlain
    <3>1. frg # All1 \/ All1 \in aborts
      BY <2>6 DEF IInv, RoomForRequest, SendPlain, Busy, enable_recv,
                  frg_expects_ack, is_frg_all_1
    <3>. QED  BY <2>1, <2>6, <3>1 DEF SendPlain, Return, Continue, Busy
  <2>7. CASE SendPlainFails \/ LoseAnswer \/ Expire \/ ExpireUnsent
    BY <1>2, <2>7 DEF SendPlainFails, LoseAnswer, Expire, ExpireUnsent, Busy
  <2>8. CASE SendRequest \/ SendRequestFails
    BY <2>1, <2>8 DEF SendRequest, SendRequestFails, Busy
  <2>9. CASE LoseRequest
    BY <1>2, <2>3, <2>9 DEF LoseRequest, Busy
  <2>10. ASSUME NEW ack \in Acks, Answer(ack) \/ AnswerUnsent(ack)
         PROVE  RequestInv'
    BY <1>2, <2>3, <2>10 DEF Answer, AnswerUnsent, Busy
  <2>11. CASE Terminated \/ UNCHANGED vars
    BY <2>11 DEF Terminated, vars, Busy
  <2>. QED  BY <2>4, <2>5, <2>6, <2>7, <2>8, <2>9, <2>10, <2>11
            DEF Next, Loop, Send, Receive
<1>4. IInv /\ RequestInv => RequestsBounded
  BY DEF RequestInv, RequestsBounded, IInv, TypeOK, AttemptsBound
<1>. QED  BY <1>1, <1>3, <1>4, SenderInvariant, PTL DEF Spec


-----------------------------------------------------------------------------
(* The contents of the two queues: what is retransmitted, and where the     *)
(* ACK-REQ is.  For every packet size and window size, whatever sendto does. *)

\* The peer names windows of the packet only, in ascending order.
AboutPacket(ack) ==
    ack.kind # "receiver_abort" =>
        \A k \in DOMAIN ack.tuples : ack.tuples[k].window \in 0..LastWindow

Ascends(ack) ==
    ack.kind # "receiver_abort" =>
        \A i, j \in DOMAIN ack.tuples :
            i < j => ack.tuples[i].window < ack.tuples[j].window

PacketOnly == \A ack \in Acks : AboutPacket(ack)

WellOrdered == \A ack \in Acks : Ascends(ack)

-----------------------------------------------------------------------------
(* What is retransmitted.                                                   *)

\* A window of the packet has nothing to retransmit at or past the All-1.
LEMMA MissingBeforeAll1 ==
    ASSUME NEW w \in 0..LastWindow, NEW j \in bitmap_positions(w)
    PROVE  WindowSize * w + j \in 0..All1 - 1
<1> DEFINE ws == WindowSize
           d  == All1 \div ws
           r  == All1 % ws
<1>1. ws \in Nat \ {0} /\ All1 \in Nat
  BY SenderAssumption DEF All1
<1>2. d \in Nat /\ r \in 0..ws - 1 /\ All1 = ws * d + r /\ d = LastWindow
  BY <1>1, DivisionProperties DEF LastWindow, All1
<1>3. j \in 0..ws - 1 /\ w \in 0..d /\ (w = d => j < r)
  BY <1>2 DEF bitmap_positions, Positions
<1>. HIDE DEF ws, d, r
<1>4. ws * w \in Nat /\ ws * d \in Nat
  BY <1>1, <1>2, <1>3
<1>5. w < d => ws * w + ws <= ws * d
  BY <1>1, <1>2, <1>3, Z3
<1>6. ws * w + j \in 0..All1 - 1
  BY <1>1, <1>2, <1>3, <1>4, <1>5
<1>. QED  BY <1>6 DEF ws

\* The fragments an ACK asks for, in the order of the packet.
LEMMA MissingAscending ==
    ASSUME NEW ack, IsAck(ack), ack.kind # "receiver_abort",
           AboutPacket(ack), Ascends(ack)
    PROVE  /\ missing_fragments(ack) \in Seq(0..All1 - 1)
           /\ \A i, j \in DOMAIN missing_fragments(ack) :
                  i < j => missing_fragments(ack)[i] < missing_fragments(ack)[j]
<1> DEFINE L == losses(ack)
           n == Cardinality(L)
           a == Ascending(L)
           m == missing_fragments(ack)
           ws == WindowSize
           k(loss) == loss \div ws
           w(loss) == ack.tuples[k(loss)].window
<1>1. reported_tuples(ack) \subseteq DOMAIN ack.tuples
  BY TuplesRead DEF reported_tuples
<1>2. \A t \in reported_tuples(ack) : ack.tuples[t].window \in 0..LastWindow
  BY <1>1 DEF AboutPacket
<1>3. /\ m \in Seq(0..All1 - 1) /\ DOMAIN m = 1..n
      /\ \A i \in 1..n : a[i] \in L /\ m[i] = fragment_lost(ack, a[i])
  BY <1>2, MissingBeforeAll1, MissingSequence
<1>4. \A i, j \in 1..n : i < j => a[i] < a[j]
  <2>1. L \in SUBSET Int /\ IsFiniteSet(L)
    BY LossProperties
  <2>. QED  BY <2>1, InOrder
<1>5. ASSUME NEW x \in L, NEW y \in L, x < y
      PROVE  fragment_lost(ack, x) < fragment_lost(ack, y)
  <2> DEFINE kx == k(x)
             ky == k(y)
             wx == w(x)
             wy == w(y)
             jx == x % ws
             jy == y % ws
  <2>1. /\ kx \in reported_tuples(ack) /\ x = ws * kx + jx /\ jx \in 0..ws - 1
        /\ ky \in reported_tuples(ack) /\ y = ws * ky + jy /\ jy \in 0..ws - 1
    BY LossProperties DEF bitmap_positions, Positions
  <2>2. kx \in Nat /\ ky \in Nat /\ ws \in Nat \ {0}
    BY <2>1, TuplesRead, SenderAssumption DEF reported_tuples
  <2>3. wx \in Nat /\ wy \in Nat /\ (kx < ky => wx < wy) /\ (kx = ky => wx = wy)
    BY <1>1, <1>2, <2>1 DEF Ascends
  <2>4. /\ fragment_lost(ack, x) = ws * wx + jx
        /\ fragment_lost(ack, y) = ws * wy + jy
    BY DEF fragment_lost
  <2>. HIDE DEF kx, ky, wx, wy, jx, jy, ws
  <2>5. ky < kx => ws * ky + ws <= ws * kx
    BY <2>2, Z3
  <2>6. wx < wy => ws * wx + ws <= ws * wy
    BY <2>2, <2>3, Z3
  <2>7. ws * kx \in Nat /\ ws * ky \in Nat /\ ws * wx \in Nat /\ ws * wy \in Nat
    BY <2>2, <2>3
  <2>8. kx < ky \/ kx = ky
    BY <1>5, <2>1, <2>2, <2>5, <2>7
  <2>9. CASE kx = ky
    <3>1. jx < jy
      BY <1>5, <2>1, <2>7, <2>9
    <3>. QED  BY <2>1, <2>3, <2>4, <2>7, <2>9, <3>1
  <2>10. CASE kx < ky
    BY <2>1, <2>2, <2>3, <2>4, <2>6, <2>7, <2>10
  <2>. QED  BY <2>8, <2>9, <2>10
<1>. HIDE DEF L, n, a, m
<1>6. \A i, j \in DOMAIN m : i < j => m[i] < m[j]
  BY <1>3, <1>4, <1>5
<1>. QED  BY <1>3, <1>6 DEF m

Ordered(q) ==
    /\ Elements(q) \subseteq 0..All1 - 1
    /\ \A i, j \in DOMAIN q : i < j => q[i] < q[j]

\* The puts of a whole ACK in an empty queue keep its order, whatever is refused.
LEMMA PutAllOrdered ==
    ASSUME NEW objs \in Seq(0..All1 - 1),
           \A i, j \in DOMAIN objs : i < j => objs[i] < objs[j]
    PROVE  Ordered(fq_put_all(<<>>, objs))
<1> DEFINE n == IF Len(objs) <= NbFragments THEN Len(objs) ELSE NbFragments
           q == SubSeq(objs, 1, n)
<1>1. NbFragments \in Nat /\ Len(objs) \in Nat /\ n \in Nat /\ n <= Len(objs)
  BY SenderAssumption, LenProperties
<1>2. fq_put_all(<<>>, objs) = <<>> \o q
  BY <1>1 DEF fq_put_all
<1>. HIDE DEF n
<1>3. \A i \in 1..n : objs[i] \in 0..All1 - 1
  <2>1. \A i \in 1..n : i \in 1..Len(objs)
    BY <1>1
  <2>. QED  BY <2>1, ElementOfSeq
<1>4. /\ q \in Seq(0..All1 - 1) /\ Len(q) = n
      /\ \A i \in 1..n : q[i] = objs[i]
  BY <1>1, <1>3, SubSeqProperties
<1>. HIDE DEF q
<1>5. fq_put_all(<<>>, objs) = q
  BY <1>2, <1>4, ConcatEmptySeq
<1>6. DOMAIN q = 1..n /\ 1..n \subseteq DOMAIN objs
  BY <1>1, <1>4, LenProperties
<1>. QED  BY <1>3, <1>4, <1>5, <1>6 DEF Ordered, Elements

\* What follows the head of an ordered queue is ordered.
LEMMA TailOrdered ==
    ASSUME NEW T, NEW q \in Seq(T), q # <<>>, Ordered(q)
    PROVE  Ordered(Tail(q))
<1>1. /\ Tail(q) \in Seq(T) /\ Len(Tail(q)) = Len(q) - 1
      /\ \A k \in 1..Len(Tail(q)) : Tail(q)[k] = q[k + 1]
  BY HeadTailProperties
<1>2. DOMAIN q = 1..Len(q) /\ DOMAIN Tail(q) = 1..Len(q) - 1 /\ Len(q) \in Nat
  BY <1>1, LenProperties
<1>3. \A k \in DOMAIN Tail(q) : k + 1 \in DOMAIN q /\ Tail(q)[k] = q[k + 1]
  BY <1>1, <1>2
<1>4. \A i, j \in DOMAIN Tail(q) : i < j => i + 1 < j + 1
  BY <1>2
<1>. QED  BY <1>3, <1>4 DEF Ordered, Elements

LEMMA OrderedQueue == RetransmissionOrdered <=> Ordered(retransmission_q)
<1>1. Fragments \ {All1} = 0..All1 - 1
  BY SenderAssumption DEF Fragments, All1
<1>. QED  BY <1>1 DEF RetransmissionOrdered, Ordered

\* An answer is only awaited while there is nothing to retransmit.
AwaitsWithoutRt == pc \in {"recvfrom", "recvfrom_unsent"} => ~rt

OrderedInv == Ordered(retransmission_q) /\ AwaitsWithoutRt

LEMMA EmptyOrdered == Ordered(<<>>)
  BY DEF Ordered, Elements

\* An ACK that finds the queue empty leaves it ordered.
LEMMA AckOrdered ==
    ASSUME NEW p, NEW ack, IsAck(ack),
           AboutPacket(ack), Ascends(ack),
           retransmission_q = <<>>, process_ack(p, ack)
    PROVE  Ordered(retransmission_q')
<1>1. CASE retransmission_q' = retransmission_q
  BY <1>1, EmptyOrdered
<1>2. CASE /\ ack.kind # "receiver_abort"
           /\ retransmission_q' = fq_put_all(<<>>, missing_fragments(ack))
  BY <1>2, MissingAscending, PutAllOrdered
<1>. QED  BY <1>1, <1>2 DEF process_ack, update_queues, queued_losses

\* Every step keeps the retransmission queue in order.
LEMMA OrderedNext ==
    PacketOnly /\ WellOrdered /\ IInv /\ OrderedInv /\ [Next]_vars => OrderedInv'
<1> SUFFICES ASSUME PacketOnly, WellOrdered, IInv, OrderedInv, [Next]_vars
             PROVE  OrderedInv'
  OBVIOUS
<1>. USE DEF OrderedInv, AwaitsWithoutRt
<1>1. ~rt => retransmission_q = <<>>
  BY DEF IInv, RtCoversQueue
<1>2. retransmission_q \in Seq(Regular)
  BY DEF IInv, RetransmissionRegular
<1>3. \A ack \in Acks : IsAck(ack) /\ AboutPacket(ack) /\ Ascends(ack)
  BY AcksAssumption DEF PacketOnly, WellOrdered
<1>4. ASSUME NEW p, NEW ack \in Acks, ~rt, process_ack(p, ack)
      PROVE  OrderedInv'
  <2>1. Ordered(retransmission_q')
    BY <1>1, <1>3, <1>4, AckOrdered
  <2>2. pc' \in {"loop", "returned"}
    BY <1>4 DEF process_ack, Return, Continue
  <2>. QED  BY <2>1, <2>2
<1>5. ASSUME NEW p, timeout_procedure(p)
      PROVE  OrderedInv'
  BY <1>5 DEF timeout_procedure, Return, Continue
<1>6. CASE FetchRetransmission
  BY <1>2, <1>6, TailOrdered DEF FetchRetransmission, Fetch
<1>7. CASE Start \/ FetchTransmission \/ FetchInvalid \/ QueuesDrained
  BY <1>7 DEF Start, FetchTransmission, Fetch, FetchInvalid, QueuesDrained, Return
<1>8. CASE SendPlain \/ SendRequest \/ SendRequestFails
  BY <1>8 DEF SendPlain, SendRequest, SendRequestFails, enable_recv, Return, Continue
<1>9. CASE SendPlainFails \/ LoseAnswer \/ Expire \/ ExpireUnsent
  BY <1>5, <1>9 DEF SendPlainFails, LoseAnswer, Expire, ExpireUnsent
<1>10. CASE LoseRequest
  <2>1. ~rt /\ (buffer # <<>> => Head(buffer) \in Acks)
    BY <1>10 DEF LoseRequest, enable_recv, IInv, TypeOK
  <2>. QED  BY <1>4, <1>5, <1>10, <2>1 DEF LoseRequest
<1>11. ASSUME NEW ack \in Acks, Answer(ack) \/ AnswerUnsent(ack)
       PROVE  OrderedInv'
  BY <1>4, <1>5, <1>11 DEF Answer, AnswerUnsent
<1>12. CASE Terminated \/ UNCHANGED vars
  BY <1>12 DEF Terminated, vars
<1>. QED  BY <1>6, <1>7, <1>8, <1>9, <1>10, <1>11, <1>12
          DEF Next, Loop, Send, Receive

\* Against a peer that names windows of the packet in ascending order, each loss
\* is retransmitted once and in order, and the All-1 never.
THEOREM RetransmitsInOrder ==
    ASSUME PacketOnly, WellOrdered
    PROVE  Spec => []RetransmissionOrdered
<1>1. Init => OrderedInv
  BY EmptyOrdered DEF Init, OrderedInv, AwaitsWithoutRt
<1>2. IInv /\ OrderedInv /\ [Next]_vars => OrderedInv'
  BY OrderedNext
<1>3. OrderedInv => RetransmissionOrdered
  BY OrderedQueue DEF OrderedInv
<1>. QED  BY <1>1, <1>2, <1>3, SenderInvariant, PTL DEF Spec

\* No more fragments are missing than the packet has before its All-1.
LEMMA MissingFits ==
    ASSUME NEW m \in Seq(0..All1 - 1),
           \A i, j \in DOMAIN m : i < j => m[i] < m[j]
    PROVE  Len(m) <= NbFragments
<1> DEFINE n == Len(m)
           S == 0..All1 - 1
<1>1. n \in Nat /\ m \in [1..n -> S] /\ All1 \in Nat /\ All1 <= NbFragments
  BY LenProperties, SenderAssumption DEF All1
<1>2. IsFiniteSet(S) /\ Cardinality(S) = All1
  BY <1>1, FS_Interval
<1>. HIDE DEF n
<1>3. IsFiniteSet(1..n) /\ Cardinality(1..n) = n
  BY <1>1, FS_Interval
<1>4. DOMAIN m = 1..n /\ S \subseteq Int
  BY <1>1
<1>. HIDE DEF S
<1>5. \A i, j \in 1..n : m[i] = m[j] => i = j
  <2> SUFFICES ASSUME NEW i \in 1..n, NEW j \in 1..n, i # j
               PROVE  m[i] # m[j]
    OBVIOUS
  <2>1. i \in Int /\ j \in Int /\ m[i] \in Int /\ m[j] \in Int
    BY <1>1, <1>4
  <2>2. i < j \/ j < i
    BY <2>1
  <2>3. (i < j => m[i] < m[j]) /\ (j < i => m[j] < m[i])
    BY <1>4
  <2>. QED  BY <2>1, <2>2, <2>3
<1>6. m \in Injection(1..n, S)
  BY <1>1, <1>5 DEF Injection, IsInjective
<1>7. n <= Cardinality(S)
  BY <1>2, <1>3, <1>6, FS_Injection
<1>8. n <= All1 /\ NbFragments \in Int
  BY <1>2, <1>7, SenderAssumption
<1>9. n <= NbFragments
  BY <1>1, <1>8
<1>. QED  BY <1>9 DEF n

\* A put of what fits refuses nothing.
LEMMA NothingRefused ==
    ASSUME NEW T, NEW objs \in Seq(T), Len(objs) <= NbFragments
    PROVE  fq_put_all(<<>>, objs) = <<>> \o objs
<1>1. Len(objs) \in Nat /\ NbFragments \in Nat /\ Len(<<>>) = 0
  BY LenProperties, SenderAssumption
<1>2. SubSeq(objs, 1, Len(objs)) = objs
  OBVIOUS
<1>. QED  BY <1>1, <1>2 DEF fq_put_all

\* Against such a peer the fq_put calls of schc_sender.c never find their queue
\* full, so that ignoring what they return loses nothing, under every Rule.
THEOREM QueuesNeverRefuse ==
    ASSUME PacketOnly, WellOrdered
    PROVE  Spec => []NoRefusedPut
<1>1. Init => OrderedInv
  BY EmptyOrdered DEF Init, OrderedInv, AwaitsWithoutRt
<1>2. IInv /\ OrderedInv /\ [Next]_vars => OrderedInv'
  BY OrderedNext
<1>3. IInv /\ OrderedInv => NoRefusedPut
  <2> SUFFICES ASSUME IInv, OrderedInv
               PROVE  NoRefusedPut
    OBVIOUS
  <2>1. Busy /\ ~rt => Len(transmission_q) < NbFragments
    BY DEF IInv, RoomForRequest
  <2>2. ASSUME pc = "recvfrom", NEW ack \in Acks, ack.kind = "loss"
        PROVE  queued_losses(ack) = retransmission_q \o missing_fragments(ack)
    <3>1. retransmission_q = <<>>
      BY <2>2 DEF OrderedInv, AwaitsWithoutRt, IInv, RtCoversQueue
    <3>2. IsAck(ack) /\ AboutPacket(ack) /\ Ascends(ack)
      BY AcksAssumption DEF PacketOnly, WellOrdered
    <3>3. /\ missing_fragments(ack) \in Seq(0..All1 - 1)
          /\ Len(missing_fragments(ack)) <= NbFragments
      BY <2>2, <3>2, MissingAscending, MissingFits
    <3>. QED  BY <3>1, <3>3, NothingRefused DEF queued_losses
  <2>. QED  BY <2>1, <2>2 DEF NoRefusedPut
<1>. QED  BY <1>1, <1>2, <1>3, SenderInvariant, PTL DEF Spec

-----------------------------------------------------------------------------
(* Where the ACK-REQ is.                                                    *)

\* What asks the peer for an answer or ends the transmission.
Asks == {All1, SENDER_ABORT}

\* At most one All-1 in a queue; nothing but requests behind a request.
Shape(q) ==
    /\ \A i, j \in DOMAIN q : q[i] = All1 /\ q[j] = All1 => i = j
    /\ \A i, j \in DOMAIN q : i < j /\ q[i] \in Asks => q[j] \in Asks

\* While a request is worked on, only requests are left, and no second All-1.
TakenRequest ==
    Busy /\ frg \in Asks =>
        \A k \in DOMAIN transmission_q :
            /\ transmission_q[k] \in Asks
            /\ frg = All1 => transmission_q[k] # All1

ShapeInv == Shape(transmission_q) /\ TakenRequest

LEMMA AsksFacts == /\ All1 \in Nat /\ All1 # SENDER_ABORT /\ Asks \subseteq Pointers
                   /\ NULL \notin Asks
  BY SenderAssumption, PointersFacts DEF All1, Asks, SENDER_ABORT, NULL

\* A request may be put behind anything.
LEMMA PutShape ==
    ASSUME NEW q \in Seq(Pointers), Shape(q), NEW x \in Asks,
           x = All1 => \A k \in DOMAIN q : q[k] # All1
    PROVE  Shape(fq_put(q, x))
<1>1. CASE fq_put(q, x) = q
  BY <1>1
<1>2. CASE fq_put(q, x) = Append(q, x)
  <2> DEFINE a == Append(q, x)
             n == Len(q)
  <2>1. n \in Nat /\ DOMAIN q = 1..n /\ x \in Pointers
    BY LenProperties, AsksFacts
  <2>2. /\ DOMAIN a = 1..n + 1 /\ a[n + 1] = x
        /\ \A k \in 1..n : a[k] = q[k]
    BY <2>1, AppendProperties
  <2>. HIDE DEF a, n
  <2>3. \A k \in DOMAIN a : k \in 1..n \/ k = n + 1
    BY <2>1, <2>2
  <2>4. ASSUME NEW i \in DOMAIN a, NEW j \in DOMAIN a, a[i] = All1, a[j] = All1
        PROVE  i = j
    BY <2>1, <2>2, <2>3, <2>4 DEF Shape
  <2>5. ASSUME NEW i \in DOMAIN a, NEW j \in DOMAIN a, i < j, a[i] \in Asks
        PROVE  a[j] \in Asks
    <3>1. CASE j = n + 1
      BY <2>2, <3>1
    <3>2. CASE j \in 1..n
      <4>1. i \in 1..n
        BY <2>1, <2>3, <2>5, <3>2
      <4>. QED  BY <2>1, <2>2, <2>5, <3>2, <4>1 DEF Shape
    <3>. QED  BY <2>3, <3>1, <3>2
  <2>. QED  BY <1>2, <2>4, <2>5 DEF Shape, a
<1>. QED  BY <1>1, <1>2 DEF fq_put

\* The head of a queue and what it leaves behind.
LEMMA TakeShape ==
    ASSUME NEW q \in Seq(Pointers), q # <<>>, Shape(q)
    PROVE  /\ Shape(Tail(q))
           /\ Elements(q) = {Head(q)} \cup Elements(Tail(q))
           /\ Head(q) \in Asks =>
                  \A k \in DOMAIN Tail(q) :
                      /\ Tail(q)[k] \in Asks
                      /\ Head(q) = All1 => Tail(q)[k] # All1
<1> DEFINE t == Tail(q)
           n == Len(q)
<1>1. /\ t \in Seq(Pointers) /\ Len(t) = n - 1 /\ Head(q) = q[1]
      /\ \A k \in 1..Len(t) : t[k] = q[k + 1]
  BY HeadTailProperties
<1>2. n \in Nat \ {0} /\ DOMAIN q = 1..n /\ DOMAIN t = 1..n - 1
  BY <1>1, LenProperties, EmptySeq
<1>. HIDE DEF t, n
<1>3. \A k \in DOMAIN t : k + 1 \in DOMAIN q /\ t[k] = q[k + 1] /\ k \in Int /\ 1 < k + 1
  BY <1>1, <1>2
<1>4. 1 \in DOMAIN q /\ \A k \in DOMAIN q : k = 1 \/ (k - 1 \in DOMAIN t /\ k = (k - 1) + 1)
  BY <1>2
<1>5. Shape(t)
  <2>1. ASSUME NEW i \in DOMAIN t, NEW j \in DOMAIN t, t[i] = All1, t[j] = All1
        PROVE  i = j
    <3>1. i + 1 = j + 1
      BY <1>3, <2>1 DEF Shape
    <3>. QED  BY <1>3, <3>1
  <2>2. ASSUME NEW i \in DOMAIN t, NEW j \in DOMAIN t, i < j, t[i] \in Asks
        PROVE  t[j] \in Asks
    <3>1. i + 1 < j + 1
      BY <1>3, <2>2
    <3>. QED  BY <1>3, <2>2, <3>1 DEF Shape
  <2>. QED  BY <2>1, <2>2 DEF Shape
<1>6. Elements(q) = {q[1]} \cup Elements(t)
  BY <1>3, <1>4 DEF Elements
<1>7. ASSUME q[1] \in Asks, NEW k \in DOMAIN t
      PROVE  t[k] \in Asks /\ (q[1] = All1 => t[k] # All1)
  BY <1>3, <1>4, <1>7 DEF Shape
<1>. QED  BY <1>1, <1>5, <1>6, <1>7 DEF t

\* Every fragment of the packet is queued once, the All-1 last.
LEMMA StartShape ==
    ASSUME Start
    PROVE  /\ Shape(transmission_q')
           /\ All1 \in Elements(transmission_q')
           /\ SENDER_ABORT \notin Elements(transmission_q')
<1> DEFINE q == [k \in 1..NbFragments |-> k - 1]
<1>1. NbFragments \in Nat \ {0} /\ All1 = NbFragments - 1
  BY SenderAssumption DEF All1
<1>2. \A k \in DOMAIN q : k \in 1..NbFragments /\ q[k] = k - 1
  OBVIOUS
<1>3. \A k \in DOMAIN q : q[k] \in Asks <=> k = NbFragments
  BY <1>1, <1>2 DEF Asks, SENDER_ABORT
<1>4. \A k \in DOMAIN q : q[k] = All1 => k = NbFragments
  BY <1>1, <1>2
<1>5. NbFragments \in DOMAIN q /\ q[NbFragments] = All1
  BY <1>1
<1>6. \A i, j \in DOMAIN q : i < j => i # NbFragments
  BY <1>1, <1>2
<1>7. transmission_q' = q
  BY DEF Start
<1>8. \A k \in DOMAIN q : q[k] # SENDER_ABORT
  BY <1>1, <1>2 DEF SENDER_ABORT
<1>. HIDE DEF q
<1>. QED  BY <1>3, <1>4, <1>5, <1>6, <1>7, <1>8 DEF Shape, Elements

\* What schc() may put back when it works on p.
LEMMA RequeueShape ==
    ASSUME IInv, ShapeInv, Busy, NEW x,
           x = SENDER_ABORT \/ (x = frg /\ is_frg_all_1(frg))
    PROVE  Shape(fq_put(transmission_q, x))
<1>1. transmission_q \in Seq(Pointers) /\ Shape(transmission_q)
  BY DEF IInv, TypeOK, ShapeInv
<1>2. x \in Asks
  BY All1Cells DEF IInv, Asks
<1>3. x = All1 => \A k \in DOMAIN transmission_q : transmission_q[k] # All1
  BY <1>2, AsksFacts DEF ShapeInv, TakenRequest, Asks
<1>. QED  BY <1>1, <1>2, <1>3, PutShape

\* Every step keeps the queue in shape.
LEMMA ShapeNext == IInv /\ ShapeInv /\ [Next]_vars => ShapeInv'
<1> SUFFICES ASSUME IInv, ShapeInv, [Next]_vars
             PROVE  ShapeInv'
  OBVIOUS
<1>1. ASSUME Busy, ~Busy',
             \/ UNCHANGED transmission_q
             \/ transmission_q' = fq_put(transmission_q, SENDER_ABORT)
             \/ is_frg_all_1(frg) /\ transmission_q' = fq_put(transmission_q, frg)
      PROVE  ShapeInv'
  <2>1. Shape(transmission_q')
    BY <1>1, RequeueShape DEF ShapeInv
  <2>. QED  BY <1>1, <2>1 DEF ShapeInv, TakenRequest
<1>2. ASSUME Busy, timeout_procedure(frg)
      PROVE  ShapeInv'
  BY <1>1, <1>2 DEF timeout_procedure, Return, Continue, Busy
<1>3. ASSUME Busy, NEW ack, process_ack(frg, ack)
      PROVE  ShapeInv'
  <2>1. \/ UNCHANGED transmission_q
        \/ transmission_q' = fq_put(transmission_q, SENDER_ABORT)
        \/ is_frg_all_1(frg) /\ transmission_q' = fq_put(transmission_q, frg)
    BY <1>3 DEF process_ack, update_queues, requeued
  <2>2. ~Busy'
    BY <1>3 DEF process_ack, Return, Continue, Busy
  <2>. QED  BY <1>1, <1>3, <2>1, <2>2
<1>4. CASE Start
  BY <1>4, StartShape DEF Start, Busy, ShapeInv, TakenRequest
<1>5. CASE FetchTransmission
  <2>1. /\ transmission_q \in Seq(Pointers) /\ transmission_q # <<>>
        /\ transmission_q' = Tail(transmission_q) /\ frg' = Head(transmission_q)
    BY <1>5 DEF FetchTransmission, Fetch, IInv, TypeOK
  <2>. QED  BY <2>1, TakeShape DEF ShapeInv, TakenRequest
<1>6. CASE FetchRetransmission
  <2>1. frg' \notin Asks /\ UNCHANGED transmission_q
    BY <1>6, HeadTailProperties
       DEF FetchRetransmission, Fetch, IInv, RetransmissionRegular, Regular, Asks
  <2>. QED  BY <2>1 DEF ShapeInv, TakenRequest
<1>7. CASE FetchInvalid \/ QueuesDrained
  BY <1>7 DEF FetchInvalid, QueuesDrained, Return, Busy, ShapeInv, TakenRequest
<1>8. CASE SendPlain
  BY <1>1, <1>8 DEF SendPlain, Return, Continue, Busy
<1>9. CASE SendRequest \/ SendRequestFails
  BY <1>9 DEF SendRequest, SendRequestFails, Busy, ShapeInv, TakenRequest
<1>10. CASE SendPlainFails \/ LoseAnswer \/ Expire \/ ExpireUnsent
  BY <1>2, <1>10 DEF SendPlainFails, LoseAnswer, Expire, ExpireUnsent, Busy
<1>11. CASE LoseRequest
  BY <1>2, <1>3, <1>11 DEF LoseRequest, Busy
<1>12. ASSUME NEW ack \in Acks, Answer(ack) \/ AnswerUnsent(ack)
       PROVE  ShapeInv'
  BY <1>2, <1>3, <1>12 DEF Answer, AnswerUnsent, Busy
<1>13. CASE Terminated \/ UNCHANGED vars
  BY <1>13 DEF Terminated, vars, Busy, ShapeInv, TakenRequest
<1>. QED  BY <1>4, <1>5, <1>6, <1>7, <1>8, <1>9, <1>10, <1>11, <1>12, <1>13
          DEF Next, Loop, Send, Receive

LEMMA ShapeInit == Init => ShapeInv
  BY DEF Init, ShapeInv, Shape, TakenRequest, Busy

\* Whatever the peer answers, the All-1 is never sent while a fragment still
\* waits for its first sending.
THEOREM RequestComesLast == Spec => []RequestAfterFragments
<1>1. ShapeInv => RequestAfterFragments
  BY AsksFacts DEF ShapeInv, TakenRequest, RequestAfterFragments, Elements, Asks
<1>2. IInv /\ ShapeInv /\ [Next]_vars => ShapeInv'
  BY ShapeNext
<1>. QED  BY <1>1, <1>2, ShapeInit, SenderInvariant, PTL DEF Spec

-----------------------------------------------------------------------------
(* There is always a request.                                               *)

\* An ACK about windows of the packet is not beyond the window of a request.
LEMMA RequestWindow ==
    ASSUME NEW ack, IsAck(ack), ack.kind # "receiver_abort", AboutPacket(ack),
           RequestAborts, NEW p, is_frg_all_1(p)
    PROVE  ~refused(p, ack)
<1> DEFINE last == ack.tuples[Greatest(tuples_read(ack))].window
<1>1. LastWindow \in Nat /\ LastWindow <= MaxWindowNb - 1 /\ MaxWindowNb \in Nat
  <2> DEFINE ws == WindowSize
             d  == All1 \div ws
             r  == All1 % ws
  <2>1. ws \in Nat \ {0} /\ All1 \in Nat /\ MaxWindowNb \in Nat
        /\ All1 < MaxWindowNb * ws
    BY SenderAssumption DEF All1
  <2>2. d \in Nat /\ r \in 0..ws - 1 /\ All1 = ws * d + r
    BY <2>1, DivisionProperties
  <2>3. d = LastWindow
    BY DEF LastWindow, All1
  <2>. HIDE DEF ws, d, r
  <2>4. ws * d < ws * MaxWindowNb
    BY <2>1, <2>2, Z3
  <2>5. d < MaxWindowNb
    BY <2>1, <2>2, <2>4, Z3
  <2>. QED  BY <2>1, <2>2, <2>3, <2>5
<1>2. last \in 0..LastWindow
  BY TuplesRead DEF AboutPacket
<1>3. get_frg_window(p) \in {MaxWindowNb - 1, LastWindow}
  BY DEF is_frg_all_1, get_frg_window, window_id, LastWindow, All1
<1>. HIDE DEF last
<1>4. ~(last > get_frg_window(p))
  BY <1>1, <1>2, <1>3
<1>. QED  BY <1>4 DEF refused, last

\* What a put adds to a queue.
LEMMA PutElements ==
    ASSUME NEW q \in Seq(Pointers), NEW x \in Pointers
    PROVE  /\ Elements(q) \subseteq Elements(fq_put(q, x))
           /\ Elements(fq_put(q, x)) \subseteq Elements(q) \cup {x}
           /\ Len(q) < NbFragments => x \in Elements(fq_put(q, x))
<1> DEFINE a == Append(q, x)
           n == Len(q)
<1>1. n \in Nat /\ DOMAIN q = 1..n
  BY LenProperties
<1>2. /\ DOMAIN a = 1..n + 1 /\ a[n + 1] = x
      /\ \A k \in 1..n : a[k] = q[k]
  BY <1>1, AppendProperties
<1>. HIDE DEF a, n
<1>3. \A k \in DOMAIN a : k \in 1..n \/ k = n + 1
  BY <1>1, <1>2
<1>4. n + 1 \in DOMAIN a /\ 1..n \subseteq DOMAIN a
  BY <1>1, <1>2
<1>5. Elements(a) = Elements(q) \cup {x}
  BY <1>1, <1>2, <1>3, <1>4 DEF Elements
<1>. QED  BY <1>5 DEF fq_put, a

Queued == Elements(transmission_q) \cup {frg}

\* The cell of the Sender-Abort is queued only once it holds one.
AbortMarked == SENDER_ABORT \in Queued => SENDER_ABORT \in aborts

AwaitsRequest == pc \in {"recvfrom", "recvfrom_unsent"} => frg_expects_ack(frg)

Pending == pc = "loop" \/ Busy => \E x \in Asks : x \in Queued

PendingInv == AbortMarked /\ AwaitsRequest /\ Pending

\* A turn of schc() that leaves the transmission queue with a request in it.
LEMMA TurnPending ==
    ASSUME PendingInv, Busy, frg' = NULL, pc' \in {"loop", "returned"},
           aborts \subseteq aborts',
           Elements(transmission_q) \subseteq Elements(transmission_q'),
           SENDER_ABORT \in Elements(transmission_q') =>
               SENDER_ABORT \in aborts' \/ SENDER_ABORT \in Queued,
           pc' = "loop" =>
               frg \notin Asks \/ \E x \in Asks : x \in Elements(transmission_q')
    PROVE  PendingInv'
<1>1. AbortMarked'
  <2>1. SENDER_ABORT \in Queued' => SENDER_ABORT \in Elements(transmission_q')
    BY AsksFacts DEF Queued, Asks
  <2>. QED  BY <2>1 DEF PendingInv, AbortMarked
<1>2. AwaitsRequest' /\ ~Busy'
  BY DEF AwaitsRequest, Busy
<1>3. pc' = "loop" => \E x \in Asks : x \in Elements(transmission_q')
  BY DEF PendingInv, Pending, Queued
<1>4. Pending'
  BY <1>2, <1>3 DEF Pending, Queued
<1>. QED  BY <1>1, <1>2, <1>4 DEF PendingInv

\* The last All-1 is queued again when its answer does not come.
LEMMA TimeoutPending ==
    ASSUME IInv, PendingInv, Busy, timeout_procedure(frg)
    PROVE  PendingInv'
<1>1. /\ transmission_q \in Seq(Pointers) /\ aborts \subseteq aborts'
      /\ frg' = NULL /\ pc' \in {"loop", "returned"}
  BY DEF IInv, TypeOK, timeout_procedure, Return, Continue, generate_sender_abort
<1>2. CASE is_frg_all_1(frg) /\ transmission_q' = fq_put(transmission_q, frg)
  <2>1. frg \in Asks /\ frg \in Pointers
    BY <1>2, All1Cells, AsksFacts DEF IInv, Asks
  <2>2. Len(transmission_q) < NbFragments
    BY <2>1 DEF IInv, RoomForRequest, Asks
  <2>3. /\ Elements(transmission_q) \subseteq Elements(transmission_q')
        /\ Elements(transmission_q') \subseteq Queued
        /\ frg \in Elements(transmission_q')
    BY <1>1, <1>2, <2>1, <2>2, PutElements DEF Queued
  <2>. QED  BY <1>1, <2>1, <2>3, TurnPending
<1>3. CASE is_frg_all_0(frg) /\ UNCHANGED transmission_q
  <2>1. frg \notin Asks
    BY <1>3 DEF is_frg_all_0, Asks, PendingInv, AbortMarked, Queued
  <2>. QED  BY <1>1, <1>3, <2>1, TurnPending DEF Queued
<1>4. CASE pc' = "returned" /\ UNCHANGED transmission_q
  BY <1>1, <1>4, TurnPending DEF Queued
<1>. QED  BY <1>2, <1>3, <1>4 DEF timeout_procedure, Return, Continue

\* So it is after an ACK, unless a Sender-Abort takes its place.
LEMMA AckPending ==
    ASSUME PacketOnly, IInv, PendingInv, Busy, frg_expects_ack(frg),
           NEW ack \in Acks, process_ack(frg, ack)
    PROVE  PendingInv'
<1>1. /\ transmission_q \in Seq(Pointers) /\ aborts \subseteq aborts'
      /\ frg' = NULL /\ pc' \in {"loop", "returned"}
  BY DEF IInv, TypeOK, process_ack, update_queues, Return, Continue,
         generate_sender_abort
<1>2. frg \in Asks => is_frg_all_1(frg) /\ Len(transmission_q) < NbFragments
  BY DEF frg_expects_ack, is_frg_all_0, Asks, PendingInv, AbortMarked, Queued,
         IInv, RoomForRequest
<1>3. is_frg_all_1(frg) => frg \in Asks /\ frg \in Pointers
  BY All1Cells, AsksFacts DEF IInv, Asks
<1>4. CASE pc' = "returned" /\ UNCHANGED transmission_q
  BY <1>1, <1>4, TurnPending DEF Queued
<1>5. CASE ack.kind # "receiver_abort" /\ update_queues(frg, ack)
  <2>1. ~refused(frg, ack) \/ frg \notin Asks
    <3>1. IsAck(ack) /\ AboutPacket(ack)
      BY AcksAssumption DEF PacketOnly
    <3>. QED  BY <1>2, <1>5, <3>1, RequestWindow DEF IInv
  <2>2. CASE UNCHANGED transmission_q /\ frg \notin Asks
    BY <1>1, <2>2, TurnPending DEF Queued
  <2>3. CASE /\ transmission_q' = fq_put(transmission_q, SENDER_ABORT)
             /\ aborts' = generate_sender_abort(SENDER_ABORT)
    <3>1. SENDER_ABORT \in aborts' /\ SENDER_ABORT \in Asks
      BY <2>3 DEF generate_sender_abort, Asks
    <3>2. /\ Elements(transmission_q) \subseteq Elements(transmission_q')
          /\ frg \in Asks => SENDER_ABORT \in Elements(transmission_q')
      BY <1>1, <1>2, <2>3, <3>1, AsksFacts, PutElements
    <3>. QED  BY <1>1, <3>1, <3>2, TurnPending
  <2>4. CASE is_frg_all_1(frg) /\ transmission_q' = fq_put(transmission_q, frg)
    <3>1. /\ Elements(transmission_q) \subseteq Elements(transmission_q')
          /\ Elements(transmission_q') \subseteq Queued
          /\ frg \in Elements(transmission_q')
      BY <1>1, <1>2, <1>3, <2>4, PutElements DEF Queued
    <3>. QED  BY <1>1, <1>3, <2>4, <3>1, TurnPending
  <2>. QED  BY <1>2, <1>5, <2>1, <2>2, <2>3, <2>4 DEF update_queues, requeued
<1>. QED  BY <1>4, <1>5 DEF process_ack, Return

\* Every step leaves a request.
LEMMA PendingNext ==
    PacketOnly /\ IInv /\ ShapeInv /\ PendingInv /\ [Next]_vars => PendingInv'
<1> SUFFICES ASSUME PacketOnly, IInv, ShapeInv, PendingInv, [Next]_vars
             PROVE  PendingInv'
  OBVIOUS
<1>1. ~Busy => frg = NULL /\ frg \notin Asks
  BY AsksFacts DEF IInv, TypeOK
<1>2. CASE Start
  <2>1. frg' = NULL /\ ~Busy'
    BY <1>1, <1>2 DEF Start, Busy
  <2>. QED  BY <1>2, <2>1, StartShape, AsksFacts
            DEF Start, PendingInv, AbortMarked, AwaitsRequest, Pending, Queued, Asks
<1>3. CASE FetchTransmission
  <2>1. /\ transmission_q \in Seq(Pointers) /\ transmission_q # <<>>
        /\ transmission_q' = Tail(transmission_q) /\ frg' = Head(transmission_q)
        /\ pc = "loop" /\ pc' = "schc" /\ ~Busy /\ UNCHANGED aborts
    BY <1>3 DEF FetchTransmission, Fetch, IInv, TypeOK, Busy
  <2>2. Queued' = Elements(transmission_q) /\ frg = NULL
    BY <1>1, <2>1, TakeShape DEF Queued, ShapeInv
  <2>. QED  BY <2>1, <2>2, AsksFacts
            DEF PendingInv, AbortMarked, AwaitsRequest, Pending, Queued, Asks
<1>4. CASE FetchRetransmission
  <2>1. frg' \notin Asks /\ UNCHANGED <<transmission_q, aborts>>
    BY <1>4, HeadTailProperties
       DEF FetchRetransmission, Fetch, IInv, RetransmissionRegular, Regular, Asks
  <2>2. pc = "loop" /\ pc' = "schc" /\ ~Busy
    BY <1>4 DEF FetchRetransmission, Fetch, Busy
  <2>. QED  BY <1>1, <2>1, <2>2
            DEF PendingInv, AbortMarked, AwaitsRequest, Pending, Queued, Asks
<1>5. CASE FetchInvalid
  BY <1>5 DEF FetchInvalid, PendingInv, AbortMarked, AwaitsRequest, Pending,
              Queued, Busy
<1>6. CASE QueuesDrained
  BY <1>6, AsksFacts
     DEF QueuesDrained, Return, PendingInv, AbortMarked, AwaitsRequest, Pending,
         Queued, Busy, Asks
<1>7. CASE SendPlain
  <2>1. Busy /\ UNCHANGED <<transmission_q, aborts>> /\ frg' = NULL
        /\ pc' \in {"loop", "returned"}
    BY <1>7 DEF SendPlain, Return, Continue, Busy
  <2>2. ASSUME frg \in Asks PROVE pc' = "returned"
    <3>1. ~is_frg_all_1(frg)
      BY <1>7, <2>1, <2>2
         DEF SendPlain, enable_recv, frg_expects_ack, IInv, RoomForRequest, Asks
    <3>2. frg \in aborts /\ AbortIsShort
      BY <2>2, <3>1 DEF is_frg_all_1, PendingInv, AbortMarked, Queued, Asks
    <3>. QED  BY <1>7, <3>2 DEF SendPlain, is_frg_sender_abort, Return
  <2>. QED  BY <2>1, <2>2, TurnPending DEF Queued
<1>8. CASE SendRequest \/ SendRequestFails
  BY <1>8 DEF SendRequest, SendRequestFails, enable_recv, Busy, PendingInv,
              AbortMarked, AwaitsRequest, Pending, Queued, frg_expects_ack,
              is_frg_all_0, is_frg_all_1
<1>9. CASE SendPlainFails \/ LoseAnswer \/ Expire \/ ExpireUnsent
  BY <1>9, TimeoutPending DEF SendPlainFails, LoseAnswer, Expire, ExpireUnsent, Busy
<1>10. CASE LoseRequest
  <2>1. Busy /\ frg_expects_ack(frg) /\ (buffer # <<>> => Head(buffer) \in Acks)
    BY <1>10 DEF LoseRequest, enable_recv, Busy, IInv, TypeOK
  <2>. QED  BY <1>10, <2>1, TimeoutPending, AckPending DEF LoseRequest
<1>11. ASSUME NEW ack \in Acks, Answer(ack) \/ AnswerUnsent(ack)
       PROVE  PendingInv'
  <2>1. Busy /\ frg_expects_ack(frg)
    BY <1>11 DEF Answer, AnswerUnsent, Busy, PendingInv, AwaitsRequest
  <2>. QED  BY <1>11, <2>1, TimeoutPending, AckPending DEF Answer, AnswerUnsent
<1>12. CASE Terminated \/ UNCHANGED vars
  BY <1>12 DEF Terminated, vars, Busy, PendingInv, AbortMarked, AwaitsRequest,
               Pending, Queued, frg_expects_ack, is_frg_all_0, is_frg_all_1
<1>. QED  BY <1>2, <1>3, <1>4, <1>5, <1>6, <1>7, <1>8, <1>9, <1>10, <1>11,
             <1>12 DEF Next, Loop, Send, Receive

\* Against a peer that names windows of the packet, there is exactly one ACK-REQ
\* until the transmission ends or a Sender-Abort has replaced it, whatever is
\* timed out, refused or answered, and under every Rule.
THEOREM OneRequestPending ==
    ASSUME PacketOnly
    PROVE  Spec => []RequestPending
<1>1. Init => PendingInv
  BY AsksFacts DEF Init, PendingInv, AbortMarked, AwaitsRequest, Pending, Queued,
                   Busy, Elements, Asks
<1>2. IInv /\ ShapeInv /\ PendingInv /\ [Next]_vars => PendingInv'
  BY PendingNext
<1>3. IInv /\ ShapeInv /\ [Next]_vars => ShapeInv'
  BY ShapeNext
<1>4. IInv /\ ShapeInv /\ PendingInv => RequestPending
  <2> SUFFICES ASSUME IInv, ShapeInv, PendingInv, pc = "loop" \/ Busy
               PROVE  LET requests == {k \in DOMAIN transmission_q :
                                          transmission_q[k] = All1}
                          n == Cardinality(requests) + (IF frg = All1 THEN 1 ELSE 0)
                      IN  \/ n = 1
                          \/ n = 0 /\ SENDER_ABORT \in Elements(transmission_q)
                                                      \cup {frg}
    BY DEF RequestPending
  <2> DEFINE requests == {k \in DOMAIN transmission_q : transmission_q[k] = All1}
  <2>1. CASE requests # {}
    <3>1. PICK k \in DOMAIN transmission_q : transmission_q[k] = All1
      BY <2>1
    <3>2. requests = {k}
      BY <3>1 DEF ShapeInv, Shape
    <3>3. frg # All1
      BY <3>1, AsksFacts DEF ShapeInv, TakenRequest, IInv, TypeOK, Asks
    <3>. QED  BY <3>2, <3>3, FS_Singleton
  <2>2. CASE requests = {}
    <3>1. Cardinality(requests) = 0
      BY <2>2, FS_EmptySet
    <3>2. All1 \notin Elements(transmission_q)
      BY <2>2 DEF Elements
    <3>3. frg = All1 \/ SENDER_ABORT \in Elements(transmission_q) \cup {frg}
      BY <3>2 DEF PendingInv, Pending, Queued, Asks
    <3>. HIDE DEF requests
    <3>4. LET n == Cardinality(requests) + (IF frg = All1 THEN 1 ELSE 0)
          IN  n = IF frg = All1 THEN 1 ELSE 0
      BY <3>1
    <3>. QED  BY <3>3, <3>4 DEF requests
  <2>. QED  BY <2>1, <2>2
<1>. QED  BY <1>1, <1>2, <1>3, <1>4, ShapeInit, SenderInvariant, PTL DEF Spec
=============================================================================
