------------------------- MODULE AckExchange_proofs -------------------------
(***************************************************************************)
(* What a receiver writes in a Compound ACK is what the sender reads, for   *)
(* every Rule, every window and any bitmaps: the kinds of ACK are told      *)
(* apart, the tuples are read back as far as the parser goes, and the Rule  *)
(* ID gives back the Rule.  What the bits of each message are is proved of  *)
(* the operators of CompoundACK; here the state only has to remember which  *)
(* of them wrote the message.                                               *)
(***************************************************************************)
EXTENDS AckExchange, Messages_proofs

Losing(p)    == p \in {"losses", "losses read"}
Completed(p) == p \in {"complete", "complete read"}
Aborting(p)  == p \in {"aborted", "aborted read"}

ReadAs(r, a) ==
    IF is_ack_receiver_abort(r, a) \/ is_ack_complete(r, a) THEN <<>>
    ELSE get_ack_tuples(r, a, get_ack_nb_tuples(r, a))

\* Who wrote the message, and how it was read.
Written ==
    /\ rule \in Rules
    /\ Reportable(rule, wdw, bitmaps)
    /\ pc \in {"new", "refused"} \/ Losing(pc) \/ Completed(pc) \/ Aborting(pc)
    /\ Losing(pc) => ack = generate_ack(rule, wdw, 0, bitmaps)
    /\ Completed(pc) => ack = generate_ack(rule, wdw, 1, bitmaps)
    /\ Aborting(pc) => ack = generate_receiver_abort(rule)
    /\ pc = "losses read" => tuples = ReadAs(rule, ack)

LEMMA InitWritten == Init => Written
<1> SUFFICES ASSUME Init PROVE Written
  OBVIOUS
<1>1. rule \in Rules
  BY HeadersAreRuleIds DEF Init
<1>2. /\ wdw \in 0..rule.max_window_nb - 1
      /\ \A i \in 0..wdw : bitmaps[i] = <<>> \/ bitmaps[i] \in [1..rule.window_size -> Bits]
  BY <1>1, BitmapsFillWindows DEF Init
<1>3. \A b \in [1..rule.window_size -> Bits] : BitString(b, rule.window_size)
  <2>1. PICK n \in Nat : n = rule.window_size
    BY <1>1, Layouts
  <2>2. \A b \in [1..n -> Bits] : b \in Seq(Bits) /\ Len(b) = n
    OBVIOUS
  <2> QED  BY <2>1, <2>2 DEF BitString
<1>4. Reportable(rule, wdw, bitmaps)
  BY <1>2, <1>3 DEF Reportable
<1> QED  BY <1>1, <1>4 DEF Init, Written, Losing, Completed, Aborting

LEMMA NextWritten == Written /\ [Next]_vars => Written'
<1> SUFFICES ASSUME Written, [Next]_vars PROVE Written'
  OBVIOUS
<1> USE DEF Written, Losing, Completed, Aborting
<1>1. ASSUME NEW c \in Bits, Refuse(c) PROVE Written'
  BY <1>1 DEF Refuse
<1>2. ASSUME NEW c \in Bits, GenerateAck(c) PROVE Written'
  BY <1>2 DEF GenerateAck, Bits
<1>3. CASE GenerateReceiverAbort
  BY <1>3 DEF GenerateReceiverAbort
<1>4. CASE Parse
  <2>1. /\ pc \in {"complete", "losses", "aborted"} /\ tuples' = ReadAs(rule, ack)
        /\ UNCHANGED <<rule, bitmaps, wdw, ack>>
    BY <1>4 DEF Parse, ReadAs
  <2>2. \/ pc = "complete" /\ pc' = "complete read"
        \/ pc = "losses" /\ pc' = "losses read"
        \/ pc = "aborted" /\ pc' = "aborted read"
    BY <1>4 DEF Parse
  <2> QED  BY <2>1, <2>2
<1>5. CASE Done \/ UNCHANGED vars
  BY <1>5 DEF Done, vars
<1> QED  BY <1>1, <1>2, <1>3, <1>4, <1>5 DEF Next

LEMMA AckInvariant == Spec => []Written
BY InitWritten, NextWritten, PTL DEF Spec

\* What is known of the rule and the windows.
LEMMA Known ==
    ASSUME Written
    PROVE  rule \in Rules /\ Reportable(rule, wdw, bitmaps) /\ wdw \in Int
<1>1. rule \in Rules /\ Reportable(rule, wdw, bitmaps)
  BY DEF Written
<1>2. PICK n \in Int : n = rule.max_window_nb
  BY <1>1, Layouts
<1> QED  BY <1>1, <1>2 DEF Reportable

\* The sender takes a Receiver-Abort, a complete ACK and a report of losses for
\* what they are, for every Rule and any bitmaps.
THEOREM KindsAreToldApart == Spec => []KindReadBack
<1>1. Written => KindReadBack
  <2> SUFFICES ASSUME Written PROVE KindReadBack
    OBVIOUS
  <2>1. CASE pc = "aborted"
    <3>1. is_ack_receiver_abort(rule, ack)
      BY <2>1, AbortRead DEF Written, Aborting
    <3>2. ~is_ack_complete(rule, ack) /\ ~is_ack_compound(rule, ack)
      BY <3>1 DEF is_ack_complete, is_ack_compound
    <3> QED  BY <2>1, <3>1, <3>2 DEF KindReadBack, Kinds
  <2>2. CASE pc = "complete"
    <3>1. wdw \in Int
      BY Known
    <3>2. Carries(ack, Header(rule, wdw, 1), rule.ack_header_len)
      BY <2>2, <3>1, CompleteSent DEF Written, Completed
    <3>3. /\ is_ack_complete(rule, ack) /\ ~is_ack_receiver_abort(rule, ack)
          /\ ~is_ack_compound(rule, ack)
      BY <3>1, <3>2, CompleteRead DEF Written
    <3> QED  BY <2>2, <3>3 DEF KindReadBack, Kinds
  <2>3. CASE pc = "losses"
    <3>1. get_ack_c(rule, ack) = << 0 >>
      BY <2>3, ReportHeader DEF Written, Losing
    <3>2. ~is_ack_receiver_abort(rule, ack) /\ ~is_ack_complete(rule, ack)
      BY <3>1, LossesRead DEF Written
    <3> QED  BY <2>3, <3>2 DEF KindReadBack, Kinds
  <2> QED  BY <2>1, <2>2, <2>3 DEF KindReadBack
<1> QED  BY <1>1, AckInvariant, PTL

\* read is the first of the lost windows and their bitmaps.
ReadLosses(read, r, lost, bms) ==
    /\ Len(read) = ReadFrom(r, lost) /\ Len(read) <= Len(lost)
    /\ \A k \in 1..Len(read) :
           read[k] = [window |-> lost[k], bitmap |-> bms[lost[k]]]

LEMMA LossesReadAs ==
    ASSUME NEW r \in Rules, NEW w, NEW bms, Reportable(r, w, bms),
           NEW a, a = generate_ack(r, w, 0, bms),
           NEW lost, lost = lost_windows(w, bms), lost # <<>>,
           NEW read, read = ReadAs(r, a)
    PROVE  ReadLosses(read, r, lost, bms)
<1>1. PICK n : n = get_ack_nb_tuples(r, a)
  OBVIOUS
<1>2. /\ n = ReadFrom(r, lost) /\ n \in 1..4 /\ n <= Len(lost)
      /\ get_ack_tuples(r, a, n)
             = [k \in 1..n |-> [window |-> lost[k], bitmap |-> bms[lost[k]]]]
  BY <1>1, ReportRead
<1>3. ~is_ack_receiver_abort(r, a) /\ ~is_ack_complete(r, a)
  BY ReportHeader, LossesRead
<1>4. read = [k \in 1..n |-> [window |-> lost[k], bitmap |-> bms[lost[k]]]]
  BY <1>1, <1>2, <1>3 DEF ReadAs
<1>5. n \in Nat /\ Len(read) = n
  BY <1>2, <1>4
<1>6. \A k \in 1..n : read[k] = [window |-> lost[k], bitmap |-> bms[lost[k]]]
  BY <1>4
<1> QED  BY <1>2, <1>5, <1>6 DEF ReadLosses

LEMMA TuplesRead ==
    ASSUME Written, pc = "losses read", Lost # <<>>
    PROVE  ReadLosses(tuples, rule, Lost, bitmaps)
<1>1. /\ rule \in Rules /\ Reportable(rule, wdw, bitmaps)
      /\ ack = generate_ack(rule, wdw, 0, bitmaps) /\ tuples = ReadAs(rule, ack)
  BY DEF Written, Losing
<1>2. PICK r, w, bms, a, lost, read :
          /\ r = rule /\ w = wdw /\ bms = bitmaps /\ a = ack /\ lost = Lost
          /\ read = tuples
  BY <1>1
<1>3. /\ r \in Rules /\ Reportable(r, w, bms) /\ a = generate_ack(r, w, 0, bms)
      /\ lost = lost_windows(w, bms) /\ lost # <<>> /\ read = ReadAs(r, a)
  BY <1>1, <1>2 DEF Lost
<1>4. ReadLosses(read, r, lost, bms)
  BY <1>3, LossesReadAs
<1> QED  BY <1>2, <1>4

\* No bit of a tuple gets into another and no padding is read as one: each tuple
\* read is a window that lost something and its bitmap, the first ones first.
THEOREM TuplesAreReadBack == Spec => []TuplesReadBack
<1>1. Written => TuplesReadBack
  <2> SUFFICES ASSUME Written, pc = "losses read", Lost # <<>>
               PROVE  /\ Len(tuples) <= Len(Lost)
                      /\ \A k \in 1..Len(tuples) :
                             tuples[k] = [window |-> Lost[k], bitmap |-> bitmaps[Lost[k]]]
    BY DEF TuplesReadBack
  <2> QED  BY TuplesRead DEF ReadLosses
<1> QED  BY <1>1, AckInvariant, PTL

\* What is read is what was written, one case apart.
LEMMA ReadIsWritten ==
    ASSUME NEW r \in Rules, NEW n \in Nat, n <= r.max_window_nb,
           NEW lost, Len(lost) = n, ~(r.rule_id_size = 6 /\ n = 4)
    PROVE  ReadFrom(r, lost) = NbReported(r, lost)
<1>1. \/ n <= 4 /\ ReadLimit(r) = 4 /\ tuple_capacity(r) = 6
      \/ n <= 3 /\ ReadLimit(r) = 3 /\ tuple_capacity(r) = 4
      \/ ReadLimit(r) = 1 /\ tuple_capacity(r) = 1
  BY Layouts, Capacity DEF ReadLimit
<1> QED  BY <1>1 DEF ReadFrom, NbReported

\* The sender reads every tuple the receiver wrote, for every Rule, every window
\* and any bitmaps, but for the fourth tuple of the double-byte Rule without
\* options.
THEOREM TuplesAreRead == Spec => []TuplesReadExceptFourth
<1>1. Written => TuplesReadExceptFourth
  <2> SUFFICES ASSUME Written, pc = "losses read", Lost # <<>>,
                      ~(rule.rule_id_size = 6 /\ Len(Lost) = 4)
               PROVE  Len(tuples) = NbWritten
    BY DEF TuplesReadExceptFourth, EveryTupleRead
  <2>1. Len(tuples) = ReadFrom(rule, Lost) /\ NbWritten = NbReported(rule, Lost)
    BY TuplesRead DEF ReadLosses, NbWritten, NbReported
  <2>2. PICK r, w, bms, lost :
            r = rule /\ w = wdw /\ bms = bitmaps /\ lost = Lost
    OBVIOUS
  <2>3. r \in Rules /\ Reportable(r, w, bms) /\ lost = lost_windows(w, bms)
    BY <2>2 DEF Lost, Written
  <2>4. /\ lost \in Seq(0..r.max_window_nb - 1) /\ Len(lost) \in Nat
        /\ Len(lost) <= r.max_window_nb
    BY <2>3, LostWindows, LenProperties
  <2>5. ~(r.rule_id_size = 6 /\ Len(lost) = 4)
    BY <2>2
  <2>6. ReadFrom(r, lost) = NbReported(r, lost)
    BY <2>3, <2>4, <2>5, ReadIsWritten
  <2> QED  BY <2>1, <2>2, <2>6
<1> QED  BY <1>1, AckInvariant, PTL

\* The Rule ID of any ACK gives back the Rule, except in the format that reads
\* its id at the end of the message.
THEOREM AckGivesRule == Spec => []RuleFromAck
<1>1. Written => RuleFromAck
  <2> SUFFICES ASSUME Written, pc # "new", pc # "refused", rule.rule_id_size < 8
               PROVE  init_rule_from_ack(ack) = rule
    BY DEF RuleFromAck
  <2>1. rule \in Rules /\ Reportable(rule, wdw, bitmaps)
    BY DEF Written
  <2>2. /\ BitString(ack.message, 64)
        /\ \A k \in 1..rule.rule_id_size : ack.message[k] = get_rule_id_bin(rule)[k]
    <3>1. CASE Losing(pc)
      <4>1. ack = generate_ack(rule, wdw, 0, bitmaps)
        BY <3>1 DEF Written
      <4> QED  BY <2>1, <4>1, ReportHeader
    <3>2. CASE Completed(pc)
      <4>1. wdw \in Int /\ 1 \in Bits
        BY Known DEF Bits
      <4>2. Carries(ack, Header(rule, wdw, 1), rule.ack_header_len)
        BY <2>1, <3>2, <4>1, CompleteSent DEF Written
      <4>3. BitString(ack.message, 64)
            /\ \A k \in 1..rule.ack_header_len : ack.message[k] = Header(rule, wdw, 1)[k]
        BY <4>2 DEF Carries
      <4> QED  BY <2>1, <4>1, <4>3, HeaderRead
    <3>3. CASE Aborting(pc)
      BY <2>1, <3>3, AbortRead DEF Written
    <3> QED  BY <3>1, <3>2, <3>3 DEF Written
  <2>3. init_rule(ack.message) = rule
    <3>1. 64 \in Nat /\ 64 >= 8
      OBVIOUS
    <3> QED  BY <2>1, <2>2, <3>1, RuleReadBack
  <2> QED  BY <2>3 DEF init_rule_from_ack
<1> QED  BY <1>1, AckInvariant, PTL
=============================================================================
