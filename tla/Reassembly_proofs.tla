-------------------------- MODULE Reassembly_proofs --------------------------
(***************************************************************************)
(* A packet that is fragmented is recognised and restored, whatever is      *)
(* missing, for every Rule and every size of packet.                        *)
(***************************************************************************)
EXTENDS Reassembly, Messages_proofs

-----------------------------------------------------------------------------
(* The inductive invariant: fragments is what fragment() makes of the       *)
(* packet, and each slot of the receiver holds nothing or its Fragment.     *)

TypeInv ==
    /\ rule \in Rules /\ byte_size \in Nat
    /\ pc \in {"new", "refused", "fragmented", "reassembled"}

FragmentsInv ==
    /\ pc \in {"new", "refused"} => fragments = <<>>
    /\ pc \in {"fragmented", "reassembled"} =>
           /\ Accepted(rule, byte_size)
           /\ fragments = fragment(rule, Packet, byte_size)

ReceivedInv ==
    /\ DOMAIN received = 0..rule.max_fragment_nb
    /\ \A k \in DOMAIN received :
           \/ is_frg_null(received[k])
           \/ /\ pc \in {"fragmented", "reassembled"}
              /\ k \in 0..LastNb /\ received[k] = fragments[k]

ResultInv ==
    pc = "reassembled" =>
        /\ \E leftover \in Leftovers :
               length = get_packet_length_from_array(rule, received, leftover)
        /\ packet = reassemble(rule, received)

IInv == TypeInv /\ FragmentsInv /\ ReceivedInv /\ ResultInv

LEMMA InitIInv == Init => IInv
<1> SUFFICES ASSUME Init PROVE IInv
  OBVIOUS
<1>1. TypeInv
  BY ReassemblyAssumption DEF Init, TypeInv
<1>2. FragmentsInv /\ ResultInv
  BY DEF Init, FragmentsInv, ResultInv
<1>3. ReceivedInv
  BY DEF Init, ReceivedInv, is_frg_null
<1> QED  BY <1>1, <1>2, <1>3 DEF IInv

LEMMA NextIInv == IInv /\ [Next]_vars => IInv'
<1> SUFFICES ASSUME IInv, [Next]_vars PROVE IInv'
  OBVIOUS
<1> USE DEF IInv
<1>1. CASE Refuse
  BY <1>1 DEF Refuse, TypeInv, FragmentsInv, ReceivedInv, ResultInv, LastNb
<1>2. CASE Fragmentation
  <2>1. TypeInv' /\ ResultInv'
    BY <1>2 DEF Fragmentation, TypeInv, ResultInv
  <2>2. FragmentsInv'
    BY <1>2, NotRefused DEF Fragmentation, FragmentsInv, TypeInv
  <2>3. ReceivedInv'
    BY <1>2 DEF Fragmentation, ReceivedInv, LastNb
  <2> QED  BY <2>1, <2>2, <2>3
<1>3. ASSUME NEW i \in DOMAIN fragments, Store(i) PROVE IInv'
  <2>1. /\ Accepted(rule, byte_size)
        /\ fragments = fragment(rule, Packet, byte_size)
        /\ rule \in Rules /\ byte_size \in Nat
    BY <1>3 DEF Store, FragmentsInv, TypeInv
  <2>2. i \in 0..LastOf(rule, byte_size)
    BY <2>1 DEF fragment, LastOf
  <2>3. get_frg_nb(rule, fragments[i]) = i
    BY <2>1, <2>2, GeneratedFields, Recognised
  <2>4. TypeInv' /\ FragmentsInv' /\ ResultInv'
    BY <1>3 DEF Store, TypeInv, FragmentsInv, ResultInv
  <2>5. ReceivedInv'
    BY <1>3, <2>2, <2>3 DEF Store, ReceivedInv, LastNb, LastOf
  <2> QED  BY <2>4, <2>5
<1>4. CASE Reassemble
  BY <1>4 DEF Reassemble, TypeInv, FragmentsInv, ReceivedInv, ResultInv, LastNb
<1>5. CASE Terminated \/ UNCHANGED vars
  BY <1>5 DEF Terminated, vars, TypeInv, FragmentsInv, ReceivedInv, ResultInv, LastNb
<1> QED  BY <1>1, <1>2, <1>3, <1>4, <1>5 DEF Next

LEMMA Invariance == Spec => []IInv
  BY InitIInv, NextIInv, PTL DEF Spec

\* No generate_frg whose result fragment() ignores fails, and no packet of a
\* size the Rule admits has more Fragments than the Rule has places.
THEOREM EveryFragmentFits == Spec => []FragmentsFit
<1>1. IInv => FragmentsFit
  <2> SUFFICES ASSUME IInv, pc # "new", pc # "refused" PROVE
          /\ DOMAIN fragments = 0..LastNb /\ LastNb < rule.max_fragment_nb
          /\ \A i \in 0..LastNb : fragments[i].byte_size \in 1..UPLINK_MTU_BYTES
    BY DEF FragmentsFit
  <2>1. /\ Accepted(rule, byte_size) /\ rule \in Rules /\ byte_size \in Nat
        /\ fragments = fragment(rule, Packet, byte_size)
    BY DEF IInv, TypeInv, FragmentsInv
  <2>2. DOMAIN fragments = 0..LastNb
    BY <2>1 DEF fragment, LastNb
  <2>3. LastNb < rule.max_fragment_nb
    <3>1. get_nb_fragments(rule, byte_size) \in 1..rule.max_fragment_nb
      BY <2>1, FragmentCount
    <3>2. rule.max_fragment_nb \in Nat
      BY <2>1, Formats, Powers DEF Single, Op1, Op2, Sized
    <3> QED  BY <3>1, <3>2 DEF LastNb
  <2>4. \A i \in 0..LastNb : fragments[i].byte_size \in 1..UPLINK_MTU_BYTES
    BY <2>1, GeneratedFields DEF LastNb, LastOf, Fields
  <2> QED  BY <2>2, <2>3, <2>4
<1> QED  BY Invariance, <1>1, PTL

\* The header fields, cut to the widths of the Rule, give a Fragment's position
\* and kind back.
THEOREM EveryFragmentRecognised == Spec => []FragmentsRecognised
<1>1. IInv => FragmentsRecognised
  <2> SUFFICES ASSUME IInv, NEW i \in DOMAIN fragments PROVE
          /\ get_frg_nb(rule, fragments[i]) = i
          /\ is_frg_all_1(rule, fragments[i]) <=> i = LastNb
          /\ is_frg_all_0(fragments[i]) <=>
                 i # LastNb /\ (i + 1) % rule.window_size = 0
          /\ ~is_frg_sender_abort(rule, fragments[i])
    BY DEF FragmentsRecognised
  <2>1. /\ Accepted(rule, byte_size) /\ rule \in Rules /\ byte_size \in Nat
        /\ fragments = fragment(rule, Packet, byte_size)
    BY DEF IInv, TypeInv, FragmentsInv
  <2>2. i \in 0..LastOf(rule, byte_size)
    BY <2>1 DEF fragment, LastOf
  <2> QED  BY <2>1, <2>2, GeneratedFields, Recognised DEF LastNb, LastOf
<1> QED  BY Invariance, <1>1, PTL

-----------------------------------------------------------------------------
(* Reassembly.                                                              *)

\* The facts of the invariant about a reassembled array.
Reassembled ==
    /\ rule \in Rules /\ byte_size \in Nat /\ Accepted(rule, byte_size)
    /\ LastNb \in Nat /\ LastNb < rule.max_fragment_nb /\ rule.max_fragment_nb \in Nat
    /\ fragments = fragment(rule, Packet, byte_size)
    /\ DOMAIN received = 0..rule.max_fragment_nb
    /\ \A k \in DOMAIN received :
           is_frg_null(received[k]) \/ (k \in 0..LastNb /\ received[k] = fragments[k])
    /\ \A k \in 0..LastNb : ~is_frg_null(fragments[k])
    /\ \A k \in 0..LastNb : is_frg_all_1(rule, fragments[k]) <=> k = LastNb
    /\ \E leftover \in Leftovers :
           length = get_packet_length_from_array(rule, received, leftover)
    /\ packet = reassemble(rule, received)

LEMMA ReassembledFacts == IInv /\ pc = "reassembled" => Reassembled
<1> SUFFICES ASSUME IInv, pc = "reassembled" PROVE Reassembled
  OBVIOUS
<1>1. /\ Accepted(rule, byte_size) /\ rule \in Rules /\ byte_size \in Nat
      /\ fragments = fragment(rule, Packet, byte_size)
  BY DEF IInv, TypeInv, FragmentsInv
<1>2. get_nb_fragments(rule, byte_size) \in 1..rule.max_fragment_nb
  BY <1>1, FragmentCount
<1>3. rule.max_fragment_nb \in Nat
  BY <1>1, Formats, Powers DEF Single, Op1, Op2, Sized
<1>4. LastNb \in Nat /\ LastNb < rule.max_fragment_nb
  BY <1>2, <1>3 DEF LastNb
<1>5. ASSUME NEW k \in 0..LastNb
      PROVE  /\ ~is_frg_null(fragments[k])
             /\ is_frg_all_1(rule, fragments[k]) <=> k = LastNb
  <2>1. k \in 0..LastOf(rule, byte_size)
    BY DEF LastNb, LastOf
  <2>2. Fields(rule, byte_size, k, fragments[k])
    BY <1>1, <2>1, GeneratedFields
  <2>3. ~is_frg_null(fragments[k])
    BY <2>2 DEF Fields, is_frg_null, NULL_FRG, UPLINK_MTU_BYTES
  <2> QED  BY <1>1, <2>1, <2>2, <2>3, Recognised DEF LastNb, LastOf
<1> QED
  BY <1>1, <1>3, <1>4, <1>5 DEF Reassembled, IInv, ReceivedInv, ResultInv

\* A null Fragment ends the array, after the All-1 at the latest.
LEMMA BeforeNull ==
    ASSUME Reassembled
    PROVE  /\ before_null(received) \subseteq 0..LastNb
           /\ ~no_null_found(rule, received)
           /\ before_null(received) \ {rule.max_fragment_nb} = before_null(received)
           /\ \A k \in before_null(received) : received[k] = fragments[k]
           /\ (\A k \in 0..LastNb : ~is_frg_null(received[k])) =>
                  before_null(received) = 0..LastNb
           /\ LastNb \in before_null(received) =>
                  \A k \in 0..LastNb : ~is_frg_null(received[k])
<1>1. \A k \in before_null(received) :
         k \in DOMAIN received /\ ~is_frg_null(received[k])
  BY DEF before_null, Reassembled
<1>2. before_null(received) \subseteq 0..LastNb
  BY <1>1 DEF Reassembled
<1>3. rule.max_fragment_nb \notin before_null(received)
  BY <1>2 DEF Reassembled
<1>4. \A k \in before_null(received) : received[k] = fragments[k]
  BY <1>1 DEF Reassembled
<1>5. (\A k \in 0..LastNb : ~is_frg_null(received[k])) =>
          before_null(received) = 0..LastNb
  <2> SUFFICES ASSUME \A k \in 0..LastNb : ~is_frg_null(received[k]),
                      NEW k \in 0..LastNb
               PROVE  k \in before_null(received)
    BY <1>2
  <2> QED  BY DEF before_null, Reassembled
<1>6. LastNb \in before_null(received) => \A k \in 0..LastNb : ~is_frg_null(received[k])
  BY DEF before_null
<1> QED  BY <1>2, <1>3, <1>4, <1>5, <1>6 DEF no_null_found

\* What reassemble() writes is the packet, up to the first Fragment that is
\* missing, each payload where it was taken from.
THEOREM PacketIsRestored == Spec => []PacketRestored
<1>1. IInv => PacketRestored
  <2> SUFFICES ASSUME IInv, pc = "reassembled" PROVE PacketRestored
    BY DEF PacketRestored
  <2> DEFINE pb == regular_payload_byte_size(rule)
             before == before_null(received)
  <2>1. Reassembled
    BY ReassembledFacts
  <2>2. packet = [i \in before |-> [to |-> i * pb,
                                    payload |-> get_frg_payload(rule, received[i])]]
    BY <2>1, BeforeNull DEF Reassembled, reassemble
  <2>3. ASSUME NEW i \in before
        PROVE  /\ packet[i].to = i * pb
               /\ packet[i].payload.from = i * pb
               /\ packet[i].payload.size = payload_size(rule, byte_size, i)
    <3>1. i \in 0..LastNb /\ received[i] = fragments[i]
      BY <2>1, BeforeNull
    <3>2. get_frg_payload(rule, received[i])
              = [packet |-> Packet, from |-> i * pb,
                 size |-> payload_size(rule, byte_size, i)]
      BY <2>1, <3>1, PayloadFound DEF Reassembled, LastNb, LastOf
    <3> QED  BY <2>2, <3>2
  <2>4. /\ \A i \in 0..LastNb : i # LastNb => payload_size(rule, byte_size, i) = pb
        /\ pb * LastNb + payload_size(rule, byte_size, LastNb) = byte_size
        /\ \A i \in 0..LastNb : i * pb + payload_size(rule, byte_size, i) <= byte_size
    BY <2>1, PayloadsCover DEF Reassembled, LastNb, LastOf
  <2>5. before \subseteq 0..LastNb
    BY <2>1, BeforeNull
  <2>6. ASSUME NEW i \in DOMAIN packet
        PROVE  /\ packet[i].payload.from = packet[i].to
               /\ packet[i].to + packet[i].payload.size <= byte_size
               /\ i # LastNb => packet[i].payload.size = pb
    <3>1. i \in before
      BY <2>2
    <3> QED  BY <2>3, <2>4, <2>5, <3>1
  <2>7. ASSUME \A i \in 0..LastNb : ~is_frg_null(received[i])
        PROVE  /\ DOMAIN packet = 0..LastNb
               /\ packet[LastNb].to + packet[LastNb].payload.size = byte_size
    <3>1. before = 0..LastNb
      BY <2>1, <2>7, BeforeNull
    <3>2. LastNb \in before
      BY <2>1, <3>1 DEF Reassembled
    <3>3. /\ packet[LastNb].to = LastNb * pb
          /\ packet[LastNb].payload.size = payload_size(rule, byte_size, LastNb)
      BY <2>3, <3>2
    <3>4. LastNb * pb = pb * LastNb
      BY <2>1, PayloadBytes DEF Reassembled
    <3> QED  BY <2>2, <2>4, <3>1, <3>3, <3>4
  <2> QED  BY <2>6, <2>7 DEF PacketRestored
<1> QED  BY Invariance, <1>1, PTL

\* The length of a packet that is there as a whole is its size.  PacketIsRestored
\* says where the writes of reassemble() end.
THEOREM LengthIsExact == Spec => []LengthIsPacketSize
<1>1. IInv /\ PacketRestored => LengthIsPacketSize
  <2> SUFFICES ASSUME IInv, PacketRestored, pc = "reassembled",
                      \A i \in 0..LastNb : ~is_frg_null(received[i])
               PROVE  length = byte_size
    BY DEF LengthIsPacketSize, PacketRestored
  <2> DEFINE pb == regular_payload_byte_size(rule)
  <2>1. Reassembled
    BY ReassembledFacts
  <2>2. LastNb \in before_null(received) /\ received[LastNb] = fragments[LastNb]
    BY <2>1, BeforeNull DEF Reassembled
  <2>3. all_1s(rule, received) = {LastNb}
    BY <2>1, <2>2, BeforeNull DEF all_1s, Reassembled
  <2>4. get_frg_payload_byte_size(rule, received[LastNb])
            = payload_size(rule, byte_size, LastNb)
    <3>1. LastNb \in 0..LastOf(rule, byte_size) /\ LastOf(rule, byte_size) = LastNb
      BY <2>1 DEF Reassembled, LastNb, LastOf
    <3>2. get_frg_payload(rule, fragment(rule, Packet, byte_size)[LastNb])
              = [packet |-> Packet, from |-> LastNb * pb,
                 size |-> payload_size(rule, byte_size, LastNb)]
      BY <2>1, <3>1, PayloadFound DEF Reassembled
    <3>3. received[LastNb] = fragment(rule, Packet, byte_size)[LastNb]
      BY <2>1, <2>2 DEF Reassembled
    <3> QED  BY <3>2, <3>3 DEF get_frg_payload
  <2>5. pb * LastNb + get_frg_payload_byte_size(rule, received[LastNb]) = byte_size
    BY <2>1, <2>4, PayloadsCover DEF Reassembled, LastNb, LastOf
  <2>6. first_all_1(rule, received) = LastNb
    BY <2>1, <2>3 DEF Reassembled, first_all_1
  <2>7. PICK leftover \in Leftovers :
            length = get_packet_length_from_array(rule, received, leftover)
    BY <2>1 DEF Reassembled
  <2> QED  BY <2>3, <2>5, <2>6, <2>7 DEF get_packet_length_from_array
<1> QED  BY Invariance, PacketIsRestored, <1>1, PTL

\* Every Fragment carries the bits of the Rule ID and fields that are integers.
LEMMA CarriesRuleId ==
    ASSUME NEW r \in Rules, NEW size \in Nat, Accepted(r, size), NEW p,
           NEW i \in 0..LastOf(r, size)
    PROVE  LET f == fragment(r, p, size)[i] IN
           /\ f.rule_id = get_rule_id_bin(r)
           /\ f.w \in Int /\ f.fcn \in Int /\ f.byte_size \in Nat
<1> DEFINE f    == fragment(r, p, size)[i]
           last == i = get_nb_fragments(r, size) - 1
           from == i * regular_payload_byte_size(r)
<1>1. f = generate_frg(r, p, from, payload_size(r, size, i), i, last)
  BY DEF fragment, LastOf
<1>2. Fields(r, size, i, f)
  BY GeneratedFields
<1>3. f.byte_size \in 1..UPLINK_MTU_BYTES
  BY <1>2 DEF Fields
<1>4. f.rule_id = get_rule_id_bin(r)
  BY <1>1, <1>3 DEF generate_frg, BLANK_FRG, NULL_FRG
<1>5. f.w \in Int /\ f.fcn \in Int
  <2>1. get_nb_fragments(r, size) \in Int
    <3>1. r.max_fragment_nb \in Int
      BY Formats, Powers DEF Single, Op1, Op2, Sized
    <3> QED  BY <3>1, FragmentCount
  <2>2. i \in Int
    BY <2>1 DEF LastOf
  <2>3. /\ i \div r.window_size \in Int
        /\ r.window_size - (i % r.window_size) - 1 \in Int
    BY <2>2, Layouts
  <2>4. 2^r.n - 1 \in Int
    BY Layouts
  <2> QED  BY <1>2, <2>3, <2>4 DEF Fields
<1> QED  BY <1>3, <1>4, <1>5 DEF UPLINK_MTU_BYTES

\* The receiver takes the sender's Rule from any Fragment: from its first byte
\* for all seventeen Rule IDs, from the message for those that are in that byte.
THEOREM RuleIsRecognised == Spec => []RuleRecognised
<1>1. IInv => RuleRecognised
  <2> SUFFICES ASSUME IInv, NEW i \in DOMAIN fragments PROVE
          /\ parse_rule_from_bytes(first_byte(rule, fragments[i])) = rule
          /\ rule.rule_id_size < 8 =>
                 \A low \in {<<0, 0>>, <<0, 1>>, <<1, 0>>, <<1, 1>>} :
                     init_rule_from_frg(rule, fragments[i], low) = rule
    BY DEF RuleRecognised
  <2>1. /\ Accepted(rule, byte_size) /\ rule \in Rules /\ byte_size \in Nat
        /\ fragments = fragment(rule, Packet, byte_size)
    BY DEF IInv, TypeInv, FragmentsInv
  <2>2. i \in 0..LastOf(rule, byte_size)
    BY <2>1 DEF fragment, LastOf
  <2> DEFINE f == fragments[i]
  <2>3. /\ f.rule_id = get_rule_id_bin(rule)
        /\ f.w \in Int /\ f.fcn \in Int /\ f.byte_size \in Nat
    BY <2>1, <2>2, CarriesRuleId
  <2> HIDE DEF f
  <2>4. parse_rule_from_bytes(first_byte(rule, f)) = rule
    BY <2>1, <2>3, FirstByte, RuleReadBack DEF parse_rule_from_bytes
  <2>5. \A low \in {<<0, 0>>, <<0, 1>>, <<1, 0>>, <<1, 1>>} : BitString(low, 2)
    <3>1. \A x, y \in Bits : <<x, y>> \in Seq(Bits) /\ Len(<<x, y>>) = 2
      OBVIOUS
    <3>2. 0 \in Bits /\ 1 \in Bits
      BY DEF Bits
    <3> QED  BY <3>1, <3>2 DEF BitString
  <2>6. rule.rule_id_size < 8 =>
            \A low \in {<<0, 0>>, <<0, 1>>, <<1, 0>>, <<1, 1>>} :
                init_rule_from_frg(rule, f, low) = rule
    BY <2>1, <2>3, <2>5, MessageGivesRule
  <2> QED  BY <2>4, <2>6 DEF f
<1> QED  BY Invariance, <1>1, PTL
=============================================================================
