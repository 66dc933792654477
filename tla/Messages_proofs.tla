-------------------------- MODULE Messages_proofs --------------------------
(***************************************************************************)
(* Facts about the operators of Rule, Fragment, FRProcedure and CompoundACK, *)
(* for every Rule and every size of packet the Rule admits: the Fragments    *)
(* fit, what their headers say is what fragment() meant, and bits that were  *)
(* written are read back.  The bits of the header are cut to the widths the  *)
(* Rule gives them, so that each fact is a bound on a field; the three       *)
(* formats give the numbers.                                                 *)
(***************************************************************************)
EXTENDS FRProcedure, CompoundACK, FiniteSetTheorems, SequenceTheorems,
        FunctionTheorems, TLAPS

\* The sizes of the three formats, all that the arithmetic needs of a Rule.
Sized(r, m, n, u, window_size, header, all_1, payload, max_size) ==
    /\ r.m = m /\ r.n = n /\ r.u = u /\ r.window_size = window_size
    /\ r.max_fragment_nb = 2^m * window_size
    /\ r.header_len = header /\ r.all1_header_len = all_1
    /\ r.regular_payload_len = payload
    /\ r.max_schc_packet_byte_size = max_size

Single(r) == Sized(r, 2, 3, 3, 7, 8, 16, 88, 300)
Op1(r)    == Sized(r, 2, 4, 4, 12, 16, 16, 80, 480)
Op2(r)    == Sized(r, 3, 5, 5, 31, 16, 24, 80, 2400)

LEMMA Powers == 2^2 = 4 /\ 2^3 = 8 /\ 2^4 = 16 /\ 2^5 = 32
  OBVIOUS

\* Every Rule has one of the three formats.
LEMMA Formats == \A r \in Rules : Single(r) \/ Op1(r) \/ Op2(r)
<1> SUFFICES ASSUME NEW r \in Rules PROVE Single(r) \/ Op1(r) \/ Op2(r)
  OBVIOUS
<1>1. CASE \E id \in 0..6 : r = SingleByteRule(id)
  <2>1. PICK id \in 0..6 : r = SingleByteRule(id)
    BY <1>1
  <2>2. Single(r)
    BY <2>1 DEF SingleByteRule, RuleOf, Single, Sized, round_to_next_multiple,
                L2_WORD_SIZE, UPLINK_MTU_BITS
  <2> QED  BY <2>2
<1>2. CASE \E id \in 6..12 : r = DoubleByteOp1Rule(id)
  <2>1. PICK id \in 6..12 : r = DoubleByteOp1Rule(id)
    BY <1>2
  <2>2. Op1(r)
    BY <2>1 DEF DoubleByteOp1Rule, RuleOf, Op1, Sized, round_to_next_multiple,
                L2_WORD_SIZE, UPLINK_MTU_BITS
  <2> QED  BY <2>2
<1>3. CASE \E id \in 15..18 : r = DoubleByteOp2Rule(id)
  <2>1. PICK id \in 15..18 : r = DoubleByteOp2Rule(id)
    BY <1>3
  <2>2. Op2(r)
    BY <2>1 DEF DoubleByteOp2Rule, RuleOf, Op2, Sized, round_to_next_multiple,
                L2_WORD_SIZE, UPLINK_MTU_BITS
  <2> QED  BY <2>2
<1> QED  BY <1>1, <1>2, <1>3 DEF Rules

Accepted(r, size) == size \in 1..r.max_schc_packet_byte_size

LEMMA NotRefused ==
    ASSUME NEW r \in Rules, NEW size \in Nat, ~fragment_refuses(r, size)
    PROVE  Accepted(r, size)
BY Formats DEF Single, Op1, Op2, Sized, fragment_refuses, Accepted

\* The number of Fragments, from the payload of each format.
LEMMA FragmentCount ==
    ASSUME NEW r \in Rules, NEW size \in Nat, Accepted(r, size)
    PROVE  get_nb_fragments(r, size) \in 1..r.max_fragment_nb
<1>1. CASE Single(r)
  BY <1>1, Powers DEF Single, Sized, Accepted, get_nb_fragments, needs_empty_all_1,
                      regular_payload_byte_size
<1>2. CASE Op1(r)
  BY <1>2, Powers DEF Op1, Sized, Accepted, get_nb_fragments, needs_empty_all_1,
                      regular_payload_byte_size
<1>3. CASE Op2(r)
  BY <1>3, Powers DEF Op2, Sized, Accepted, get_nb_fragments, needs_empty_all_1,
                      regular_payload_byte_size
<1> QED  BY <1>1, <1>2, <1>3, Formats

\* Every payload leaves room for its header.
LEMMA PayloadFits ==
    ASSUME NEW r \in Rules, NEW size \in Nat, Accepted(r, size),
           NEW i \in 0..get_nb_fragments(r, size) - 1,
           NEW header, header = IF i = get_nb_fragments(r, size) - 1
                                THEN r.all1_header_len ELSE r.header_len
    PROVE  /\ payload_size(r, size, i) \in Nat
           /\ 8 * payload_size(r, size, i) <= UPLINK_MTU_BITS - header
<1>1. CASE Single(r)
  BY <1>1 DEF Single, Sized, Accepted, payload_size, get_nb_fragments,
              needs_empty_all_1, regular_payload_byte_size, UPLINK_MTU_BITS
<1>2. CASE Op1(r)
  BY <1>2 DEF Op1, Sized, Accepted, payload_size, get_nb_fragments,
              needs_empty_all_1, regular_payload_byte_size, UPLINK_MTU_BITS
<1>3. CASE Op2(r)
  BY <1>3 DEF Op2, Sized, Accepted, payload_size, get_nb_fragments,
              needs_empty_all_1, regular_payload_byte_size, UPLINK_MTU_BITS
<1> QED  BY <1>1, <1>2, <1>3, Formats

LastOf(r, size) == get_nb_fragments(r, size) - 1

\* What the fields of Fragment i are: none of them was cut.
Fields(r, size, i, f) ==
    /\ f.w = i \div r.window_size
    /\ f.fcn = IF i = LastOf(r, size) THEN 2^r.n - 1
               ELSE r.window_size - (i % r.window_size) - 1
    /\ f.rcs = IF i = LastOf(r, size) THEN (i % r.window_size) + 1 ELSE 0
    /\ f.byte_size \in 1..UPLINK_MTU_BYTES
    /\ i = LastOf(r, size) => 8 * f.byte_size >= r.all1_header_len

\* The position of a Fragment fits in the widths of W, FCN and RCS.
LEMMA Widths ==
    ASSUME NEW r \in Rules, NEW size \in Nat, Accepted(r, size),
           NEW i \in 0..LastOf(r, size)
    PROVE  /\ (i \div r.window_size) % 2^r.m = i \div r.window_size
           /\ (r.window_size - (i % r.window_size) - 1) % 2^r.n
                  = r.window_size - (i % r.window_size) - 1
           /\ (2^r.n - 1) % 2^r.n = 2^r.n - 1
           /\ ((i % r.window_size) + 1) % 2^r.u = (i % r.window_size) + 1
           /\ 0 % 2^r.u = 0
<1> get_nb_fragments(r, size) \in 1..r.max_fragment_nb
  BY FragmentCount
<1>1. CASE Single(r)
  BY <1>1, Powers DEF Single, Sized, LastOf
<1>2. CASE Op1(r)
  BY <1>2, Powers DEF Op1, Sized, LastOf
<1>3. CASE Op2(r)
  BY <1>3, Powers DEF Op2, Sized, LastOf
<1> QED  BY <1>1, <1>2, <1>3, Formats

\* The header of either kind is one, two or three bytes.
LEMMA HeaderBytes ==
    ASSUME NEW r \in Rules
    PROVE  \A len \in {r.header_len, r.all1_header_len} :
               len \in Nat /\ len \div 8 \in 1..3 /\ 8 * (len \div 8) = len
BY Formats DEF Single, Op1, Op2, Sized

LEMMA GeneratedFields ==
    ASSUME NEW r \in Rules, NEW size \in Nat, Accepted(r, size), NEW p,
           NEW i \in 0..LastOf(r, size)
    PROVE  Fields(r, size, i, fragment(r, p, size)[i])
<1> DEFINE last   == i = LastOf(r, size)
           header == IF last THEN r.all1_header_len ELSE r.header_len
           bytes  == payload_size(r, size, i)
           f      == fragment(r, p, size)[i]
<1> USE DEF LastOf
<1>1. f = generate_frg(r, p, i * regular_payload_byte_size(r), bytes, i, last)
  BY DEF fragment
<1>2. bytes \in Nat /\ 8 * bytes <= UPLINK_MTU_BITS - header
  BY PayloadFits
<1>3. header \in Nat /\ header \div 8 \in 1..3 /\ 8 * (header \div 8) = header
  BY HeaderBytes
<1>4. ~(8 * bytes > UPLINK_MTU_BITS - header)
  BY <1>2, <1>3 DEF UPLINK_MTU_BITS
<1>5. /\ f.w = (i \div r.window_size) % 2^r.m
      /\ f.fcn = (IF last THEN 2^r.n - 1
                  ELSE r.window_size - (i % r.window_size) - 1) % 2^r.n
      /\ f.rcs = (IF last THEN (i % r.window_size) + 1 ELSE 0) % 2^r.u
      /\ f.byte_size = header \div 8 + bytes
  BY <1>1, <1>4 DEF generate_frg, AllOnes
<1>6. f.byte_size \in 1..UPLINK_MTU_BYTES /\ 8 * f.byte_size >= header
  <2> HIDE DEF header, bytes, f
  <2>1. f.byte_size = header \div 8 + bytes
    BY <1>5
  <2> QED  BY <1>2, <1>3, <2>1 DEF UPLINK_MTU_BYTES, UPLINK_MTU_BITS
<1> QED  BY <1>5, <1>6, Widths DEF Fields

-----------------------------------------------------------------------------
(* From the fields back to the Fragment.                                    *)

LEMMA Recognised ==
    ASSUME NEW r \in Rules, NEW size \in Nat, Accepted(r, size),
           NEW i \in 0..LastOf(r, size), NEW f, Fields(r, size, i, f)
    PROVE  /\ get_frg_nb(r, f) = i
           /\ is_frg_all_1(r, f) <=> i = LastOf(r, size)
           /\ is_frg_all_0(f) <=>
                  i # LastOf(r, size) /\ (i + 1) % r.window_size = 0
           /\ ~is_frg_sender_abort(r, f)
<1>1. ~is_frg_null(f)
  BY DEF Fields, is_frg_null, NULL_FRG, UPLINK_MTU_BYTES
<1> DEFINE j == i % r.window_size
<1>2. /\ j \in 0..r.window_size - 1
      /\ r.window_size * (i \div r.window_size) + j = i
      /\ r.window_size - j - 1 < 2^r.n - 1
      /\ 2^r.n - 1 # 0
      /\ j = r.window_size - 1 <=> (i + 1) % r.window_size = 0
      /\ r.window_size \in Nat
  <2>1. CASE Single(r)
    BY <2>1, Powers DEF Single, Sized
  <2>2. CASE Op1(r)
    BY <2>2, Powers DEF Op1, Sized
  <2>3. CASE Op2(r)
    BY <2>3, Powers DEF Op2, Sized
  <2> QED  BY <2>1, <2>2, <2>3, Formats
<1>3. is_frg_all_1(r, f) <=> i = LastOf(r, size)
  BY <1>1, <1>2 DEF Fields, is_frg_all_1, AllOnes
<1>4. is_frg_all_0(f) <=> i # LastOf(r, size) /\ (i + 1) % r.window_size = 0
  BY <1>1, <1>2 DEF Fields, is_frg_all_0
<1>5. ~is_frg_sender_abort(r, f)
  <2>1. CASE i = LastOf(r, size)
    <3>1. r.all1_header_len \in Nat /\ f.byte_size \in Nat
      BY HeaderBytes DEF Fields, UPLINK_MTU_BYTES
    <3> QED  BY <2>1, <3>1 DEF Fields, is_frg_sender_abort
  <2>2. CASE i # LastOf(r, size)
    BY <2>2, <1>2 DEF Fields, is_frg_sender_abort, AllOnes
  <2> QED  BY <2>1, <2>2
<1>6. get_frg_nb(r, f) = i
  BY <1>2, <1>3 DEF Fields, get_frg_nb, get_frg_idx, get_frg_window
<1> QED  BY <1>3, <1>4, <1>5, <1>6

-----------------------------------------------------------------------------
(* Payloads.                                                                *)

LEMMA PayloadBytes ==
    ASSUME NEW r \in Rules
    PROVE  regular_payload_byte_size(r) \in {10, 11}
BY Formats DEF Single, Op1, Op2, Sized, regular_payload_byte_size

\* The payload that get_frg_payload finds is the one that was put in.
LEMMA PayloadFound ==
    ASSUME NEW r \in Rules, NEW size \in Nat, Accepted(r, size), NEW p,
           NEW i \in 0..LastOf(r, size)
    PROVE  get_frg_payload(r, fragment(r, p, size)[i])
               = [packet |-> p, from |-> i * regular_payload_byte_size(r),
                  size |-> payload_size(r, size, i)]
<1> DEFINE last   == i = LastOf(r, size)
           header == IF last THEN r.all1_header_len ELSE r.header_len
           h      == header \div 8
           bytes  == payload_size(r, size, i)
           from   == i * regular_payload_byte_size(r)
           f      == fragment(r, p, size)[i]
<1>1. f = generate_frg(r, p, from, bytes, i, last)
  BY DEF fragment, LastOf
<1>2. bytes \in Nat /\ 8 * bytes <= UPLINK_MTU_BITS - header
  BY PayloadFits DEF LastOf
<1>3. header \in Nat /\ h \in 1..3
  BY HeaderBytes
<1>4. ~(8 * bytes > UPLINK_MTU_BITS - header)
  BY <1>2, <1>3 DEF UPLINK_MTU_BITS
<1>5. /\ f.data = [packet |-> p, from |-> from, header |-> h]
      /\ f.byte_size = h + bytes
  BY <1>1, <1>4 DEF generate_frg
<1>6. is_frg_all_1(r, f) <=> last
  BY GeneratedFields, Recognised
<1>7. get_frg_header_byte_size(r, f) = h
  BY <1>6 DEF get_frg_header_byte_size
<1>8. i \in Nat /\ regular_payload_byte_size(r) \in Nat
  <2>1. LastOf(r, size) \in Int
    BY FragmentCount DEF LastOf
  <2> QED  BY <2>1, PayloadBytes
<1>9. from \in Nat
  BY <1>8
<1> HIDE DEF header, h, bytes, f, from
<1>10. from + h - h = from /\ (h + bytes) - h = bytes
  BY <1>2, <1>3, <1>9
<1>11. get_frg_payload(r, f) = [packet |-> p, from |-> from, size |-> bytes]
  <2>1. /\ f.data.packet = p
        /\ f.data.from + get_frg_header_byte_size(r, f) - f.data.header = from
    BY <1>5, <1>7, <1>10
  <2>2. get_frg_payload_byte_size(r, f) = bytes
    BY <1>5, <1>7, <1>10 DEF get_frg_payload_byte_size
  <2> QED  BY <2>1, <2>2 DEF get_frg_payload
<1> QED  BY <1>11 DEF f, from, bytes

\* The payloads cover the packet.
LEMMA PayloadsCover ==
    ASSUME NEW r \in Rules, NEW size \in Nat, Accepted(r, size)
    PROVE  LET p == regular_payload_byte_size(r) last == LastOf(r, size) IN
           /\ \A i \in 0..last : i # last => payload_size(r, size, i) = p
           /\ p * last + payload_size(r, size, last) = size
           /\ \A i \in 0..last : i * p + payload_size(r, size, i) <= size
<1>1. CASE Single(r)
  BY <1>1 DEF Single, Sized, Accepted, payload_size, get_nb_fragments, LastOf,
              needs_empty_all_1, regular_payload_byte_size
<1>2. CASE Op1(r)
  BY <1>2 DEF Op1, Sized, Accepted, payload_size, get_nb_fragments, LastOf,
              needs_empty_all_1, regular_payload_byte_size
<1>3. CASE Op2(r)
  BY <1>3 DEF Op2, Sized, Accepted, payload_size, get_nb_fragments, LastOf,
              needs_empty_all_1, regular_payload_byte_size
<1> QED  BY <1>1, <1>2, <1>3, Formats
-----------------------------------------------------------------------------
(* Strings of bits.                                                         *)

\* s is a string of n bits.
BitString(s, n) == s \in Seq(Bits) /\ Len(s) = n

LEMMA PowersOfTwo ==
    ASSUME NEW e \in 0..7
    PROVE  2^e = CASE e = 0 -> 1 [] e = 1 -> 2 [] e = 2 -> 4 [] e = 3 -> 8
                   [] e = 4 -> 16 [] e = 5 -> 32 [] e = 6 -> 64 [] e = 7 -> 128
<1>1. e \in {0, 1, 2, 3, 4, 5, 6, 7}
  OBVIOUS
<1>2. /\ 2^0 = 1 /\ 2^1 = 2 /\ 2^2 = 4 /\ 2^3 = 8
      /\ 2^4 = 16 /\ 2^5 = 32 /\ 2^6 = 64 /\ 2^7 = 128
  OBVIOUS
<1> QED BY <1>1, <1>2

LEMMA Constants ==
    ASSUME NEW n \in Nat
    PROVE  /\ BitString(Ones(n), n) /\ \A k \in 1..n : Ones(n)[k] = 1
           /\ BitString(Zeros(n), n) /\ \A k \in 1..n : Zeros(n)[k] = 0
BY DEF Ones, Zeros, BitString, Bits

\* u is the m bits of s and then the n bits of t.
Joins(u, s, m, t, n) ==
    /\ BitString(u, m + n)
    /\ \A k \in 1..m : u[k] = s[k]
    /\ \A k \in 1..n : u[m + k] = t[k]

LEMMA Joined ==
    ASSUME NEW m \in Nat, NEW n \in Nat, NEW s, NEW t,
           BitString(s, m), BitString(t, n)
    PROVE  Joins(s \o t, s, m, t, n)
<1>1. BitString(s \o t, m + n)
  BY DEF BitString
<1>2. \A k \in 1..m : (s \o t)[k] = s[k]
  BY DEF BitString
<1>3. \A k \in 1..n : (s \o t)[m + k] = t[k]
  BY DEF BitString
<1> QED  BY <1>1, <1>2, <1>3 DEF Joins

\* u is the n bits of s from the one after position i.
IsCut(u, s, i, n) ==
    /\ BitString(u, n)
    /\ \A k \in 1..n : u[k] = s[i + k]

LEMMA Cut ==
    ASSUME NEW len \in Nat, NEW s, BitString(s, len),
           NEW i \in Nat, NEW n \in Nat, i + n <= len
    PROVE  IsCut(SubSeq(s, i + 1, i + n), s, i, n)
<1>1. \A j \in i + 1..i + n : s[j] \in Bits
  BY ElementOfSeq DEF BitString
<1>2. /\ SubSeq(s, i + 1, i + n) \in Seq(Bits)
      /\ Len(SubSeq(s, i + 1, i + n))
             = IF i + 1 <= i + n THEN i + n - (i + 1) + 1 ELSE 0
      /\ \A k \in 1..i + n - (i + 1) + 1 :
             SubSeq(s, i + 1, i + n)[k] = s[i + 1 + k - 1]
  BY <1>1, SubSeqProperties
<1>3. Len(SubSeq(s, i + 1, i + n)) = n
  BY <1>2
<1>4. ASSUME NEW k \in 1..n PROVE SubSeq(s, i + 1, i + n)[k] = s[i + k]
  <2>1. k \in 1..i + n - (i + 1) + 1 /\ i + 1 + k - 1 = i + k
    OBVIOUS
  <2> QED  BY <1>2, <2>1
<1> QED  BY <1>2, <1>3, <1>4 DEF BitString, IsCut

LEMMA Equal ==
    ASSUME NEW n \in Nat, NEW s, NEW t, BitString(s, n), BitString(t, n),
           \A k \in 1..n : s[k] = t[k]
    PROVE  s = t
BY SeqEqual DEF BitString

LEMMA Monochar ==
    ASSUME NEW n \in Nat, NEW s, BitString(s, n), NEW c
    PROVE  is_monochar(s, c) <=> n > 0 /\ \A k \in 1..n : s[k] = c
<1>1. DOMAIN s = 1..n /\ (s = <<>> <=> n = 0)
  BY EmptySeq, LenProperties DEF BitString
<1> QED  BY <1>1 DEF is_monochar

LEMMA ToBin ==
    ASSUME NEW x \in Int, NEW n \in 0..8
    PROVE  /\ BitString(int_to_bin(x, n), n)
           /\ \A k \in 1..n : int_to_bin(x, n)[k] = (x \div 2^(n - k)) % 2
<1>1. ASSUME NEW k \in 1..n PROVE (x \div 2^(n - k)) % 2 \in Bits
  <2>1. PICK e \in 0..7 : e = n - k
    OBVIOUS
  <2>2. 2^e \in {1, 2, 4, 8, 16, 32, 64, 128}
    <3> e \in {0, 1, 2, 3, 4, 5, 6, 7}
      OBVIOUS
    <3> QED  BY PowersOfTwo
  <2>3. x \div 2^(n - k) \in Int
    <3> DEFINE d == 2^(n - k)
    <3> HIDE DEF d
    <3>1. d \in Int /\ d > 0
      BY <2>1, <2>2 DEF d
    <3>2. x \div d \in Int
      BY <3>1
    <3> QED  BY <3>2 DEF d
  <2> QED  BY <2>3 DEF Bits
<1>2. int_to_bin(x, n) = [k \in 1..n |-> (x \div 2^(n - k)) % 2]
  BY DEF int_to_bin
<1>3. int_to_bin(x, n) \in [1..n -> Bits]
  BY <1>1, <1>2
<1> QED  BY <1>2, <1>3 DEF BitString

LEMMA BitsAre ==
    ASSUME NEW n \in Nat, NEW b, BitString(b, n)
    PROVE  \A k \in 1..n : b[k] \in {0, 1}
BY ElementOfSeq DEF BitString, Bits

\* bin_to_int is defined by recursion on the length; the strings it is used on
\* have no more than six bits, for which the solution is written out.
LEMMA Unfolded ==
    ASSUME NEW n \in 1..6, NEW b, BitString(b, n)
    PROVE  \E v : /\ bin_to_int(b) = v[n]
                  /\ v[0] = 0
                  /\ \A k \in 1..n : v[k] = 2 * v[k - 1] + b[k]
<1> DEFINE Body(v, k) == IF k = 0 THEN 0 ELSE 2 * v[k - 1] + b[k]
           Solves(v)  == v = [k \in 0..Len(b) |-> Body(v, k)]
           g2 == 2 * b[1] + b[2]
           g3 == 2 * g2 + b[3]
           g4 == 2 * g3 + b[4]
           g5 == 2 * g4 + b[5]
           g6 == 2 * g5 + b[6]
           g == [k \in 0..n |->
                    CASE k = 0 -> 0  [] k = 1 -> b[1] [] k = 2 -> g2 [] k = 3 -> g3
                      [] k = 4 -> g4 [] k = 5 -> g5   [] k = 6 -> g6]
           value == CHOOSE v : Solves(v)
<1> HIDE DEF g2, g3, g4, g5, g6, g, Solves, Body
<1>0. Len(b) = n /\ \A k \in 1..n : b[k] \in Int
  BY BitsAre DEF BitString
<1>1. \A k \in 0..n : g[k] = Body(g, k)
  <2> TAKE k \in 0..n
  <2>1. CASE k = 0
    BY <2>1 DEF g, Body
  <2>2. CASE k = 1
    BY <1>0, <2>2 DEF g, Body
  <2>3. CASE k = 2
    BY <1>0, <2>3 DEF g, g2, Body
  <2>4. CASE k = 3
    BY <1>0, <2>4 DEF g, g3, Body
  <2>5. CASE k = 4
    BY <1>0, <2>5 DEF g, g4, Body
  <2>6. CASE k = 5
    BY <1>0, <2>6 DEF g, g5, Body
  <2>7. CASE k = 6
    BY <1>0, <2>7 DEF g, g6, Body
  <2> QED  BY <2>1, <2>2, <2>3, <2>4, <2>5, <2>6, <2>7
<1>2. Solves(g)
  <2>1. g = [k \in 0..n |-> g[k]]
    BY DEF g
  <2> QED  BY <1>0, <1>1, <2>1 DEF Solves
<1>3. Solves(value)
  BY <1>2
<1>4. bin_to_int(b) = value[n]
  BY <1>0 DEF bin_to_int, Solves, Body
<1> HIDE DEF value
<1>5. \A k \in 0..n : value[k] = Body(value, k)
  BY <1>0, <1>3 DEF Solves
<1>6. value[0] = 0 /\ \A k \in 1..n : value[k] = 2 * value[k - 1] + b[k]
  BY <1>5 DEF Body
<1> QED  BY <1>4, <1>6

LEMMA Value2 ==
    ASSUME NEW b, BitString(b, 2) PROVE bin_to_int(b) = 2 * b[1] + b[2]
<1>1. PICK v : /\ bin_to_int(b) = v[2] /\ v[0] = 0
               /\ \A k \in 1..2 : v[k] = 2 * v[k - 1] + b[k]
  BY Unfolded
<1>2. v[1] = 2 * v[0] + b[1] /\ v[2] = 2 * v[1] + b[2]
  BY <1>1
<1>3. b[1] \in Int /\ b[2] \in Int
  BY BitsAre
<1> QED  BY <1>1, <1>2, <1>3

LEMMA Value3 ==
    ASSUME NEW b, BitString(b, 3)
    PROVE  bin_to_int(b) = 4 * b[1] + 2 * b[2] + b[3]
<1>1. PICK v : /\ bin_to_int(b) = v[3] /\ v[0] = 0
               /\ \A k \in 1..3 : v[k] = 2 * v[k - 1] + b[k]
  BY Unfolded
<1>2. v[1] = 2 * v[0] + b[1] /\ v[2] = 2 * v[1] + b[2] /\ v[3] = 2 * v[2] + b[3]
  BY <1>1
<1>3. b[1] \in Int /\ b[2] \in Int /\ b[3] \in Int
  BY BitsAre
<1> QED  BY <1>1, <1>2, <1>3

LEMMA Value6 ==
    ASSUME NEW b, BitString(b, 6)
    PROVE  bin_to_int(b) = 32 * b[1] + 16 * b[2] + 8 * b[3] + 4 * b[4]
                           + 2 * b[5] + b[6]
<1>1. PICK v : /\ bin_to_int(b) = v[6] /\ v[0] = 0
               /\ \A k \in 1..6 : v[k] = 2 * v[k - 1] + b[k]
  BY Unfolded
<1>2. /\ v[1] = 2 * v[0] + b[1] /\ v[2] = 2 * v[1] + b[2] /\ v[3] = 2 * v[2] + b[3]
      /\ v[4] = 2 * v[3] + b[4] /\ v[5] = 2 * v[4] + b[5] /\ v[6] = 2 * v[5] + b[6]
  BY <1>1
<1>3. \A k \in 1..6 : b[k] \in Int
  BY BitsAre
<1> QED  BY <1>1, <1>2, <1>3

LEMMA Binary2 ==
    ASSUME NEW x \in Int
    PROVE  /\ int_to_bin(x, 2)[1] = (x \div 2) % 2
           /\ int_to_bin(x, 2)[2] = x % 2
<1> DEFINE b == int_to_bin(x, 2)
<1>1. b = [k \in 1..2 |-> (x \div 2^(2 - k)) % 2]
  BY DEF int_to_bin
<1> HIDE DEF b
<1>2. 2^(2 - 1) = 2 /\ 2^(2 - 2) = 1
  OBVIOUS
<1>3. b[1] = (x \div 2^(2 - 1)) % 2 /\ b[2] = (x \div 2^(2 - 2)) % 2
  BY <1>1
<1>4. b[1] = (x \div 2) % 2 /\ b[2] = x % 2
  BY <1>2, <1>3
<1> QED  BY <1>4 DEF b

LEMMA Binary3 ==
    ASSUME NEW x \in Int
    PROVE  /\ int_to_bin(x, 3)[1] = (x \div 4) % 2
           /\ int_to_bin(x, 3)[2] = (x \div 2) % 2
           /\ int_to_bin(x, 3)[3] = x % 2
<1> DEFINE b == int_to_bin(x, 3)
<1>1. b = [k \in 1..3 |-> (x \div 2^(3 - k)) % 2]
  BY DEF int_to_bin
<1> HIDE DEF b
<1>2. /\ 2^(3 - 1) = 4 /\ 2^(3 - 2) = 2 /\ 2^(3 - 3) = 1
  OBVIOUS
<1>3. /\ b[1] = (x \div 2^(3 - 1)) % 2 /\ b[2] = (x \div 2^(3 - 2)) % 2
      /\ b[3] = (x \div 2^(3 - 3)) % 2
  BY <1>1
<1>4. /\ b[1] = (x \div 4) % 2 /\ b[2] = (x \div 2) % 2 /\ b[3] = x % 2
  BY <1>2, <1>3
<1> QED  BY <1>4 DEF b

LEMMA Binary6 ==
    ASSUME NEW x \in Int
    PROVE  /\ int_to_bin(x, 6)[1] = (x \div 32) % 2
           /\ int_to_bin(x, 6)[2] = (x \div 16) % 2
           /\ int_to_bin(x, 6)[3] = (x \div 8) % 2
           /\ int_to_bin(x, 6)[4] = (x \div 4) % 2
           /\ int_to_bin(x, 6)[5] = (x \div 2) % 2
           /\ int_to_bin(x, 6)[6] = x % 2
<1> DEFINE b == int_to_bin(x, 6)
<1>1. b = [k \in 1..6 |-> (x \div 2^(6 - k)) % 2]
  BY DEF int_to_bin
<1> HIDE DEF b
<1>2. /\ 2^(6 - 1) = 32 /\ 2^(6 - 2) = 16 /\ 2^(6 - 3) = 8 /\ 2^(6 - 4) = 4
      /\ 2^(6 - 5) = 2 /\ 2^(6 - 6) = 1
  OBVIOUS
<1>3. /\ b[1] = (x \div 2^(6 - 1)) % 2 /\ b[2] = (x \div 2^(6 - 2)) % 2
      /\ b[3] = (x \div 2^(6 - 3)) % 2 /\ b[4] = (x \div 2^(6 - 4)) % 2
      /\ b[5] = (x \div 2^(6 - 5)) % 2 /\ b[6] = (x \div 2^(6 - 6)) % 2
  BY <1>1
<1>4. /\ b[1] = (x \div 32) % 2 /\ b[2] = (x \div 16) % 2 /\ b[3] = (x \div 8) % 2
      /\ b[4] = (x \div 4) % 2 /\ b[5] = (x \div 2) % 2 /\ b[6] = x % 2
  BY <1>2, <1>3
<1> QED  BY <1>4 DEF b

LEMMA Binary8 ==
    ASSUME NEW x \in Int
    PROVE  /\ int_to_bin(x, 8)[1] = (x \div 128) % 2
           /\ int_to_bin(x, 8)[2] = (x \div 64) % 2
           /\ int_to_bin(x, 8)[3] = (x \div 32) % 2
           /\ int_to_bin(x, 8)[4] = (x \div 16) % 2
           /\ int_to_bin(x, 8)[5] = (x \div 8) % 2
           /\ int_to_bin(x, 8)[6] = (x \div 4) % 2
           /\ int_to_bin(x, 8)[7] = (x \div 2) % 2
           /\ int_to_bin(x, 8)[8] = x % 2
<1> DEFINE b == int_to_bin(x, 8)
<1>1. b = [k \in 1..8 |-> (x \div 2^(8 - k)) % 2]
  BY DEF int_to_bin
<1> HIDE DEF b
<1>2. /\ 2^(8 - 1) = 128 /\ 2^(8 - 2) = 64 /\ 2^(8 - 3) = 32 /\ 2^(8 - 4) = 16
      /\ 2^(8 - 5) = 8 /\ 2^(8 - 6) = 4 /\ 2^(8 - 7) = 2 /\ 2^(8 - 8) = 1
  OBVIOUS
<1>3. /\ b[1] = (x \div 2^(8 - 1)) % 2 /\ b[2] = (x \div 2^(8 - 2)) % 2
      /\ b[3] = (x \div 2^(8 - 3)) % 2 /\ b[4] = (x \div 2^(8 - 4)) % 2
      /\ b[5] = (x \div 2^(8 - 5)) % 2 /\ b[6] = (x \div 2^(8 - 6)) % 2
      /\ b[7] = (x \div 2^(8 - 7)) % 2 /\ b[8] = (x \div 2^(8 - 8)) % 2
  BY <1>1
<1>4. /\ b[1] = (x \div 128) % 2 /\ b[2] = (x \div 64) % 2 /\ b[3] = (x \div 32) % 2
      /\ b[4] = (x \div 16) % 2 /\ b[5] = (x \div 8) % 2 /\ b[6] = (x \div 4) % 2
      /\ b[7] = (x \div 2) % 2 /\ b[8] = x % 2
  BY <1>2, <1>3
<1> QED  BY <1>4 DEF b

LEMMA BinaryString ==
    ASSUME NEW x \in Int, NEW n \in 0..8 PROVE BitString(int_to_bin(x, n), n)
BY ToBin

\* The Rule ID of the three formats.
LEMMA RuleIds ==
    ASSUME NEW r \in Rules
    PROVE  /\ r.rule_id_size \in {3, 6, 8}
           /\ BitString(get_rule_id_bin(r), r.rule_id_size)
           /\ r.rule_id_size = 3 =>
                  /\ r.id \in 0..6 /\ r = SingleByteRule(r.id)
                  /\ get_rule_id_bin(r) = int_to_bin(r.id, 3)
           /\ r.rule_id_size = 6 =>
                  /\ r.id \in 6..12 /\ r = DoubleByteOp1Rule(r.id)
                  /\ get_rule_id_bin(r) = int_to_bin(56 + (r.id - 6), 6)
           /\ r.rule_id_size = 8 =>
                  /\ r.id \in 15..18 /\ r = DoubleByteOp2Rule(r.id)
                  /\ get_rule_id_bin(r) = int_to_bin(252 + ((r.id - 3) % 4), 8)
<1>1. ASSUME NEW id \in 0..6, r = SingleByteRule(id)
      PROVE  /\ r.rule_id_size = 3 /\ r.id = id
             /\ get_rule_id_bin(r) = int_to_bin(id, 3)
  BY <1>1 DEF SingleByteRule, RuleOf, get_rule_id_bin
<1>2. ASSUME NEW id \in 6..12, r = DoubleByteOp1Rule(id)
      PROVE  /\ r.rule_id_size = 6 /\ r.id = id
             /\ get_rule_id_bin(r) = int_to_bin(56 + (id - 6), 6)
  BY <1>2 DEF DoubleByteOp1Rule, RuleOf, get_rule_id_bin
<1>3. ASSUME NEW id \in 15..18, r = DoubleByteOp2Rule(id)
      PROVE  /\ r.rule_id_size = 8 /\ r.id = id
             /\ get_rule_id_bin(r) = int_to_bin(252 + ((id - 3) % 4), 8)
  BY <1>3 DEF DoubleByteOp2Rule, RuleOf, get_rule_id_bin
<1>4. \/ \E id \in 0..6 : r = SingleByteRule(id)
      \/ \E id \in 6..12 : r = DoubleByteOp1Rule(id)
      \/ \E id \in 15..18 : r = DoubleByteOp2Rule(id)
  BY DEF Rules
<1>5. CASE \E id \in 0..6 : r = SingleByteRule(id)
  <2>1. BitString(int_to_bin(r.id, 3), 3)
    BY <1>1, <1>5, BinaryString
  <2> QED  BY <1>1, <1>5, <2>1
<1>6. CASE \E id \in 6..12 : r = DoubleByteOp1Rule(id)
  <2>1. BitString(int_to_bin(56 + (r.id - 6), 6), 6)
    <3> DEFINE x == 56 + (r.id - 6)
    <3>1. x \in Int
      BY <1>2, <1>6
    <3> HIDE DEF x
    <3>2. BitString(int_to_bin(x, 6), 6)
      BY <3>1, BinaryString
    <3> QED  BY <3>2 DEF x
  <2> QED  BY <1>2, <1>6, <2>1
<1>7. CASE \E id \in 15..18 : r = DoubleByteOp2Rule(id)
  <2>1. BitString(int_to_bin(252 + ((r.id - 3) % 4), 8), 8)
    <3> DEFINE x == 252 + ((r.id - 3) % 4)
    <3>1. x \in Int
      BY <1>3, <1>7
    <3> HIDE DEF x
    <3>2. BitString(int_to_bin(x, 8), 8)
      BY <3>1, BinaryString
    <3> QED  BY <3>2 DEF x
  <2> QED  BY <1>3, <1>7, <2>1
<1> QED  BY <1>4, <1>5, <1>6, <1>7

\* init_rule reads back the Rule from bits that begin with its Rule ID; where the
\* format takes its id from the end of the bits, they have to be a single byte.
LEMMA RuleReadBack ==
    ASSUME NEW r \in Rules, NEW len \in Nat, len >= 8, NEW bits, BitString(bits, len),
           \A k \in 1..r.rule_id_size : bits[k] = get_rule_id_bin(r)[k],
           r.rule_id_size < 8 \/ len = 8
    PROVE  init_rule(bits) = r
<1> DEFINE b3 == SubSeq(bits, 1, 3)  b6 == SubSeq(bits, 1, 6)
<1>1. /\ BitString(b3, 3) /\ \A k \in 1..3 : b3[k] = bits[k]
      /\ BitString(b6, 6) /\ \A k \in 1..6 : b6[k] = bits[k]
  <2>1. /\ BitString(SubSeq(bits, 0 + 1, 0 + 3), 3)
        /\ \A k \in 1..3 : SubSeq(bits, 0 + 1, 0 + 3)[k] = bits[0 + k]
    BY Cut DEF IsCut
  <2>2. /\ BitString(SubSeq(bits, 0 + 1, 0 + 6), 6)
        /\ \A k \in 1..6 : SubSeq(bits, 0 + 1, 0 + 6)[k] = bits[0 + k]
    BY Cut DEF IsCut
  <2> QED  BY <2>1, <2>2
<1> HIDE DEF b3, b6
<1>2. /\ is_monochar(b3, 1) <=> bits[1] = 1 /\ bits[2] = 1 /\ bits[3] = 1
      /\ is_monochar(b6, 1) <=> \A k \in 1..6 : bits[k] = 1
  <2>1. is_monochar(b3, 1) <=> \A k \in 1..3 : b3[k] = 1
    BY <1>1, Monochar
  <2>2. is_monochar(b6, 1) <=> \A k \in 1..6 : b6[k] = 1
    BY <1>1, Monochar
  <2> QED  BY <1>1, <2>1, <2>2
<1>3. bin_to_int(b3) = 4 * bits[1] + 2 * bits[2] + bits[3]
  BY <1>1, Value3
<1>4. bin_to_int(b6) = 32 * bits[1] + 16 * bits[2] + 8 * bits[3] + 4 * bits[4]
                       + 2 * bits[5] + bits[6]
  BY <1>1, Value6
<1>5. init_rule(bits) = IF ~is_monochar(b3, 1) THEN SingleByteRule(bin_to_int(b3))
                        ELSE IF ~is_monochar(b6, 1)
                        THEN DoubleByteOp1Rule((bin_to_int(b6) % 8) + 6)
                        ELSE DoubleByteOp2Rule(low_two_bits(bits) + 15)
  BY DEF init_rule, b3, b6
<1>6. CASE r.rule_id_size = 3
  <2>1. r.id \in 0..6 /\ r = SingleByteRule(r.id)
    BY <1>6, RuleIds
  <2>2. PICK x \in 0..6 : x = r.id
    BY <2>1
  <2>3. get_rule_id_bin(r) = int_to_bin(x, 3)
    BY <1>6, <2>2, RuleIds
  <2>4. \A k \in 1..3 : bits[k] = int_to_bin(x, 3)[k]
    BY <1>6, <2>3
  <2>5. bits[1] = (x \div 4) % 2 /\ bits[2] = (x \div 2) % 2 /\ bits[3] = x % 2
    BY <2>4, Binary3
  <2>6. /\ 4 * bits[1] + 2 * bits[2] + bits[3] = x
        /\ ~(bits[1] = 1 /\ bits[2] = 1 /\ bits[3] = 1)
    BY <2>5
  <2> QED  BY <1>2, <1>3, <1>5, <2>1, <2>2, <2>6
<1>7. CASE r.rule_id_size = 6
  <2>1. r.id \in 6..12 /\ r = DoubleByteOp1Rule(r.id)
    BY <1>7, RuleIds
  <2>2. PICK x \in 56..62 : x = 56 + (r.id - 6)
    BY <2>1
  <2>3. get_rule_id_bin(r) = int_to_bin(x, 6)
    BY <1>7, <2>2, RuleIds
  <2>4. \A k \in 1..6 : bits[k] = int_to_bin(x, 6)[k]
    BY <1>7, <2>3
  <2>5. /\ bits[1] = (x \div 32) % 2 /\ bits[2] = (x \div 16) % 2
        /\ bits[3] = (x \div 8) % 2 /\ bits[4] = (x \div 4) % 2
        /\ bits[5] = (x \div 2) % 2 /\ bits[6] = x % 2
    BY <2>4, Binary6
  <2>6. /\ bits[1] = 1 /\ bits[2] = 1 /\ bits[3] = 1
        /\ 32 * bits[1] + 16 * bits[2] + 8 * bits[3] + 4 * bits[4]
               + 2 * bits[5] + bits[6] = x
        /\ ~(bits[4] = 1 /\ bits[5] = 1 /\ bits[6] = 1)
    BY <2>5
  <2>7. (x % 8) + 6 = r.id
    BY <2>1, <2>2
  <2>8. is_monochar(b3, 1) /\ ~is_monochar(b6, 1)
    BY <1>2, <2>6
  <2>9. bin_to_int(b6) = x
    BY <1>4, <2>6
  <2> QED  BY <1>5, <2>1, <2>7, <2>8, <2>9
<1>8. CASE r.rule_id_size = 8
  <2>1. r.id \in 15..18 /\ r = DoubleByteOp2Rule(r.id) /\ len = 8
    BY <1>8, RuleIds
  <2>2. PICK x \in 252..255 : x = 252 + ((r.id - 3) % 4)
    BY <2>1
  <2>3. get_rule_id_bin(r) = int_to_bin(x, 8)
    BY <1>8, <2>2, RuleIds
  <2>4. \A k \in 1..8 : bits[k] = int_to_bin(x, 8)[k]
    BY <1>8, <2>3
  <2>5. /\ bits[1] = (x \div 128) % 2 /\ bits[2] = (x \div 64) % 2
        /\ bits[3] = (x \div 32) % 2 /\ bits[4] = (x \div 16) % 2
        /\ bits[5] = (x \div 8) % 2 /\ bits[6] = (x \div 4) % 2
        /\ bits[7] = (x \div 2) % 2 /\ bits[8] = x % 2
    BY <2>4, Binary8
  <2>6. /\ bits[1] = 1 /\ bits[2] = 1 /\ bits[3] = 1
        /\ bits[4] = 1 /\ bits[5] = 1 /\ bits[6] = 1
        /\ 2 * bits[7] + bits[8] = x - 252
    BY <2>5
  <2>7. is_monochar(b3, 1) /\ is_monochar(b6, 1)
    <3>1. \A k \in 1..6 : bits[k] = 1
      <4> TAKE k \in 1..6
      <4>1. k \in {1, 2, 3, 4, 5, 6}
        OBVIOUS
      <4> QED  BY <2>6, <4>1
    <3> QED  BY <1>2, <2>6, <3>1
  <2>8. low_two_bits(bits) = x - 252
    BY <2>1, <2>6 DEF low_two_bits, BitString
  <2>9. (x - 252) + 15 = r.id
    BY <2>1, <2>2
  <2> QED  BY <1>5, <2>1, <2>7, <2>8, <2>9
<1> QED  BY <1>6, <1>7, <1>8, RuleIds

\* Where the fields of the three formats lie.
LEMMA Layouts ==
    ASSUME NEW r \in Rules
    PROVE  \/ /\ r.rule_id_size = 3 /\ r.m = 2 /\ r.n = 3 /\ r.window_size = 7
              /\ r.ack_header_len = 6 /\ r.tuple_idx = 13 /\ r.max_window_nb = 4
           \/ /\ r.rule_id_size = 6 /\ r.m = 2 /\ r.n = 4 /\ r.window_size = 12
              /\ r.ack_header_len = 9 /\ r.tuple_idx = 21 /\ r.max_window_nb = 4
           \/ /\ r.rule_id_size = 8 /\ r.m = 3 /\ r.n = 5 /\ r.window_size = 31
              /\ r.ack_header_len = 12 /\ r.tuple_idx = 43 /\ r.max_window_nb = 8
<1>1. CASE r.rule_id_size = 3
  <2>1. r = SingleByteRule(r.id)
    BY <1>1, RuleIds
  <2>2. \A id : /\ SingleByteRule(id).m = 2 /\ SingleByteRule(id).n = 3
                /\ SingleByteRule(id).window_size = 7
                /\ SingleByteRule(id).ack_header_len = 6
                /\ SingleByteRule(id).tuple_idx = 13
                /\ SingleByteRule(id).max_window_nb = 4
    BY DEF SingleByteRule, RuleOf
  <2> QED  BY <1>1, <2>1, <2>2
<1>2. CASE r.rule_id_size = 6
  <2>1. r = DoubleByteOp1Rule(r.id)
    BY <1>2, RuleIds
  <2>2. \A id : /\ DoubleByteOp1Rule(id).m = 2 /\ DoubleByteOp1Rule(id).n = 4
                /\ DoubleByteOp1Rule(id).window_size = 12
                /\ DoubleByteOp1Rule(id).ack_header_len = 9
                /\ DoubleByteOp1Rule(id).tuple_idx = 21
                /\ DoubleByteOp1Rule(id).max_window_nb = 4
    BY DEF DoubleByteOp1Rule, RuleOf
  <2> QED  BY <1>2, <2>1, <2>2
<1>3. CASE r.rule_id_size = 8
  <2>1. r = DoubleByteOp2Rule(r.id)
    BY <1>3, RuleIds
  <2>2. \A id : /\ DoubleByteOp2Rule(id).m = 3 /\ DoubleByteOp2Rule(id).n = 5
                /\ DoubleByteOp2Rule(id).window_size = 31
                /\ DoubleByteOp2Rule(id).ack_header_len = 12
                /\ DoubleByteOp2Rule(id).tuple_idx = 43
                /\ DoubleByteOp2Rule(id).max_window_nb = 8
    BY DEF DoubleByteOp2Rule, RuleOf
  <2> QED  BY <1>3, <2>1, <2>2
<1> QED  BY <1>1, <1>2, <1>3, RuleIds

\* The first byte of a Fragment holds the whole Rule ID.
LEMMA FirstByte ==
    ASSUME NEW r \in Rules, NEW f, f.rule_id = get_rule_id_bin(r),
           f.w \in Int, f.fcn \in Int
    PROVE  /\ BitString(first_byte(r, f), 8)
           /\ \A k \in 1..r.rule_id_size : first_byte(r, f)[k] = get_rule_id_bin(r)[k]
<1> DEFINE id == get_rule_id_bin(r)
           w  == int_to_bin(f.w, r.m)
           fcn == int_to_bin(f.fcn, r.n)
<1>1. PICK i \in 0..8, m \in 0..8, n \in 0..8 :
          i = r.rule_id_size /\ m = r.m /\ n = r.n /\ i + m + n >= 8
  BY Layouts
<1>2. BitString(id, i) /\ BitString(w, m) /\ BitString(fcn, n)
  BY <1>1, RuleIds, BinaryString
<1> HIDE DEF id, w, fcn
<1> i \in Nat /\ m \in Nat /\ n \in Nat /\ i + m \in Nat
  OBVIOUS
<1> DEFINE front == id \o w  bits == front \o fcn
<1>3. Joins(front, id, i, w, m)
  BY <1>2, Joined
<1>4. BitString(front, i + m)
  BY <1>3 DEF Joins
<1>5. Joins(bits, front, i + m, fcn, n)
  BY <1>2, <1>4, Joined
<1> HIDE DEF front, bits
<1>6. PICK len \in Nat : len = i + m + n /\ 0 + 8 <= len
  BY <1>1
<1>7. BitString(bits, len)
  BY <1>5, <1>6 DEF Joins
<1>8. /\ BitString(SubSeq(bits, 0 + 1, 0 + 8), 8)
      /\ \A k \in 1..8 : SubSeq(bits, 0 + 1, 0 + 8)[k] = bits[0 + k]
  BY <1>6, <1>7, Cut DEF IsCut
<1>9. SubSeq(bits, 1, 8) = SubSeq(bits, 0 + 1, 0 + 8)
  OBVIOUS
<1>10. first_byte(r, f) = SubSeq(bits, 1, 8)
  BY DEF first_byte, id, w, fcn, front, bits
<1>11. ASSUME NEW k \in 1..i PROVE SubSeq(bits, 1, 8)[k] = id[k]
  <2>1. k \in 1..8 /\ k \in 1..i + m /\ 0 + k = k
    BY <1>1
  <2>2. SubSeq(bits, 1, 8)[k] = bits[k]
    BY <1>8, <1>9, <2>1
  <2> QED  BY <1>3, <1>5, <2>1, <2>2 DEF Joins
<1> QED  BY <1>1, <1>8, <1>9, <1>10, <1>11 DEF id

\* The message after it does not matter to a Rule whose id is in that byte.
LEMMA MessageGivesRule ==
    ASSUME NEW r \in Rules, r.rule_id_size < 8,
           NEW f, f.rule_id = get_rule_id_bin(r), f.w \in Int, f.fcn \in Int,
           f.byte_size \in Nat, NEW low, BitString(low, 2)
    PROVE  init_rule_from_frg(r, f, low) = r
<1>1. PICK z \in Int : z = 8 * f.byte_size - 8 - Len(low)
  BY DEF BitString
<1>2. PICK n \in Nat : n = IF z < 0 THEN 0 ELSE z
  OBVIOUS
<1>3. BitString(Zeros(z), n)
  <2>1. CASE z < 0
    <3>1. Zeros(z) = <<>>
      BY <2>1 DEF Zeros
    <3>2. <<>> \in Seq(Bits) /\ Len(<<>>) = 0
      BY EmptySeq
    <3> QED  BY <1>2, <2>1, <3>1, <3>2 DEF BitString
  <2>2. CASE ~(z < 0)
    BY <1>2, <2>2, Constants
  <2> QED  BY <2>1, <2>2
<1>4. PICK byte : byte = first_byte(r, f)
  OBVIOUS
<1>5. /\ BitString(byte, 8)
      /\ \A k \in 1..r.rule_id_size : byte[k] = get_rule_id_bin(r)[k]
  BY <1>4, FirstByte
<1> DEFINE front == byte \o Zeros(z)  bits == front \o low
<1>6. Joins(front, byte, 8, Zeros(z), n)
  BY <1>3, <1>5, Joined
<1>7. BitString(front, 8 + n) /\ 8 + n \in Nat
  BY <1>6 DEF Joins
<1>8. Joins(bits, front, 8 + n, low, 2)
  BY <1>7, Joined
<1> HIDE DEF front, bits
<1>9. \A k \in 1..r.rule_id_size : bits[k] = get_rule_id_bin(r)[k]
  <2> TAKE k \in 1..r.rule_id_size
  <2>1. k \in 1..8 /\ k \in 1..8 + n
    BY Layouts
  <2> QED  BY <1>5, <1>6, <1>8, <2>1 DEF Joins
<1>10. PICK len \in Nat : len = 8 + n + 2 /\ len >= 8
  OBVIOUS
<1>11. BitString(bits, len)
  BY <1>8, <1>10 DEF Joins
<1>12. init_rule(bits) = r
  BY <1>9, <1>10, <1>11, RuleReadBack
<1> QED  BY <1>1, <1>4, <1>12 DEF init_rule_from_frg, front, bits

-----------------------------------------------------------------------------
(* Sets in order.                                                           *)

\* Ascending lists a finite set of integers without repetition, in order.
LEMMA AscendingProperties ==
    ASSUME NEW S \in SUBSET Int, IsFiniteSet(S)
    PROVE  /\ Ascending(S) \in Seq(S)
           /\ Len(Ascending(S)) = Cardinality(S)
           /\ \A i, j \in 1..Cardinality(S) :
                  i < j => Ascending(S)[i] < Ascending(S)[j]
<1> DEFINE n        == Cardinality(S)
           below(x) == {y \in S : y < x}
           rank     == [x \in S |-> Cardinality(below(x))]
<1>1. n \in Nat
  BY FS_CardinalityType
<1>2. \A x \in S : IsFiniteSet(below(x)) /\ Cardinality(below(x)) \in 0..n - 1
  <2> TAKE x \in S
  <2>1. below(x) \in SUBSET (S \ {x})
    OBVIOUS
  <2>2. IsFiniteSet(S \ {x}) /\ Cardinality(S \ {x}) = n - 1
    BY FS_RemoveElement
  <2>3. IsFiniteSet(below(x)) /\ Cardinality(below(x)) <= n - 1
    BY <2>1, <2>2, FS_Subset
  <2>. QED  BY <2>3, <1>1, FS_CardinalityType
<1>3. \A x, z \in S : x < z => Cardinality(below(x)) < Cardinality(below(z))
  <2> SUFFICES ASSUME NEW x \in S, NEW z \in S, x < z
               PROVE  Cardinality(below(x)) < Cardinality(below(z))
    OBVIOUS
  <2>1. below(x) \cup {x} \in SUBSET below(z)
    <3>1. x \in Int /\ z \in Int
      OBVIOUS
    <3>2. ASSUME NEW y \in S, y < x \/ y = x
          PROVE  y < z
      <4>1. y \in Int
        OBVIOUS
      <4>. QED  BY <3>1, <3>2, <4>1
    <3>. QED  BY <3>2
  <2>2. Cardinality(below(x) \cup {x}) = Cardinality(below(x)) + 1
    BY <1>2, FS_AddElement
  <2>3. Cardinality(below(x) \cup {x}) <= Cardinality(below(z))
    BY <1>2, <2>1, FS_Subset
  <2>. HIDE DEF below
  <2>. QED  BY <1>1, <1>2, <2>2, <2>3
<1>4. rank \in Injection(S, 0..n - 1)
  <2>1. rank \in [S -> 0..n - 1]
    BY <1>2
  <2>2. ASSUME NEW x \in S, NEW z \in S, rank[x] = rank[z]
        PROVE  x = z
    <3>1. Cardinality(below(x)) = Cardinality(below(z))
      BY <2>2
    <3>2. Cardinality(below(x)) \in Int /\ Cardinality(below(z)) \in Int
      BY <1>1, <1>2
    <3>. HIDE DEF below, rank
    <3>. QED  BY <3>1, <3>2, <1>3
  <2>. HIDE DEF rank
  <2>. QED  BY <2>1, <2>2 DEF Injection, IsInjective
<1>5. rank \in Surjection(S, 0..n - 1)
  <2>1. IsFiniteSet(0..n - 1) /\ Cardinality(0..n - 1) = n
    BY <1>1, FS_Interval
  <2>. HIDE DEF rank
  <2>. QED  BY <1>4, <2>1, FS_Injection
<1>6. \A k \in 1..n : \E x \in S : Cardinality(below(x)) = k - 1
  <2> TAKE k \in 1..n
  <2>1. k - 1 \in 0..n - 1
    BY <1>1
  <2>2. PICK x \in S : rank[x] = k - 1
    BY <1>5, <2>1 DEF Surjection
  <2>. QED  BY <2>2
<1>7. \A k \in 1..n : /\ Ascending(S)[k] \in S
                      /\ Cardinality(below(Ascending(S)[k])) = k - 1
  BY <1>6 DEF Ascending
<1>8. Ascending(S) \in [1..n -> S]
  BY <1>7 DEF Ascending
<1>9. Ascending(S) \in Seq(S) /\ Len(Ascending(S)) = n
  BY <1>1, <1>8
<1>10. ASSUME NEW i \in 1..n, NEW j \in 1..n, i < j
       PROVE  Ascending(S)[i] < Ascending(S)[j]
  <2> DEFINE a == Ascending(S)[i]
             b == Ascending(S)[j]
  <2>1. a \in S /\ b \in S /\ a \in Int /\ b \in Int
    BY <1>7
  <2>2. Cardinality(below(a)) < Cardinality(below(b))
    BY <1>1, <1>7, <1>10
  <2>3. Cardinality(below(a)) \in Int /\ Cardinality(below(b)) \in Int
    BY <1>1, <1>2, <2>1
  <2>. HIDE DEF a, b, below
  <2>4. ~(b < a) /\ a # b
    BY <1>3, <2>1, <2>2, <2>3
  <2>. QED  BY <2>1, <2>4 DEF a, b
<1>. QED  BY <1>9, <1>10

LEMMA AscendingOnto ==
    ASSUME NEW S \in SUBSET Int, IsFiniteSet(S), NEW x \in S
    PROVE  \E k \in 1..Len(Ascending(S)) : Ascending(S)[k] = x
<1>1. PICK n \in Nat : n = Cardinality(S)
  BY FS_CardinalityType
<1>2. PICK f : f = Ascending(S)
  OBVIOUS
<1>3. /\ f \in Seq(S) /\ Len(f) = n
      /\ \A i, j \in 1..n : i < j => f[i] < f[j]
  BY <1>1, <1>2, AscendingProperties
<1>4. f \in [1..n -> S]
  BY <1>3
<1>5. f \in Injection(1..n, S)
  <2>1. ASSUME NEW i \in 1..n, NEW j \in 1..n, i # j
        PROVE  f[i] # f[j]
    <3>1. f[i] \in Int /\ f[j] \in Int
      BY <1>4
    <3>2. f[i] < f[j] \/ f[j] < f[i]
      BY <1>3, <2>1
    <3> QED  BY <3>1, <3>2
  <2> QED  BY <1>4, <2>1 DEF Injection, IsInjective
<1>6. IsFiniteSet(1..n) /\ Cardinality(1..n) = n
  BY FS_Interval
<1>7. f \in Surjection(1..n, S)
  BY <1>1, <1>5, <1>6, FS_Injection
<1> QED  BY <1>2, <1>3, <1>7 DEF Surjection

-----------------------------------------------------------------------------
(* Compound ACKs.                                                           *)

\* The message of a is the n bits given and then zeros.
Carries(a, bits, n) ==
    /\ BitString(a.message, 64)
    /\ \A k \in 1..n : a.message[k] = bits[k]
    /\ \A k \in n + 1..64 : a.message[k] = 0
    /\ a.byte_size = 8

LEMMA Sent ==
    ASSUME NEW n \in 0..64, NEW bits, BitString(bits, n)
    PROVE  Carries(Downlink(bits), bits, n)
<1> DEFINE z == 64 - Len(bits)
           m == bits \o Zeros(z)
<1>1. z \in Nat /\ z = 64 - n /\ n + z = 64 /\ n \in Nat
  BY DEF BitString
<1>2. BitString(Zeros(z), z) /\ \A k \in 1..z : Zeros(z)[k] = 0
  BY <1>1, Constants
<1> HIDE DEF z
<1>3. Joins(m, bits, n, Zeros(z), z)
  BY <1>1, <1>2, Joined
<1>4. Downlink(bits) = [message |-> m, byte_size |-> 8]
  BY DEF Downlink, m, z, DOWNLINK_MTU_BITS
<1> HIDE DEF m
<1>5. BitString(m, 64) /\ \A k \in 1..n : m[k] = bits[k]
  BY <1>1, <1>3 DEF Joins
<1>6. ASSUME NEW k \in n + 1..64 PROVE m[k] = 0
  <2>1. PICK j \in 1..z : k = n + j
    BY <1>1
  <2> QED  BY <1>2, <1>3, <2>1 DEF Joins
<1> QED  BY <1>4, <1>5, <1>6 DEF Carries

Header(r, x, c) == get_rule_id_bin(r) \o int_to_bin(x, r.m) \o <<c>>

LEMMA HeaderBits ==
    ASSUME NEW r \in Rules, NEW x \in Int, NEW c \in Bits
    PROVE  /\ BitString(Header(r, x, c), r.ack_header_len)
           /\ \A k \in 1..r.rule_id_size : Header(r, x, c)[k] = get_rule_id_bin(r)[k]
           /\ \A k \in 1..r.m :
                  Header(r, x, c)[r.rule_id_size + k] = int_to_bin(x, r.m)[k]
           /\ Header(r, x, c)[r.ack_header_len] = c
<1> DEFINE id == get_rule_id_bin(r)
           w  == int_to_bin(x, r.m)
           front == id \o w
           head == front \o <<c>>
<1>1. PICK i \in 0..8, m \in 0..8 :
          i = r.rule_id_size /\ m = r.m /\ r.ack_header_len = i + m + 1
  BY Layouts
<1> i \in Nat /\ m \in Nat /\ i + m \in Nat /\ 1 \in Nat
  OBVIOUS
<1>2. BitString(id, i) /\ BitString(w, m) /\ BitString(<<c>>, 1)
  <2>1. BitString(<<c>>, 1)
    BY DEF BitString
  <2> QED  BY <1>1, <2>1, RuleIds, BinaryString
<1> HIDE DEF id, w
<1>3. Joins(front, id, i, w, m)
  BY <1>2, Joined
<1>4. BitString(front, i + m)
  BY <1>3 DEF Joins
<1>5. Joins(head, front, i + m, <<c>>, 1)
  BY <1>2, <1>4, Joined
<1>6. Header(r, x, c) = head
  BY DEF Header, head, front, id, w
<1> HIDE DEF front, head
<1>7. BitString(head, i + m + 1) /\ head[i + m + 1] = c
  BY <1>5 DEF Joins
<1>8. \A k \in 1..i : head[k] = id[k]
  BY <1>3, <1>5 DEF Joins
<1>9. \A k \in 1..m : head[i + k] = w[k]
  <2> TAKE k \in 1..m
  <2>1. i + k \in 1..i + m
    OBVIOUS
  <2> QED  BY <1>3, <1>5, <2>1 DEF Joins
<1> QED  BY <1>1, <1>6, <1>7, <1>8, <1>9 DEF id, w

\* The fields of a message that begins with a header.
LEMMA HeaderRead ==
    ASSUME NEW r \in Rules, NEW x \in Int, NEW c \in Bits, NEW a,
           BitString(a.message, 64),
           \A k \in 1..r.ack_header_len : a.message[k] = Header(r, x, c)[k]
    PROVE  /\ get_ack_w(r, a) = int_to_bin(x, r.m)
           /\ get_ack_c(r, a) = <<c>>
           /\ \A k \in 1..r.rule_id_size : a.message[k] = get_rule_id_bin(r)[k]
<1> DEFINE h == Header(r, x, c)
<1>1. PICK i \in 0..8, m \in 0..8 :
          i = r.rule_id_size /\ m = r.m /\ r.ack_header_len = i + m + 1
  BY Layouts
<1>2. /\ \A k \in 1..i : h[k] = get_rule_id_bin(r)[k]
      /\ \A k \in 1..m : h[i + k] = int_to_bin(x, m)[k]
      /\ h[i + m + 1] = c
  BY <1>1, HeaderBits
<1> HIDE DEF h
<1>3. \A k \in 1..i + m + 1 : a.message[k] = h[k]
  BY <1>1 DEF h
<1>4. get_ack_w(r, a) = int_to_bin(x, r.m)
  <2> DEFINE f == SubSeq(a.message, i + 1, i + m)
  <2>1. IsCut(f, a.message, i, m)
    BY Cut
  <2>2. get_ack_w(r, a) = f
    BY <1>1 DEF get_ack_w, w_idx, Field
  <2> HIDE DEF f
  <2>3. BitString(f, m) /\ BitString(int_to_bin(x, m), m)
    BY <2>1, BinaryString DEF IsCut
  <2>4. ASSUME NEW k \in 1..m PROVE f[k] = int_to_bin(x, m)[k]
    <3>1. i + k \in 1..i + m + 1
      OBVIOUS
    <3> QED  BY <1>2, <1>3, <2>1, <3>1 DEF IsCut
  <2>5. f = int_to_bin(x, m)
    BY <2>3, <2>4, Equal
  <2> QED  BY <1>1, <2>2, <2>5
<1>5. get_ack_c(r, a) = <<c>>
  <2> DEFINE f == SubSeq(a.message, i + m + 1, i + m + 1)
  <2>1. i + m \in Nat /\ i + m + 1 <= 64
    OBVIOUS
  <2>2. IsCut(f, a.message, i + m, 1)
    BY <2>1, Cut
  <2>3. get_ack_c(r, a) = f
    BY <1>1 DEF get_ack_c, c_idx, Field
  <2> HIDE DEF f
  <2>4. BitString(f, 1) /\ f[1] = c
    <3>1. i + m + 1 \in 1..i + m + 1
      OBVIOUS
    <3> QED  BY <1>2, <1>3, <2>2, <3>1 DEF IsCut
  <2>5. f = <<c>>
    BY <2>4 DEF BitString
  <2> QED  BY <2>3, <2>5
<1>6. \A k \in 1..i : a.message[k] = get_rule_id_bin(r)[k]
  BY <1>2, <1>3
<1> QED  BY <1>1, <1>4, <1>5, <1>6

LEMMA NotNull ==
    ASSUME NEW a, a.byte_size = 8 PROVE ~is_ack_null(a)
BY DEF is_ack_null, NULL_ACK

\* A report of losses is read as nothing else, whatever its bitmaps are.
LEMMA LossesRead ==
    ASSUME NEW r \in Rules, NEW a, get_ack_c(r, a) = << 0 >>
    PROVE  ~is_ack_receiver_abort(r, a) /\ ~is_ack_complete(r, a)
<1>1. << 0 >> # <<1>>
  OBVIOUS
<1> QED  BY <1>1 DEF is_ack_receiver_abort, is_ack_complete

\* Where the last 1 is.
LEMMA LastOne ==
    ASSUME NEW a, NEW n \in 1..64, BitString(a.message, 64), a.message[n] = 1,
           \A k \in n + 1..64 : a.message[k] = 0
    PROVE  n = CHOOSE k \in 1..DOWNLINK_MTU_BITS :
                  /\ a.message[k] = 1
                  /\ \A j \in k + 1..DOWNLINK_MTU_BITS : a.message[j] = 0
<1> DEFINE IsLast(k) == /\ a.message[k] = 1
                        /\ \A j \in k + 1..64 : a.message[j] = 0
<1>1. IsLast(n)
  OBVIOUS
<1>2. ASSUME NEW k \in 1..64, IsLast(k) PROVE k = n
  <2>1. CASE k < n
    <3>1. n \in k + 1..64
      BY <2>1
    <3> QED  BY <1>2, <3>1
  <2>2. CASE n < k
    <3>1. k \in n + 1..64
      BY <2>2
    <3> QED  BY <1>2, <3>1
  <2> QED  BY <2>1, <2>2
<1> HIDE DEF IsLast
<1>3. n = CHOOSE k \in 1..64 : IsLast(k)
  BY <1>1, <1>2
<1> QED  BY <1>3 DEF IsLast, DOWNLINK_MTU_BITS

\* A header with C=1 and zeros is a complete ACK and nothing else.
LEMMA CompleteRead ==
    ASSUME NEW r \in Rules, NEW x \in Int, NEW a,
           Carries(a, Header(r, x, 1), r.ack_header_len)
    PROVE  /\ is_ack_complete(r, a) /\ ~is_ack_receiver_abort(r, a)
           /\ ~is_ack_compound(r, a)
<1>1. PICK h \in {6, 9, 12} : h = r.ack_header_len
  BY Layouts
<1>2. /\ BitString(a.message, 64) /\ \A k \in h + 1..64 : a.message[k] = 0
      /\ \A k \in 1..h : a.message[k] = Header(r, x, 1)[k]
      /\ ~is_ack_null(a)
  BY <1>1, NotNull DEF Carries
<1>3. get_ack_c(r, a) = <<1>>
  BY <1>1, <1>2, HeaderRead DEF Bits
<1>4. a.message[h] = 1
  <2>1. Header(r, x, 1)[h] = 1
    BY <1>1, HeaderBits DEF Bits
  <2> QED  BY <1>2, <2>1
<1>5. ~is_ack_receiver_abort(r, a)
  <2>1. h = CHOOSE k \in 1..DOWNLINK_MTU_BITS :
               /\ a.message[k] = 1
               /\ \A j \in k + 1..DOWNLINK_MTU_BITS : a.message[j] = 0
    BY <1>2, <1>4, LastOne
  <2>2. ~(h - h >= L2_WORD_SIZE)
    BY DEF L2_WORD_SIZE
  <2> QED  BY <1>1, <2>1, <2>2 DEF is_ack_receiver_abort
<1>6. is_monochar(padding(r, a), 0)
  <2> DEFINE f == SubSeq(a.message, h + 1, h + (64 - h))
  <2>1. h \in Nat /\ 64 - h \in Nat /\ h + (64 - h) <= 64 /\ 64 - h > 0
    OBVIOUS
  <2>2. IsCut(f, a.message, h, 64 - h)
    BY <1>2, <2>1, Cut
  <2>3. padding(r, a) = f
    BY <1>1 DEF padding, Field, DOWNLINK_MTU_BITS
  <2> HIDE DEF f
  <2>4. \A k \in 1..64 - h : f[k] = 0
    BY <1>2, <2>2 DEF IsCut
  <2> QED  BY <2>1, <2>2, <2>3, <2>4, Monochar DEF IsCut
<1> QED  BY <1>2, <1>3, <1>5, <1>6 DEF is_ack_complete, is_ack_compound

\* A Receiver-Abort is a Receiver-Abort.
LEMMA AbortRead ==
    ASSUME NEW r \in Rules
    PROVE  LET a == generate_receiver_abort(r) IN
           /\ BitString(a.message, 64) /\ a.byte_size = 8
           /\ \A k \in 1..r.rule_id_size : a.message[k] = get_rule_id_bin(r)[k]
           /\ is_ack_receiver_abort(r, a)
<1> DEFINE a == generate_receiver_abort(r)
           rem == r.ack_header_len % L2_WORD_SIZE
           ones == IF rem = 0 THEN L2_WORD_SIZE ELSE 2 * L2_WORD_SIZE - rem
           head == get_rule_id_bin(r) \o Ones(r.m) \o <<1>>
           bits == head \o Ones(ones)
           w == IF r.m = 2 THEN 3 ELSE 7
<1>1. PICK h \in {6, 9, 12}, o \in {10, 15, 12} :
          /\ h = r.ack_header_len /\ o = ones
          /\ h + o \in {16, 24} /\ h % 8 # 0
  BY Layouts DEF L2_WORD_SIZE
<1>2. a = Downlink(head \o Ones(ones))
  BY DEF generate_receiver_abort
<1> HIDE DEF a, ones
<1>3. PICK m \in 2..3 : m = r.m /\ r.rule_id_size + m + 1 = h
  BY <1>1, Layouts
<1>4. Ones(m) = int_to_bin(w, m) /\ w \in Int
  <2>1. w \in {3, 7} /\ (m = 2 => w = 3) /\ (m = 3 => w = 7)
    BY <1>3
  <2> HIDE DEF w
  <2>2. BitString(Ones(m), m) /\ BitString(int_to_bin(w, m), m)
    BY <2>1, Constants, BinaryString
  <2>3. \A k \in 1..m : int_to_bin(w, m)[k] = 1
    <3>1. CASE m = 2
      <4>1. int_to_bin(w, 2)[1] = (w \div 2) % 2 /\ int_to_bin(w, 2)[2] = w % 2
        BY <2>1, Binary2
      <4>2. \A k \in 1..2 : k = 1 \/ k = 2
        OBVIOUS
      <4> QED  BY <2>1, <3>1, <4>1, <4>2
    <3>2. CASE m = 3
      <4>0. PICK v \in {3, 7} : v = w
        BY <2>1
      <4>1. /\ int_to_bin(v, 3)[1] = (v \div 4) % 2
            /\ int_to_bin(v, 3)[2] = (v \div 2) % 2
            /\ int_to_bin(v, 3)[3] = v % 2
        <5>1. v \in Int
          OBVIOUS
        <5> QED  BY <5>1, Binary3
      <4>2. \A k \in 1..3 : k = 1 \/ k = 2 \/ k = 3
        OBVIOUS
      <4> QED  BY <2>1, <3>2, <4>0, <4>1, <4>2
    <3> QED  BY <3>1, <3>2
  <2>4. Ones(m) = int_to_bin(w, m)
    BY <2>2, <2>3, Constants, Equal
  <2> QED  BY <2>1, <2>4
<1> HIDE DEF w
<1>5. head = Header(r, w, 1)
  BY <1>3, <1>4 DEF Header
<1> HIDE DEF head
<1>6. BitString(head, h)
  BY <1>1, <1>4, <1>5, HeaderBits DEF Bits
<1>7. BitString(Ones(o), o) /\ \A k \in 1..o : Ones(o)[k] = 1
  BY Constants
<1>8. Joins(bits, head, h, Ones(o), o)
  BY <1>1, <1>6, <1>7, Joined
<1> HIDE DEF bits
<1>9. BitString(bits, h + o) /\ h + o \in 0..64
  BY <1>8 DEF Joins
<1>10. Carries(a, bits, h + o)
  BY <1>2, <1>9, Sent DEF bits
<1>11. /\ \A k \in 1..h : a.message[k] = head[k]
       /\ \A k \in h + 1..h + o : a.message[k] = 1
       /\ \A k \in h + o + 1..64 : a.message[k] = 0
  <2>1. \A k \in 1..h : a.message[k] = head[k]
    BY <1>8, <1>10 DEF Joins, Carries
  <2>2. ASSUME NEW k \in h + 1..h + o PROVE a.message[k] = 1
    <3>1. PICK j \in 1..o : k = h + j
      OBVIOUS
    <3> QED  BY <1>7, <1>8, <1>10, <3>1 DEF Joins, Carries
  <2> QED  BY <1>10, <2>1, <2>2 DEF Carries
<1>12. /\ get_ack_w(r, a) = Ones(m) /\ get_ack_c(r, a) = <<1>>
       /\ \A k \in 1..r.rule_id_size : a.message[k] = get_rule_id_bin(r)[k]
  <2>1. BitString(a.message, 64) /\ 1 \in Bits
    BY <1>10 DEF Carries, Bits
  <2>2. \A k \in 1..r.ack_header_len : a.message[k] = Header(r, w, 1)[k]
    BY <1>1, <1>5, <1>11
  <2> QED  BY <1>3, <1>4, <2>1, <2>2, HeaderRead
<1>13. is_monochar(get_ack_w(r, a), 1)
  BY <1>12, Constants, Monochar
<1>14. h + o = CHOOSE k \in 1..DOWNLINK_MTU_BITS :
                  /\ a.message[k] = 1
                  /\ \A j \in k + 1..DOWNLINK_MTU_BITS : a.message[j] = 0
  <2>1. h + o \in 1..64 /\ h + o \in h + 1..h + o
    OBVIOUS
  <2>2. BitString(a.message, 64) /\ a.message[h + o] = 1
    BY <1>10, <1>11, <2>1 DEF Carries
  <2> QED  BY <1>11, <2>1, <2>2, LastOne
<1>15. ASSUME NEW i \in Nat, NEW n \in Nat, i >= h, n > 0, i + n <= h + o
       PROVE  is_monochar(Field(a, i, n), 1)
  <2> DEFINE f == SubSeq(a.message, i + 1, i + n)
  <2>1. IsCut(f, a.message, i, n)
    BY <1>10, <1>15, Cut DEF Carries
  <2> HIDE DEF f
  <2>2. \A k \in 1..n : f[k] = 1
    <3> TAKE k \in 1..n
    <3>1. i + k \in h + 1..h + o
      BY <1>15
    <3> QED  BY <1>11, <2>1, <3>1 DEF IsCut
  <2>3. is_monochar(f, 1)
    BY <1>15, <2>1, <2>2, Monochar DEF IsCut
  <2> QED  BY <2>3 DEF f, Field
<1>16. is_ack_receiver_abort(r, a)
  <2>1. ~is_ack_null(a)
    BY <1>10, NotNull DEF Carries
  <2>2. (h + o) - h = o /\ o >= 8 /\ o > 8
    OBVIOUS
  <2>3. is_monochar(Field(a, (h + o) - 8, 8), 1)
    <3>1. (h + o) - 8 \in Nat /\ (h + o) - 8 >= h /\ ((h + o) - 8) + 8 <= h + o
      OBVIOUS
    <3> QED  BY <1>15, <3>1
  <2>4. is_monochar(Field(a, h, o - 8), 1)
    <3>1. o - 8 \in Nat /\ o - 8 > 0 /\ h + (o - 8) <= h + o /\ h \in Nat
      OBVIOUS
    <3> QED  BY <1>15, <3>1
  <2>5. ((h + o) - 8) % 8 = 0
    BY <1>1
  <2> DEFINE last == CHOOSE k \in 1..DOWNLINK_MTU_BITS :
                        /\ a.message[k] = 1
                        /\ \A j \in k + 1..DOWNLINK_MTU_BITS : a.message[j] = 0
  <2>6. last = h + o
    BY <1>14
  <2> HIDE DEF last
  <2>7. is_ack_receiver_abort(r, a) <=>
            /\ ~is_ack_null(a)
            /\ is_monochar(get_ack_w(r, a), 1) /\ get_ack_c(r, a) = <<1>>
            /\ last - h >= 8
            /\ is_monochar(Field(a, last - 8, 8), 1)
            /\ IF last - h > 8 /\ h % 8 # 0
               THEN /\ is_monochar(Field(a, h, (last - h) - 8), 1)
                    /\ (last - 8) % 8 = 0
               ELSE h % 8 = 0
    BY <1>1 DEF is_ack_receiver_abort, last, L2_WORD_SIZE
  <2> QED  BY <1>1, <1>12, <1>13, <2>1, <2>2, <2>3, <2>4, <2>5, <2>6, <2>7
<1> QED  BY <1>10, <1>12, <1>16 DEF a, Carries

-----------------------------------------------------------------------------
(* Reports of losses.                                                       *)

\* Strings of s bits end to end: the k-th is behind k - 1 others.
Behind(k, s) == (k - 1) * s

LEMMA Strides ==
    ASSUME NEW s \in Nat
    PROVE  /\ Behind(1, s) = 0 /\ Behind(2, s) = s /\ Behind(3, s) = s + s
           /\ Behind(4, s) = s + s + s
BY DEF Behind

LEMMA StrideBounds ==
    ASSUME NEW s \in Nat, NEW n \in 1..4
    PROVE  /\ Behind(n, s) \in Nat
           /\ \A k \in 1..n - 1 : Behind(k, s) \in Nat /\ Behind(k, s) + s <= Behind(n, s)
<1>1. n \in {1, 2, 3, 4}
  OBVIOUS
<1>3. Behind(n, s) \in Nat
  BY <1>1, Strides
<1>4. ASSUME NEW k \in 1..n - 1
      PROVE  Behind(k, s) \in Nat /\ Behind(k, s) + s <= Behind(n, s)
  <2>1. k \in {1, 2, 3} /\ k < n
    OBVIOUS
  <2> QED  BY <1>1, <2>1, Strides
<1> QED  BY <1>3, <1>4

Tiles(u, ts, n, s) ==
    /\ BitString(u, Behind(n + 1, s))
    /\ \A k \in 1..n : \A j \in 1..s : u[Behind(k, s) + j] = ts[k][j]

\* FlattenSeq is defined by recursion; an ACK has at most three further tuples.
LEMMA Flattened ==
    ASSUME NEW s \in Nat, NEW n \in 0..3, NEW ts,
           ts = [k \in 1..n |-> ts[k]], \A k \in 1..n : BitString(ts[k], s)
    PROVE  Tiles(FlattenSeq(ts), ts, n, s)
<1> DEFINE u2 == ts[1] \o ts[2]
           u3 == u2 \o ts[3]
           Body(v, i) == IF i = 1 THEN ts[i] ELSE v[i - 1] \o ts[i]
           Solves(v)  == v = [i \in 1..Len(ts) |-> Body(v, i)]
           g == [i \in 1..n |-> CASE i = 1 -> ts[1] [] i = 2 -> u2 [] i = 3 -> u3]
           flat == CHOOSE v : Solves(v)
<1>0. Len(ts) = n
  OBVIOUS
<1> HIDE DEF u2, u3, g, Solves, Body
<1>1. \A i \in 1..n : g[i] = Body(g, i)
  <2> TAKE i \in 1..n
  <2>1. CASE i = 1
    BY <2>1 DEF g, Body
  <2>2. CASE i = 2
    BY <2>2 DEF g, u2, Body
  <2>3. CASE i = 3
    BY <2>3 DEF g, u3, Body
  <2> QED  BY <2>1, <2>2, <2>3
<1>2. Solves(g)
  <2>1. g = [i \in 1..n |-> g[i]]
    BY DEF g
  <2> QED  BY <1>0, <1>1, <2>1 DEF Solves
<1>3. Solves(flat)
  BY <1>2
<1>4. FlattenSeq(ts) = IF n = 0 THEN ts ELSE flat[n]
  <2>1. CASE n = 0
    BY <1>0, <2>1 DEF FlattenSeq
  <2>2. CASE n # 0
    <3>1. ~(Len(ts) = 0)
      BY <1>0, <2>2
    <3>2. FlattenSeq(ts) = flat[Len(ts)]
      BY <3>1, Zenon DEF FlattenSeq, Solves, Body
    <3> QED  BY <1>0, <2>2, <3>2
  <2> QED  BY <2>1, <2>2
<1> HIDE DEF flat
<1>5. \A i \in 1..n : flat[i] = Body(flat, i)
  BY <1>0, <1>3 DEF Solves
<1>11. /\ n > 0 => flat[1] = ts[1]
       /\ \A i \in 2..n : flat[i] = flat[i - 1] \o ts[i]
  <2>1. n > 0 => flat[1] = ts[1]
    BY <1>5 DEF Body
  <2>2. ASSUME NEW i \in 2..n PROVE flat[i] = flat[i - 1] \o ts[i]
    <3>1. i \in 1..n /\ ~(i = 1)
      OBVIOUS
    <3> QED  BY <1>5, <3>1, Zenon DEF Body
  <2> QED  BY <2>1, <2>2
<1>6. CASE n = 0
  <2>1. ts = <<>>
    BY <1>0, <1>6
  <2>2. <<>> \in Seq(Bits) /\ Len(<<>>) = 0 /\ Behind(0 + 1, s) = 0
    BY EmptySeq, Strides
  <2>3. FlattenSeq(ts) = <<>>
    BY <1>4, <1>6, <2>1
  <2>4. BitString(FlattenSeq(ts), Behind(n + 1, s))
    BY <1>6, <2>2, <2>3 DEF BitString
  <2> QED  BY <1>6, <2>4 DEF Tiles
<1>7. CASE n = 1
  <2>1. FlattenSeq(ts) = ts[1] /\ BitString(ts[1], s)
    BY <1>4, <1>7, <1>11
  <2>2. Behind(1 + 1, s) = s /\ \A k \in 1..1 : k = 1 /\ Behind(k, s) = 0
    BY Strides
  <2> QED  BY <1>7, <2>1, <2>2 DEF Tiles
<1>8. ASSUME n > 1
      PROVE  Joins(flat[2], ts[1], s, ts[2], s) /\ flat[2] = u2
  <2>1. flat[2] = flat[1] \o ts[2] /\ flat[1] = ts[1]
    <3>1. 2 \in 2..n /\ 2 - 1 = 1 /\ n > 0
      BY <1>8
    <3>2. flat[2] = flat[2 - 1] \o ts[2]
      BY <1>11, <3>1, Zenon
    <3> QED  BY <1>11, <3>1, <3>2
  <2>2. BitString(ts[1], s) /\ BitString(ts[2], s)
    BY <1>8
  <2> QED  BY <2>1, <2>2, Joined DEF u2
<1>9. CASE n = 2
  <2>1. FlattenSeq(ts) = flat[2] /\ Behind(2 + 1, s) = s + s
    BY <1>4, <1>9, Strides
  <2>2. ASSUME NEW k \in 1..2, NEW j \in 1..s
        PROVE  flat[2][Behind(k, s) + j] = ts[k][j]
    <3>1. \/ k = 1 /\ Behind(k, s) + j = j
          \/ k = 2 /\ Behind(k, s) + j = s + j
      BY Strides
    <3> QED  BY <1>8, <1>9, <3>1 DEF Joins
  <2> QED  BY <1>8, <1>9, <2>1, <2>2 DEF Tiles, Joins
<1>10. CASE n = 3
  <2>1. FlattenSeq(ts) = flat[3] /\ Behind(3 + 1, s) = s + s + s
    BY <1>4, <1>10, Strides
  <2>2. flat[3] = flat[2] \o ts[3]
    <3>1. 3 \in 2..n /\ 3 - 1 = 2
      BY <1>10
    <3>2. flat[3] = flat[3 - 1] \o ts[3]
      BY <1>11, <3>1, Zenon
    <3> QED  BY <3>1, <3>2
  <2>3. BitString(flat[2], s + s) /\ s + s \in Nat /\ BitString(ts[3], s)
    BY <1>8, <1>10 DEF Joins
  <2>4. Joins(flat[3], flat[2], s + s, ts[3], s)
    BY <2>2, <2>3, Joined
  <2>5. ASSUME NEW k \in 1..3, NEW j \in 1..s
        PROVE  flat[3][Behind(k, s) + j] = ts[k][j]
    <3>1. \/ k = 1 /\ Behind(k, s) + j = j
          \/ k = 2 /\ Behind(k, s) + j = s + j
          \/ k = 3 /\ Behind(k, s) + j = s + s + j
      BY Strides
    <3>2. j \in 1..s + s /\ s + j \in 1..s + s
      OBVIOUS
    <3> QED  BY <1>8, <1>10, <2>4, <3>1, <3>2 DEF Joins
  <2> QED  BY <1>10, <2>1, <2>4, <2>5 DEF Tiles, Joins
<1> QED  BY <1>6, <1>7, <1>9, <1>10

\* What generate_ack is given: windows of the Rule up to wdw, blank or whole.
Reportable(r, wdw, bitmaps) ==
    /\ wdw \in 0..r.max_window_nb - 1
    /\ \A i \in 0..wdw : bitmaps[i] = <<>> \/ BitString(bitmaps[i], r.window_size)

LEMMA LostWindows ==
    ASSUME NEW r \in Rules, NEW wdw, NEW bitmaps, Reportable(r, wdw, bitmaps),
           NEW lost, lost = lost_windows(wdw, bitmaps)
    PROVE  /\ lost \in Seq(0..r.max_window_nb - 1) /\ Len(lost) <= r.max_window_nb
           /\ \A k \in 1..Len(lost) : BitString(bitmaps[lost[k]], r.window_size)
           /\ \A i, j \in 1..Len(lost) : i < j => lost[i] < lost[j]
<1> DEFINE S == {i \in 0..wdw : bitmaps[i] # <<>> /\ ~is_monochar(bitmaps[i], 1)}
<1>1. PICK n \in {4, 8} : n = r.max_window_nb
  BY Layouts
<1>2. wdw \in 0..n - 1 /\ S \subseteq 0..wdw /\ 0..wdw \subseteq 0..n - 1
  BY <1>1 DEF Reportable
<1>3. IsFiniteSet(S) /\ Cardinality(S) <= n /\ Cardinality(S) \in Nat
  <2>1. IsFiniteSet(0..n - 1) /\ Cardinality(0..n - 1) = n
    BY FS_Interval
  <2> QED  BY <1>2, <2>1, FS_Subset, FS_CardinalityType
<1>4. \A i \in S : BitString(bitmaps[i], r.window_size)
  BY DEF Reportable
<1>5. lost = Ascending(S)
  BY DEF lost_windows
<1> HIDE DEF S
<1>6. S \in SUBSET Int
  BY <1>2
<1>7. /\ lost \in Seq(S) /\ Len(lost) = Cardinality(S)
      /\ \A i, j \in 1..Cardinality(S) : i < j => lost[i] < lost[j]
  BY <1>3, <1>5, <1>6, AscendingProperties
<1>8. \A k \in 1..Len(lost) : lost[k] \in S
  BY <1>7, ElementOfSeq
<1>9. lost \in Seq(0..n - 1)
  <2>1. S \subseteq 0..n - 1
    BY <1>2
  <2>2. \A k \in 1..Len(lost) : lost[k] \in 0..n - 1
    BY <1>8, <2>1
  <2> QED  BY <1>7, <2>2, IsASeq
<1>10. Len(lost) <= n
  BY <1>3, <1>7
<1>11. \A i, j \in 1..Len(lost) : i < j => lost[i] < lost[j]
  BY <1>7
<1> QED  BY <1>1, <1>4, <1>8, <1>9, <1>10, <1>11

\* Every window with something to report is among them.
LEMMA LossIsListed ==
    ASSUME NEW wdw \in Nat, NEW bitmaps, NEW w \in 0..wdw,
           bitmaps[w] # <<>>, ~is_monochar(bitmaps[w], 1),
           NEW lost, lost = lost_windows(wdw, bitmaps)
    PROVE  \E k \in 1..Len(lost) : lost[k] = w
<1> DEFINE S == {i \in 0..wdw : bitmaps[i] # <<>> /\ ~is_monochar(bitmaps[i], 1)}
<1>1. lost = Ascending(S)
  BY DEF lost_windows
<1>2. w \in S /\ S \subseteq 0..wdw
  OBVIOUS
<1> HIDE DEF S
<1>3. IsFiniteSet(0..wdw)
  BY FS_Interval
<1>4. IsFiniteSet(S) /\ S \in SUBSET Int
  <2>1. S \in SUBSET (0..wdw) /\ 0..wdw \subseteq Int
    BY <1>2
  <2>2. IsFiniteSet(S)
    BY <1>3, <2>1, FS_Subset
  <2> QED  BY <2>1, <2>2
<1> QED  BY <1>1, <1>2, <1>4, AscendingOnto

LEMMA ListedIsLoss ==
    ASSUME NEW wdw \in Nat, NEW bitmaps,
           NEW lost, lost = lost_windows(wdw, bitmaps), NEW k \in 1..Len(lost)
    PROVE  lost[k] \in 0..wdw /\ bitmaps[lost[k]] # <<>>
<1> DEFINE S == {i \in 0..wdw : bitmaps[i] # <<>> /\ ~is_monochar(bitmaps[i], 1)}
<1>1. lost = Ascending(S)
  BY DEF lost_windows
<1>2. S \subseteq 0..wdw /\ \A w \in S : bitmaps[w] # <<>>
  OBVIOUS
<1> HIDE DEF S
<1>3. IsFiniteSet(0..wdw)
  BY FS_Interval
<1>4. IsFiniteSet(S) /\ S \in SUBSET Int
  <2>1. S \in SUBSET (0..wdw) /\ 0..wdw \subseteq Int
    BY <1>2
  <2>2. IsFiniteSet(S)
    BY <1>3, <2>1, FS_Subset
  <2> QED  BY <2>1, <2>2
<1>5. lost \in Seq(S)
  BY <1>1, <1>4, AscendingProperties
<1>6. lost[k] \in S
  BY <1>5, ElementOfSeq
<1> QED  BY <1>2, <1>6

\* The n bits of s are in the message of a from bit p on.
Holds(a, p, s, n) == BitString(s, n) /\ \A j \in 1..n : a.message[p + j] = s[j]

LEMMA FieldRead ==
    ASSUME NEW a, BitString(a.message, 64), NEW p \in Nat, NEW n \in Nat,
           p + n <= 64, NEW s, Holds(a, p, s, n)
    PROVE  Field(a, p, n) = s
<1> DEFINE f == SubSeq(a.message, p + 1, p + n)
<1>1. IsCut(f, a.message, p, n)
  BY Cut
<1>2. Field(a, p, n) = f
  BY DEF Field
<1> HIDE DEF f
<1>3. BitString(f, n) /\ BitString(s, n) /\ \A k \in 1..n : f[k] = s[k]
  BY <1>1 DEF IsCut, Holds
<1> QED  BY <1>2, <1>3, Equal

\* The message of a: a header, a bitmap, and n (window, bitmap) tuples.
Lays(a, head, h, first, ws, windows, rest, m, n) ==
    /\ BitString(a.message, 64) /\ a.byte_size = 8
    /\ \A k \in 1..h : a.message[k] = head[k]
    /\ Holds(a, h, first, ws)
    /\ \A k \in 1..n :
           /\ Holds(a, h + ws + Behind(k, m + ws), windows[k], m)
           /\ Holds(a, h + ws + Behind(k, m + ws) + m, rest[k], ws)
    /\ \A k \in h + ws + Behind(n + 1, m + ws) + 1..64 : a.message[k] = 0

\* What such a message is made of.
Parts(head, h, first, ws, windows, rest, ts, m, n) ==
    /\ BitString(head, h) /\ BitString(first, ws)
    /\ ts = [k \in 1..n |-> ts[k]]
    /\ \A k \in 1..n : /\ BitString(windows[k], m) /\ BitString(rest[k], ws)
                       /\ ts[k] = windows[k] \o rest[k]

LEMMA Laid ==
    ASSUME NEW h \in Nat, NEW ws \in Nat, NEW m \in Nat, NEW n \in 0..3,
           NEW s \in Nat, s = m + ws, NEW len \in Nat, len = Behind(n + 1, s),
           h + ws + len <= 64,
           NEW head, NEW first, NEW windows, NEW rest, NEW ts,
           Parts(head, h, first, ws, windows, rest, ts, m, n)
    PROVE  Lays(Downlink(head \o first \o FlattenSeq(ts)),
                head, h, first, ws, windows, rest, m, n)
<1> DEFINE front == head \o first
           more  == FlattenSeq(ts)
           bits  == front \o more
           a     == Downlink(bits)
<1>3. h + ws \in Nat /\ h + ws + len \in 0..64
  OBVIOUS
<1>4. ASSUME NEW k \in 1..n
      PROVE  /\ Joins(ts[k], windows[k], m, rest[k], ws)
             /\ BitString(windows[k], m) /\ BitString(rest[k], ws)
  <2>1. /\ ts[k] = windows[k] \o rest[k]
        /\ BitString(windows[k], m) /\ BitString(rest[k], ws)
    BY DEF Parts
  <2> QED  BY <2>1, Joined
<1>5. Tiles(more, ts, n, s)
  <2>1. \A k \in 1..n : BitString(ts[k], s)
    BY <1>4 DEF Joins
  <2>2. ts = [k \in 1..n |-> ts[k]]
    BY DEF Parts
  <2> QED  BY <2>1, <2>2, Flattened
<1> HIDE DEF more
<1>6. Joins(front, head, h, first, ws)
  BY Joined DEF Parts
<1> HIDE DEF front
<1>7. Joins(bits, front, h + ws, more, len)
  <2>1. BitString(front, h + ws)
    BY <1>6 DEF Joins
  <2>2. BitString(more, len)
    BY <1>5 DEF Tiles
  <2> QED  BY <1>3, <2>1, <2>2, Joined
<1> HIDE DEF bits
<1>8. Carries(a, bits, h + ws + len)
  <2>1. BitString(bits, h + ws + len)
    BY <1>7 DEF Joins
  <2> QED  BY <1>3, <2>1, Sent
<1> HIDE DEF a
<1>9. \A k \in 1..h : a.message[k] = head[k]
  <2> TAKE k \in 1..h
  <2>1. k \in 1..h + ws /\ k \in 1..h + ws + len
    OBVIOUS
  <2>2. a.message[k] = bits[k] /\ bits[k] = front[k] /\ front[k] = head[k]
    BY <1>6, <1>7, <1>8, <2>1 DEF Joins, Carries
  <2> QED  BY <2>2
<1>10. Holds(a, h, first, ws)
  <2>1. ASSUME NEW j \in 1..ws PROVE a.message[h + j] = first[j]
    <3>1. h + j \in 1..h + ws /\ h + j \in 1..h + ws + len
      OBVIOUS
    <3>2. a.message[h + j] = bits[h + j]
      BY <1>8, <3>1 DEF Carries
    <3>3. bits[h + j] = front[h + j]
      BY <1>7, <3>1 DEF Joins
    <3>4. front[h + j] = first[j]
      BY <1>6 DEF Joins
    <3> QED  BY <3>2, <3>3, <3>4
  <2>2. BitString(first, ws)
    BY DEF Parts
  <2> QED  BY <2>1, <2>2 DEF Holds
<1>11. ASSUME NEW k \in 1..n, NEW d \in Nat, d = h + ws + Behind(k, s)
       PROVE  Holds(a, d, windows[k], m) /\ Holds(a, d + m, rest[k], ws)
  <2>1. PICK e \in Nat : e = Behind(k, s) /\ e + s <= len
    <3>1. n + 1 \in 1..4 /\ k \in 1..(n + 1) - 1
      OBVIOUS
    <3> QED  BY <3>1, StrideBounds
  <2>3. ASSUME NEW j \in 1..s PROVE a.message[d + j] = ts[k][j]
    <3>1. PICK i \in 1..len : i = e + j
      BY <2>1
    <3>2. d + j = (h + ws) + i /\ d + j \in 1..h + ws + len
      BY <1>11, <2>1, <3>1
    <3>3. a.message[d + j] = bits[d + j]
      BY <1>8, <3>2 DEF Carries
    <3>4. bits[(h + ws) + i] = more[i]
      BY <1>7 DEF Joins
    <3>5. more[Behind(k, s) + j] = ts[k][j]
      BY <1>5 DEF Tiles
    <3>6. more[i] = ts[k][j]
      BY <2>1, <3>1, <3>5
    <3> QED  BY <3>2, <3>3, <3>4, <3>6
  <2>4. Joins(ts[k], windows[k], m, rest[k], ws)
    BY <1>4
  <2>5. \A j \in 1..m : a.message[d + j] = windows[k][j]
    <3> TAKE j \in 1..m
    <3>1. j \in 1..s
      OBVIOUS
    <3> QED  BY <2>3, <2>4, <3>1 DEF Joins
  <2>6. \A j \in 1..ws : a.message[(d + m) + j] = rest[k][j]
    <3> TAKE j \in 1..ws
    <3>1. PICK i \in 1..s : i = m + j /\ d + i = (d + m) + j
      OBVIOUS
    <3>2. ts[k][m + j] = rest[k][j]
      BY <2>4 DEF Joins
    <3> QED  BY <2>3, <3>1, <3>2
  <2> QED  BY <1>4, <2>5, <2>6 DEF Holds
<1>12. \A k \in h + ws + Behind(n + 1, m + ws) + 1..64 : a.message[k] = 0
  <2>1. \A k \in h + ws + len + 1..64 : a.message[k] = 0
    BY <1>8 DEF Carries
  <2> QED  BY <2>1
<1>13. ASSUME NEW k \in 1..n
       PROVE  /\ Holds(a, h + ws + Behind(k, m + ws), windows[k], m)
              /\ Holds(a, h + ws + Behind(k, m + ws) + m, rest[k], ws)
  <2>1. PICK e \in Nat : e = Behind(k, s)
    <3>1. k \in 1..4
      OBVIOUS
    <3> QED  BY <3>1, StrideBounds
  <2>2. PICK d \in Nat : d = h + ws + e
    OBVIOUS
  <2>3. Holds(a, d, windows[k], m) /\ Holds(a, d + m, rest[k], ws)
    BY <1>11, <2>1, <2>2
  <2>4. d = h + ws + Behind(k, m + ws)
    BY <2>1, <2>2
  <2> QED  BY <2>3, <2>4
<1>14. BitString(a.message, 64) /\ a.byte_size = 8
  BY <1>8 DEF Carries
<1>15. Lays(a, head, h, first, ws, windows, rest, m, n)
  BY <1>9, <1>10, <1>12, <1>13, <1>14 DEF Lays
<1> QED  BY <1>15 DEF a, bits, front, more

\* As many tuples as the message has room for, of those there are.
NbReported(r, lost) == IF Len(lost) <= tuple_capacity(r) THEN Len(lost)
                     ELSE tuple_capacity(r)

\* a reports the first of the lost windows, as many as there is room for.
Reports(a, r, lost, bitmaps) ==
    Lays(a, Header(r, lost[1], 0), r.ack_header_len, bitmaps[lost[1]], r.window_size,
         [k \in 1..NbReported(r, lost) - 1 |-> int_to_bin(lost[k + 1], r.m)],
         [k \in 1..NbReported(r, lost) - 1 |-> bitmaps[lost[k + 1]]],
         r.m, NbReported(r, lost) - 1)

LEMMA Capacity ==
    ASSUME NEW r \in Rules
    PROVE  \/ r.rule_id_size = 3 /\ tuple_capacity(r) = 6
           \/ r.rule_id_size = 6 /\ tuple_capacity(r) = 4
           \/ r.rule_id_size = 8 /\ tuple_capacity(r) = 1
BY Layouts DEF tuple_capacity, tuple_size, DOWNLINK_MTU_BITS

\* There is room in the message for what is reported.
LEMMA Room ==
    ASSUME NEW r \in Rules, NEW q \in Nat, q > 0, q <= tuple_capacity(r),
           q <= r.max_window_nb, NEW s \in Nat, s = r.m + r.window_size
    PROVE  /\ q - 1 \in 0..3 /\ Behind(q, s) \in Nat
           /\ r.ack_header_len + r.window_size + Behind(q, s) <= 64
<1>1. q \in 1..4 /\ (r.rule_id_size = 8 => q = 1)
  BY Layouts, Capacity
<1>2. q \in {1, 2, 3, 4} /\ q - 1 \in 0..3
  BY <1>1
<1>3. r.ack_header_len + r.window_size + Behind(q, s) <= 64
  BY <1>1, <1>2, Layouts, Strides
<1>4. Behind(q, s) \in Nat
  BY <1>1, StrideBounds
<1> QED  BY <1>2, <1>3, <1>4

LEMMA LossesSent ==
    ASSUME NEW r \in Rules, NEW wdw, NEW bitmaps, Reportable(r, wdw, bitmaps),
           NEW lost, lost = lost_windows(wdw, bitmaps), lost # <<>>
    PROVE  Reports(generate_ack(r, wdw, 0, bitmaps), r, lost, bitmaps)
<1>1. PICK ws \in Nat, m \in 0..8, h \in Nat, mx \in Nat, cap \in Nat :
          /\ ws = r.window_size /\ m = r.m /\ h = r.ack_header_len
          /\ mx = r.max_window_nb /\ cap = tuple_capacity(r) /\ cap > 0
  BY Layouts, Capacity
<1>2. /\ lost \in Seq(0..mx - 1) /\ Len(lost) <= mx /\ Len(lost) \in Nat
      /\ \A k \in 1..Len(lost) : BitString(bitmaps[lost[k]], ws)
  BY <1>1, LostWindows
<1>3. Len(lost) > 0
  BY <1>2, EmptySeq
<1>4. PICK q \in Nat : q = NbReported(r, lost) /\ q > 0 /\ q <= Len(lost) /\ q <= cap
  BY <1>1, <1>2, <1>3 DEF NbReported
<1> DEFINE reported == SubSeq(lost, 1, q)
           tuple(k) == int_to_bin(reported[k], r.m) \o bitmaps[reported[k]]
           ts == [k \in 1..q - 1 |-> tuple(k + 1)]
           head == Header(r, lost[1], 0)
           windows == [k \in 1..q - 1 |-> int_to_bin(lost[k + 1], r.m)]
           rest == [k \in 1..q - 1 |-> bitmaps[lost[k + 1]]]
           a == generate_ack(r, wdw, 0, bitmaps)
<1>5. Len(reported) = q /\ \A k \in 1..q : reported[k] = lost[k]
  <2>1. \A k \in 1..q : lost[k] \in 0..mx - 1
    BY <1>2, <1>4, ElementOfSeq
  <2>2. /\ Len(SubSeq(lost, 1, q)) = IF 1 <= q THEN q - 1 + 1 ELSE 0
        /\ \A k \in 1..q - 1 + 1 : SubSeq(lost, 1, q)[k] = lost[1 + k - 1]
    BY <2>1, SubSeqProperties
  <2>3. \A k \in 1..q : k \in 1..q - 1 + 1 /\ 1 + k - 1 = k
    OBVIOUS
  <2>4. Len(SubSeq(lost, 1, q)) = q
    BY <1>4, <2>2
  <2>5. \A k \in 1..q : SubSeq(lost, 1, q)[k] = lost[k]
    BY <2>2, <2>3
  <2> HIDE DEF reported
  <2> QED  BY <2>4, <2>5 DEF reported
<1>6. a = Downlink(head \o bitmaps[lost[1]] \o FlattenSeq(ts))
  <2>1. SubSeq(lost, 1, IF Len(lost) <= tuple_capacity(r) THEN Len(lost)
                        ELSE tuple_capacity(r)) = reported
    BY <1>4 DEF NbReported
  <2> HIDE DEF reported
  <2>2. a = LET first == lost[1]
            IN  Downlink(get_rule_id_bin(r) \o int_to_bin(first, r.m) \o <<0>>
                         \o bitmaps[first]
                         \o FlattenSeq([k \in 1..Len(reported) - 1 |-> tuple(k + 1)]))
    <3>1. 0 # 1
      OBVIOUS
    <3> QED  BY <2>1, <3>1, Zenon DEF generate_ack
  <2> QED  BY <1>5, <2>2 DEF Header
<1>7. lost[1] \in Int /\ 0 \in Bits
  BY <1>2, <1>3, ElementOfSeq DEF Bits
<1>8. BitString(head, h) /\ BitString(bitmaps[lost[1]], ws)
  <2>1. PICK x \in Int : x = lost[1]
    BY <1>7
  <2>2. BitString(Header(r, x, 0), r.ack_header_len)
    BY <1>7, HeaderBits
  <2>3. BitString(bitmaps[x], ws)
    BY <1>2, <1>3, <2>1
  <2> QED  BY <1>1, <2>1, <2>2, <2>3
<1>9. ASSUME NEW k \in 1..q - 1
      PROVE  /\ BitString(windows[k], m) /\ BitString(rest[k], ws)
             /\ ts[k] = windows[k] \o rest[k]
  <2>1. k + 1 \in 1..q /\ k + 1 \in 1..Len(lost)
    BY <1>2, <1>4
  <2>2. lost[k + 1] \in 0..mx - 1
    BY <1>2, <2>1, ElementOfSeq
  <2>3. PICK x \in Int : x = lost[k + 1]
    BY <2>2
  <2>4. BitString(int_to_bin(x, m), m)
    BY BinaryString
  <2>5. BitString(bitmaps[x], ws)
    BY <1>2, <2>1, <2>3
  <2>6. windows[k] = int_to_bin(x, m) /\ rest[k] = bitmaps[x]
    BY <1>1, <2>3
  <2>7. ts[k] = int_to_bin(x, m) \o bitmaps[x]
    <3>1. reported[k + 1] = x
      BY <1>5, <2>1, <2>3
    <3> HIDE DEF reported
    <3> QED  BY <1>1, <3>1
  <2> HIDE DEF ts, windows, rest
  <2> QED  BY <2>4, <2>5, <2>6, <2>7
<1>10. PICK n \in 0..3, s \in Nat, len \in Nat :
           /\ n = q - 1 /\ s = m + ws /\ len = Behind(n + 1, s) /\ h + ws + len <= 64
  <2>1. PICK s \in Nat : s = m + ws
    OBVIOUS
  <2>2. q <= tuple_capacity(r) /\ q <= r.max_window_nb /\ s = r.m + r.window_size
    BY <1>1, <1>2, <1>4, <2>1
  <2>3. /\ q - 1 \in 0..3 /\ Behind(q, s) \in Nat
        /\ r.ack_header_len + r.window_size + Behind(q, s) <= 64
    BY <1>4, <2>2, Room
  <2>4. (q - 1) + 1 = q
    OBVIOUS
  <2> QED  BY <1>1, <2>1, <2>3, <2>4
<1>11. ts = [k \in 1..q - 1 |-> ts[k]]
  OBVIOUS
<1> HIDE DEF ts, windows, rest, head, a
<1>12. Lays(a, head, h, bitmaps[lost[1]], ws, windows, rest, m, n)
  <2>1. Parts(head, h, bitmaps[lost[1]], ws, windows, rest, ts, m, n)
    BY <1>8, <1>9, <1>10, <1>11 DEF Parts
  <2>2. m \in Nat
    OBVIOUS
  <2>3. Lays(Downlink(head \o bitmaps[lost[1]] \o FlattenSeq(ts)),
             head, h, bitmaps[lost[1]], ws, windows, rest, m, n)
    BY <1>10, <2>1, <2>2, Laid
  <2> QED  BY <1>6, <2>3
<1> QED  BY <1>1, <1>4, <1>10, <1>12 DEF Reports, a, head, windows, rest

\* A window is written in the m bits of a W field, and read back.
LEMMA WindowRead ==
    ASSUME NEW r \in Rules, NEW x \in 0..r.max_window_nb - 1
    PROVE  /\ bin_to_int(int_to_bin(x, r.m)) = x
           /\ is_monochar(int_to_bin(x, r.m), 0) => x = 0
<1>0. x \in Int
  BY Layouts
<1>1. CASE r.m = 2
  <2> DEFINE b == int_to_bin(x, 2)
  <2>1. x \in 0..3
    BY <1>1, Layouts
  <2>2. BitString(b, 2) /\ b[1] = (x \div 2) % 2 /\ b[2] = x % 2
    BY <1>0, Binary2, BinaryString
  <2> HIDE DEF b
  <2>3. bin_to_int(b) = 2 * b[1] + b[2]
    BY <2>2, Value2
  <2>4. bin_to_int(b) = x
    BY <2>1, <2>2, <2>3
  <2>5. is_monochar(b, 0) => b[1] = 0 /\ b[2] = 0
    BY <2>2, Monochar
  <2>6. is_monochar(b, 0) => x = 0
    BY <2>1, <2>2, <2>5
  <2> QED  BY <1>1, <2>4, <2>6 DEF b
<1>2. CASE r.m = 3
  <2> DEFINE b == int_to_bin(x, 3)
  <2>1. x \in 0..7
    BY <1>2, Layouts
  <2>2. /\ BitString(b, 3) /\ b[1] = (x \div 4) % 2 /\ b[2] = (x \div 2) % 2
        /\ b[3] = x % 2
    BY <1>0, Binary3, BinaryString
  <2> HIDE DEF b
  <2>3. bin_to_int(b) = 4 * b[1] + 2 * b[2] + b[3]
    BY <2>2, Value3
  <2>4. bin_to_int(b) = x
    BY <2>1, <2>2, <2>3
  <2>5. is_monochar(b, 0) => b[1] = 0 /\ b[2] = 0 /\ b[3] = 0
    BY <2>2, Monochar
  <2>6. is_monochar(b, 0) => x = 0
    BY <2>1, <2>2, <2>5
  <2> QED  BY <1>2, <2>4, <2>6 DEF b
<1> QED  BY <1>1, <1>2, Layouts

\* Where get_ack_nb_tuples stops.
Ends(r, a, k) ==
    \/ tuple_at(r, k) >= DOWNLINK_MTU_BITS - r.tuple_idx
    \/ is_monochar(Field(a, tuple_at(r, k), r.m), 0)

LEMMA FirstEnd ==
    ASSUME NEW r, NEW a, NEW n \in 1..64, Ends(r, a, n),
           \A k \in 1..n - 1 : ~Ends(r, a, k)
    PROVE  get_ack_nb_tuples(r, a) = n
<1> DEFINE First(x) == Ends(r, a, x) /\ \A k \in 1..x - 1 : ~Ends(r, a, k)
<1>1. get_ack_nb_tuples(r, a) = CHOOSE x \in 1..64 : First(x)
  BY DEF get_ack_nb_tuples, Ends, DOWNLINK_MTU_BITS
<1>2. First(n)
  OBVIOUS
<1>3. ASSUME NEW x \in 1..64, First(x) PROVE x = n
  <2>1. ~(x < n)
    <3> SUFFICES ASSUME x < n PROVE FALSE
      OBVIOUS
    <3>1. x \in 1..n - 1
      OBVIOUS
    <3> QED  BY <1>3, <3>1
  <2>2. ~(n < x)
    <3> SUFFICES ASSUME n < x PROVE FALSE
      OBVIOUS
    <3>1. n \in 1..x - 1
      OBVIOUS
    <3> QED  BY <1>2, <1>3, <3>1
  <2> QED  BY <2>1, <2>2
<1> HIDE DEF First
<1> QED  BY <1>1, <1>2, <1>3

LEMMA TuplePlace ==
    ASSUME NEW r \in Rules, NEW k \in 1..4
    PROVE  tuple_at(r, k) = r.ack_header_len + r.window_size
                            + Behind(k, r.m + r.window_size)
BY Layouts DEF tuple_at, tuple_size, Behind

\* As many tuples as the sender reads, whatever the message has room for.
ReadLimit(r) == CASE r.rule_id_size = 3 -> 4 [] r.rule_id_size = 6 -> 3
                  [] r.rule_id_size = 8 -> 1

ReadFrom(r, lost) == IF Len(lost) <= ReadLimit(r) THEN Len(lost) ELSE ReadLimit(r)

\* The losses as LostWindows gives them.
Losses(r, lost) ==
    /\ lost \in Seq(0..r.max_window_nb - 1)
    /\ Len(lost) > 0 /\ Len(lost) <= r.max_window_nb
    /\ \A i, j \in 1..Len(lost) : i < j => lost[i] < lost[j]

LEMMA Amounts ==
    ASSUME NEW r \in Rules, NEW lost, Losses(r, lost)
    PROVE  /\ ReadFrom(r, lost) \in 1..4 /\ NbReported(r, lost) \in 1..4
           /\ ReadFrom(r, lost) <= NbReported(r, lost)
           /\ NbReported(r, lost) <= Len(lost) /\ Len(lost) \in Nat
           /\ ReadFrom(r, lost) # NbReported(r, lost) =>
                  ReadFrom(r, lost) = ReadLimit(r)
<1>1. PICK n \in Nat : n = Len(lost) /\ n > 0 /\ n <= r.max_window_nb
  BY DEF Losses
<1>2. \/ n <= 4 /\ ReadLimit(r) = 4 /\ tuple_capacity(r) = 6
      \/ n <= 4 /\ ReadLimit(r) = 3 /\ tuple_capacity(r) = 4
      \/ ReadLimit(r) = 1 /\ tuple_capacity(r) = 1
  BY <1>1, Layouts, Capacity DEF ReadLimit
<1>3. /\ ReadFrom(r, lost) = IF n <= ReadLimit(r) THEN n ELSE ReadLimit(r)
      /\ NbReported(r, lost) = IF n <= tuple_capacity(r) THEN n ELSE tuple_capacity(r)
  BY <1>1 DEF ReadFrom, NbReported
<1> QED  BY <1>1, <1>2, <1>3

\* The fields of the tuples that are read.
LEMMA TupleFields ==
    ASSUME NEW r \in Rules, NEW lost, Losses(r, lost), NEW bitmaps, NEW a,
           Reports(a, r, lost, bitmaps), NEW k \in 1..NbReported(r, lost) - 1
    PROVE  /\ Field(a, tuple_at(r, k), r.m) = int_to_bin(lost[k + 1], r.m)
           /\ Field(a, tuple_at(r, k) + r.m, r.window_size) = bitmaps[lost[k + 1]]
<1>1. PICK ws \in Nat, m \in Nat, h \in Nat, s \in Nat :
          /\ ws = r.window_size /\ m = r.m /\ h = r.ack_header_len /\ s = m + ws
  BY Layouts
<1>2. PICK q \in 1..4 : /\ q = NbReported(r, lost) /\ q <= tuple_capacity(r)
                        /\ q <= r.max_window_nb
  <2>1. Len(lost) <= r.max_window_nb /\ NbReported(r, lost) \in 1..4
        /\ NbReported(r, lost) <= Len(lost) /\ Len(lost) \in Nat
    BY Amounts DEF Losses
  <2>2. NbReported(r, lost) <= tuple_capacity(r)
    BY <2>1, Capacity DEF NbReported
  <2> QED  BY <2>1, <2>2, Layouts
<1>3. PICK i \in 1..3 : i = k /\ i \in 1..q - 1
  BY <1>2
<1>4. PICK e \in Nat : e = Behind(i, s) /\ h + ws + e + s <= 64
  <2>1. Behind(q, s) \in Nat /\ h + ws + Behind(q, s) <= 64
    BY <1>1, <1>2, Room
  <2>2. Behind(i, s) \in Nat /\ Behind(i, s) + s <= Behind(q, s)
    BY <1>3, StrideBounds
  <2> QED  BY <2>1, <2>2
<1>5. PICK p \in Nat : p = tuple_at(r, i) /\ p = h + ws + e
  BY <1>1, <1>4, TuplePlace
<1>6. /\ BitString(a.message, 64)
      /\ Holds(a, p, int_to_bin(lost[i + 1], m), m)
      /\ Holds(a, p + m, bitmaps[lost[i + 1]], ws)
  BY <1>1, <1>2, <1>3, <1>4, <1>5 DEF Reports, Lays
<1>7. p + m <= 64 /\ p + m + ws <= 64 /\ p + m \in Nat
  BY <1>1, <1>4, <1>5
<1>8. Field(a, p, m) = int_to_bin(lost[i + 1], m)
  BY <1>6, <1>7, FieldRead
<1>9. Field(a, p + m, ws) = bitmaps[lost[i + 1]]
  BY <1>6, <1>7, FieldRead
<1> QED  BY <1>1, <1>3, <1>5, <1>8, <1>9

\* What follows the last tuple is read as zeros.
LEMMA EndFields ==
    ASSUME NEW r \in Rules, NEW lost, Losses(r, lost), NEW bitmaps, NEW a,
           Reports(a, r, lost, bitmaps),
           tuple_at(r, NbReported(r, lost)) + r.m <= 64
    PROVE  is_monochar(Field(a, tuple_at(r, NbReported(r, lost)), r.m), 0)
<1>1. PICK ws \in Nat, m \in Nat, h \in Nat, s \in Nat :
          /\ ws = r.window_size /\ m = r.m /\ h = r.ack_header_len /\ s = m + ws
          /\ m > 0
  BY Layouts
<1>2. PICK q \in 1..4 : q = NbReported(r, lost)
  BY Amounts
<1>3. PICK e \in Nat : e = Behind(q, s)
  BY StrideBounds
<1>4. PICK p \in Nat : p = tuple_at(r, q) /\ p = h + ws + e /\ p + m <= 64
  BY <1>1, <1>2, <1>3, TuplePlace
<1>5. BitString(a.message, 64) /\ \A k \in p + 1..64 : a.message[k] = 0
  <2>1. (q - 1) + 1 = q
    OBVIOUS
  <2> QED  BY <1>1, <1>2, <1>3, <1>4, <2>1 DEF Reports, Lays
<1>6. Holds(a, p, Zeros(m), m)
  <2>1. \A j \in 1..m : a.message[p + j] = 0
    BY <1>4, <1>5
  <2> QED  BY <2>1, Constants DEF Holds
<1>7. Field(a, p, m) = Zeros(m)
  BY <1>4, <1>5, <1>6, FieldRead
<1>8. is_monochar(Zeros(m), 0)
  BY <1>1, Constants, Monochar
<1> QED  BY <1>1, <1>2, <1>4, <1>7, <1>8

LEMMA TuplesCounted ==
    ASSUME NEW r \in Rules, NEW lost, Losses(r, lost), NEW bitmaps, NEW a,
           Reports(a, r, lost, bitmaps)
    PROVE  get_ack_nb_tuples(r, a) = ReadFrom(r, lost)
<1>1. PICK n \in 1..4, q \in 1..4 :
          /\ n = ReadFrom(r, lost) /\ q = NbReported(r, lost) /\ n <= q
          /\ n # q => n = ReadLimit(r)
          /\ q <= Len(lost) /\ Len(lost) \in Nat
  BY Amounts
<1>2. ASSUME NEW k \in 1..n - 1 PROVE ~Ends(r, a, k)
  <2>1. k \in 1..q - 1 /\ k \in {1, 2, 3} /\ k + 1 \in 1..Len(lost)
        /\ 1 \in 1..Len(lost)
    BY <1>1
  <2>2. lost[1] < lost[k + 1]
    BY <2>1 DEF Losses
  <2>3. PICK x \in 0..r.max_window_nb - 1 : x = lost[k + 1] /\ x # 0
    <3>1. lost[1] \in 0..r.max_window_nb - 1 /\ lost[k + 1] \in 0..r.max_window_nb - 1
      BY <2>1, ElementOfSeq DEF Losses
    <3> QED  BY <2>2, <3>1, Layouts
  <2>4. ~is_monochar(Field(a, tuple_at(r, k), r.m), 0)
    <3>1. Field(a, tuple_at(r, k), r.m) = int_to_bin(x, r.m)
      BY <1>1, <2>1, <2>3, TupleFields
    <3> QED  BY <2>3, <3>1, WindowRead
  <2>5. ~(tuple_at(r, k) >= 64 - r.tuple_idx)
    <3>1. n <= ReadLimit(r)
      BY <1>1, Layouts DEF ReadFrom, ReadLimit
    <3>2. \/ r.rule_id_size = 3 /\ n <= 4
          \/ r.rule_id_size = 6 /\ n <= 3
      BY <2>1, <3>1, Layouts DEF ReadLimit
    <3> QED  BY <2>1, <3>2, Layouts DEF tuple_at, tuple_size
  <2> QED  BY <2>4, <2>5 DEF Ends, DOWNLINK_MTU_BITS
<1>3. Ends(r, a, n)
  <2>1. \/ n = ReadLimit(r) /\ r.rule_id_size # 3
        \/ n = q /\ tuple_at(r, q) + r.m <= 64
    <3>1. \/ r.rule_id_size = 3 /\ n = q
          \/ r.rule_id_size = 6 /\ n = q /\ q <= 2
          \/ r.rule_id_size # 3 /\ n = ReadLimit(r)
      BY <1>1, Layouts DEF ReadLimit, ReadFrom, Losses
    <3> QED  BY <3>1, Layouts DEF tuple_at, tuple_size
  <2>2. CASE n = ReadLimit(r) /\ r.rule_id_size # 3
    <3>1. tuple_at(r, n) >= 64 - r.tuple_idx
      BY <2>2, Layouts DEF ReadLimit, tuple_at, tuple_size
    <3> QED  BY <3>1 DEF Ends, DOWNLINK_MTU_BITS
  <2>3. CASE n = q /\ tuple_at(r, q) + r.m <= 64
    BY <1>1, <2>3, EndFields DEF Ends
  <2> QED  BY <2>1, <2>2, <2>3
<1>4. n \in 1..64
  OBVIOUS
<1> QED  BY <1>1, <1>2, <1>3, <1>4, FirstEnd

\* The header of what generate_ack writes for C=0.
LEMMA ReportHeader ==
    ASSUME NEW r \in Rules, NEW wdw, NEW bitmaps, Reportable(r, wdw, bitmaps),
           NEW a, a = generate_ack(r, wdw, 0, bitmaps)
    PROVE  /\ BitString(a.message, 64) /\ a.byte_size = 8
           /\ get_ack_c(r, a) = << 0 >>
           /\ \A k \in 1..r.rule_id_size : a.message[k] = get_rule_id_bin(r)[k]
<1>1. PICK lost : lost = lost_windows(wdw, bitmaps)
  OBVIOUS
<1>2. PICK h \in 0..64 : h = r.ack_header_len
  BY Layouts
<1>3. \E x \in Int : /\ BitString(a.message, 64) /\ a.byte_size = 8
                     /\ \A k \in 1..h : a.message[k] = Header(r, x, 0)[k]
  <2>1. CASE lost = <<>>
    <3>1. a = Downlink(Header(r, 0, 0))
      <4>1. 0 # 1
        OBVIOUS
      <4> QED  BY <1>1, <2>1, <4>1, Zenon DEF generate_ack, Header
    <3>2. BitString(Header(r, 0, 0), h)
      BY <1>2, HeaderBits DEF Bits
    <3>3. Carries(a, Header(r, 0, 0), h)
      BY <3>1, <3>2, Sent
    <3> QED  BY <3>3 DEF Carries
  <2>2. CASE lost # <<>>
    <3>1. Reports(a, r, lost, bitmaps)
      BY <1>1, <2>2, LossesSent
    <3>2. lost[1] \in Int
      <4>1. lost \in Seq(0..r.max_window_nb - 1)
        BY <1>1, LostWindows
      <4>2. 1 \in 1..Len(lost)
        BY <2>2, <4>1, EmptySeq
      <4> QED  BY <4>1, <4>2, ElementOfSeq, Layouts
    <3>3. /\ BitString(a.message, 64) /\ a.byte_size = 8
          /\ \A k \in 1..h : a.message[k] = Header(r, lost[1], 0)[k]
      BY <1>2, <3>1 DEF Reports, Lays
    <3> QED  BY <3>2, <3>3
  <2> QED  BY <2>1, <2>2
<1>4. PICK x \in Int : /\ BitString(a.message, 64) /\ a.byte_size = 8
                       /\ \A k \in 1..r.ack_header_len : a.message[k] = Header(r, x, 0)[k]
  BY <1>2, <1>3
<1>5. 0 \in Bits
  BY DEF Bits
<1>6. /\ get_ack_c(r, a) = << 0 >>
      /\ \A k \in 1..r.rule_id_size : a.message[k] = get_rule_id_bin(r)[k]
  <2>1. BitString(a.message, 64)
    BY <1>4
  <2>2. \A k \in 1..r.ack_header_len : a.message[k] = Header(r, x, 0)[k]
    BY <1>4
  <2>3. PICK c \in Bits : c = 0
    BY <1>5
  <2>4. \A k \in 1..r.ack_header_len : a.message[k] = Header(r, x, c)[k]
    BY <2>2, <2>3
  <2>5. /\ get_ack_c(r, a) = <<c>>
        /\ \A k \in 1..r.rule_id_size : a.message[k] = get_rule_id_bin(r)[k]
    BY <2>1, <2>4, HeaderRead
  <2> QED  BY <2>3, <2>5
<1> QED  BY <1>4, <1>6

\* What the sender reads of a report are the first of the lost windows and their
\* bitmaps.
LEMMA ReportRead ==
    ASSUME NEW r \in Rules, NEW wdw, NEW bitmaps, Reportable(r, wdw, bitmaps),
           NEW lost, lost = lost_windows(wdw, bitmaps), lost # <<>>,
           NEW a, a = generate_ack(r, wdw, 0, bitmaps),
           NEW n, n = get_ack_nb_tuples(r, a)
    PROVE  /\ n = ReadFrom(r, lost) /\ n \in 1..4 /\ n <= Len(lost)
           /\ get_ack_tuples(r, a, n)
                  = [k \in 1..n |-> [window |-> lost[k], bitmap |-> bitmaps[lost[k]]]]
<1>1. Losses(r, lost)
  <2>1. /\ lost \in Seq(0..r.max_window_nb - 1) /\ Len(lost) <= r.max_window_nb
        /\ \A i, j \in 1..Len(lost) : i < j => lost[i] < lost[j]
    BY LostWindows
  <2>2. Len(lost) > 0
    BY <2>1, EmptySeq
  <2> QED  BY <2>1, <2>2 DEF Losses
<1>2. Reports(a, r, lost, bitmaps)
  BY LossesSent
<1>3. /\ n = ReadFrom(r, lost) /\ n \in 1..4 /\ n <= NbReported(r, lost)
      /\ NbReported(r, lost) \in 1..4 /\ n <= Len(lost) /\ Len(lost) \in Nat
  BY <1>1, <1>2, TuplesCounted, Amounts
<1>4. ASSUME NEW k \in 1..n
      PROVE  lost[k] \in 0..r.max_window_nb - 1
  <2>1. k \in 1..Len(lost)
    BY <1>3
  <2> QED  BY <1>1, <2>1, ElementOfSeq DEF Losses
<1>5. /\ bin_to_int(get_ack_w(r, a)) = lost[1]
      /\ get_ack_bitmap(r, a) = bitmaps[lost[1]]
  <2>1. PICK x \in 0..r.max_window_nb - 1 : x = lost[1]
    BY <1>3, <1>4
  <2>2. x \in Int /\ 0 \in Bits
    BY Layouts DEF Bits
  <2>3. /\ BitString(a.message, 64)
        /\ \A k \in 1..r.ack_header_len : a.message[k] = Header(r, x, 0)[k]
        /\ Holds(a, r.ack_header_len, bitmaps[x], r.window_size)
    BY <1>2, <2>1 DEF Reports, Lays
  <2>4. get_ack_w(r, a) = int_to_bin(x, r.m)
    BY <2>2, <2>3, HeaderRead
  <2>5. Field(a, r.ack_header_len, r.window_size) = bitmaps[x]
    BY <2>3, Layouts, FieldRead
  <2> QED  BY <2>1, <2>4, <2>5, WindowRead DEF get_ack_bitmap
<1>6. ASSUME NEW k \in 1..n, k # 1
      PROVE  /\ bin_to_int(Field(a, tuple_at(r, k - 1), r.m)) = lost[k]
             /\ Field(a, tuple_at(r, k - 1) + r.m, r.window_size) = bitmaps[lost[k]]
  <2>1. PICK i \in 1..NbReported(r, lost) - 1 : i = k - 1 /\ i + 1 = k
    BY <1>3, <1>6
  <2>2. /\ Field(a, tuple_at(r, i), r.m) = int_to_bin(lost[i + 1], r.m)
        /\ Field(a, tuple_at(r, i) + r.m, r.window_size) = bitmaps[lost[i + 1]]
    BY <1>1, <1>2, TupleFields
  <2>3. PICK x \in 0..r.max_window_nb - 1 : x = lost[k]
    BY <1>4
  <2>4. bin_to_int(int_to_bin(x, r.m)) = x
    BY WindowRead
  <2> QED  BY <2>1, <2>2, <2>3, <2>4
<1>7. get_ack_tuples(r, a, n)
          = [k \in 1..n |-> [window |-> lost[k], bitmap |-> bitmaps[lost[k]]]]
  BY <1>5, <1>6, Zenon DEF get_ack_tuples
<1> QED  BY <1>3, <1>7

\* A complete ACK is a header and zeros.
LEMMA CompleteSent ==
    ASSUME NEW r \in Rules, NEW wdw \in Int, NEW bitmaps
    PROVE  Carries(generate_ack(r, wdw, 1, bitmaps), Header(r, wdw, 1), r.ack_header_len)
<1>1. generate_ack(r, wdw, 1, bitmaps) = Downlink(Header(r, wdw, 1))
  BY Zenon DEF generate_ack, Header
<1>2. PICK h \in 0..64 : h = r.ack_header_len
  BY Layouts
<1>3. BitString(Header(r, wdw, 1), h)
  BY <1>2, HeaderBits DEF Bits
<1> QED  BY <1>1, <1>2, <1>3, Sent
=============================================================================
