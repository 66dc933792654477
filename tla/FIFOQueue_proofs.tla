--------------------------- MODULE FIFOQueue_proofs ---------------------------
(***************************************************************************)
(* The ring buffer implements a bounded FIFO, for every size and whatever   *)
(* its objects.                                                             *)
(***************************************************************************)
EXTENDS FIFOQueue, SequenceTheorems, TLAPS

\* Stepping an index of the ring.
LEMMA NextIndex ==
    ASSUME NEW i \in Slots
    PROVE  (i + 1) % size = IF i + 1 = size THEN 0 ELSE i + 1
<1>1. size \in Nat \ {0} /\ i \in 0..size - 1
  BY QueueAssumption DEF Slots
<1>2. CASE i + 1 = size
  BY <1>1, <1>2, Z3
<1>3. CASE i + 1 # size
  <2>1. i + 1 \in 1..size - 1
    BY <1>1, <1>3
  <2>. QED  BY <1>1, <1>3, <2>1, Z3
<1>. QED  BY <1>2, <1>3

\* A queue that starts at tail and holds fill objects ends before head.
LEMMA SlotFacts ==
    ASSUME TypeOK
    PROVE  /\ fill \in 0..size - 1
           /\ \A k \in 1..fill : slot(k) \in Slots /\ slot(k) # head
           /\ \A j, k \in 1..fill : slot(j) = slot(k) => j = k
           /\ fill = 0 <=> head = tail
           /\ fill > 0 => slot(1) = tail
<1>1. size \in Nat \ {0} /\ head \in 0..size - 1 /\ tail \in 0..size - 1
  BY QueueAssumption DEF TypeOK, Slots
<1>. QED  BY <1>1 DEF fill, slot, Slots

\* An empty ring is well formed.
LEMMA TypeInit == fq_construct => TypeOK
  BY QueueAssumption DEF fq_construct, TypeOK, Slots

\* Every call keeps it well formed.
LEMMA TypeNext == TypeOK /\ [Next]_vars => TypeOK'
<1> SUFFICES ASSUME TypeOK, [Next]_vars
             PROVE  TypeOK'
  OBVIOUS
<1>1. \A i \in Slots : (i + 1) % size \in Slots
  BY NextIndex, QueueAssumption DEF Slots
<1>2. CASE fq_get
  BY <1>1, <1>2 DEF fq_get, TypeOK
<1>3. ASSUME NEW obj \in Objects, fq_put(obj)
      PROVE  TypeOK'
  BY <1>1, <1>3 DEF fq_put, TypeOK
<1>4. CASE UNCHANGED vars
  BY <1>4 DEF vars, TypeOK
<1>. QED  BY <1>2, <1>3, <1>4 DEF Next

\* Both indices stay inside the ring.
THEOREM QueueTypeCorrect == Spec => []TypeOK
  BY TypeInit, TypeNext, PTL DEF Spec

-----------------------------------------------------------------------------
\* A slot of the ring is in use when it lies between tail and head.
InUse(i) == \E k \in 1..fill : i = slot(k)

\* The slots from t up to h, around the end of the ring.
LEMMA RingRange ==
    ASSUME NEW h \in Slots, NEW t \in Slots, NEW i \in Slots
    PROVE  (\E k \in 1..(IF h >= t THEN h - t ELSE h - t + size) :
                i = IF t + k - 1 < size THEN t + k - 1 ELSE t + k - 1 - size)
           <=> IF t <= h THEN t <= i /\ i < h ELSE t <= i \/ i < h
<1> DEFINE n       == IF h >= t THEN h - t ELSE h - t + size
           at(k)   == IF t + k - 1 < size THEN t + k - 1 ELSE t + k - 1 - size
           between == IF t <= h THEN t <= i /\ i < h ELSE t <= i \/ i < h
<1>1. /\ size \in Nat \ {0} /\ h \in 0..size - 1 /\ t \in 0..size - 1
      /\ i \in 0..size - 1
  BY QueueAssumption DEF Slots
<1>2. ASSUME NEW k \in 1..n, i = at(k)
      PROVE  between
  BY <1>1, <1>2
<1>3. ASSUME between
      PROVE  \E k \in 1..n : i = at(k)
  <2>1. CASE t <= i
    <3>1. i - t + 1 \in 1..n /\ i = at(i - t + 1)
      BY <1>1, <1>3, <2>1
    <3>. QED  BY <3>1
  <2>2. CASE i < t
    <3>1. i - t + 1 + size \in 1..n /\ i = at(i - t + 1 + size)
      BY <1>1, <1>3, <2>2
    <3>. QED  BY <3>1
  <2>. QED  BY <1>1, <2>1, <2>2
<1>. QED  BY <1>2, <1>3

\* A ring without objects.
LEMMA SlotsInit == fq_construct => SlotsInUse
<1> SUFFICES ASSUME fq_construct PROVE SlotsInUse
  OBVIOUS
<1>1. fill = 0
  BY DEF fq_construct, fill
<1>. QED  BY <1>1 DEF fq_construct, SlotsInUse

\* Each call changes one slot and the range of those in use by that slot.
LEMMA SlotsNext == TypeOK /\ TypeOK' /\ SlotsInUse /\ [Next]_vars => SlotsInUse'
<1> SUFFICES ASSUME TypeOK, TypeOK', SlotsInUse, [Next]_vars
             PROVE  SlotsInUse'
  OBVIOUS
<1>1. size \in Nat \ {0} /\ head \in 0..size - 1 /\ tail \in 0..size - 1
  BY QueueAssumption DEF TypeOK, Slots
<1>2. \A i \in Slots : (i + 1) % size = IF i + 1 = size THEN 0 ELSE i + 1
  BY NextIndex
<1>3. \A i \in Slots : objs[i] # NULL <=> InUse(i)
  BY DEF SlotsInUse, InUse
<1>4. \A i \in Slots : InUse(i)' <=> IF tail' <= head' THEN tail' <= i /\ i < head'
                                                    ELSE tail' <= i \/ i < head'
  BY RingRange DEF InUse, fill, slot, TypeOK
<1>5. SUFFICES ASSUME NEW i \in Slots
               PROVE  objs'[i] # NULL <=> InUse(i)'
  BY DEF SlotsInUse, InUse
<1>6. InUse(i) <=> IF tail <= head THEN tail <= i /\ i < head
                                   ELSE tail <= i \/ i < head
  BY RingRange DEF InUse, fill, slot, TypeOK
<1>7. ASSUME NEW obj \in Objects, (head + 1) % size # tail, fq_put(obj)
      PROVE  objs'[i] # NULL <=> InUse(i)'
  <2>1. objs' = [objs EXCEPT ![head] = obj] /\ tail' = tail /\ obj # NULL
        /\ head' = IF head + 1 = size THEN 0 ELSE head + 1
    BY <1>2, <1>7, QueueAssumption DEF fq_put, TypeOK
  <2>2. InUse(i)' <=> InUse(i) \/ i = head
    BY <1>1, <1>2, <1>4, <1>6, <1>7, <2>1 DEF Slots
  <2>. QED  BY <1>3, <2>1, <2>2 DEF TypeOK
<1>8. CASE ~fq_is_empty /\ fq_get
  <2>1. objs' = [objs EXCEPT ![tail] = NULL] /\ head' = head /\ head # tail
        /\ tail' = IF tail + 1 = size THEN 0 ELSE tail + 1
    BY <1>2, <1>8 DEF fq_get, fq_is_empty, TypeOK
  <2>2. InUse(i)' <=> InUse(i) /\ i # tail
    BY <1>1, <1>4, <1>6, <2>1 DEF Slots
  <2>. QED  BY <1>3, <2>1, <2>2 DEF TypeOK
<1>9. CASE UNCHANGED <<head, tail, objs>>
  BY <1>3, <1>9 DEF InUse, fill, slot
<1>. QED  BY <1>7, <1>8, <1>9 DEF Next, vars, fq_put, fq_get

\* No slot keeps a pointer the queue gave away, and none in the queue is lost.
THEOREM SlotsAreInUse == Spec => []SlotsInUse
<1>1. TypeOK /\ TypeOK' /\ SlotsInUse /\ [Next]_vars => SlotsInUse'
  BY SlotsNext
<1>. QED  BY <1>1, SlotsInit, QueueTypeCorrect, PTL DEF Spec

-----------------------------------------------------------------------------
\* What a slot may hold.
Held == Objects \cup {NULL}

\* The sequence a ring stands for.
LEMMA ContentsType ==
    ASSUME TypeOK
    PROVE  contents \in Seq(Held) /\ Len(contents) = fill
<1>1. fill \in Nat /\ \A k \in 1..fill : objs[slot(k)] \in Held
  BY SlotFacts, QueueAssumption DEF TypeOK, Held
<1>2. contents \in [1..fill -> Held]
  BY <1>1 DEF contents
<1>. QED  BY <1>1, <1>2

\* fq_put appends to that sequence, or is refused when it is full.
LEMMA PutRefines ==
    ASSUME TypeOK, TypeOK', NEW obj \in Objects, fq_put(obj)
    PROVE  Abstract!Put(obj)
<1>1. size \in Nat \ {0} /\ head \in 0..size - 1 /\ tail \in 0..size - 1
  BY QueueAssumption DEF TypeOK, Slots
<1>2. (head + 1) % size = IF head + 1 = size THEN 0 ELSE head + 1
  BY NextIndex DEF TypeOK
<1>3. Len(contents) = fill /\ contents \in Seq(Held)
  BY ContentsType
<1>4. CASE (head + 1) % size = tail
  <2>1. fill >= size - 1
    BY <1>1, <1>2, <1>4 DEF fill
  <2>2. UNCHANGED contents /\ ret' = <<"put", "full">>
    BY <1>4 DEF fq_put, contents, fill, slot
  <2>. QED  BY <1>3, <2>1, <2>2 DEF Abstract!Put
<1>5. CASE (head + 1) % size # tail
  <2>1. /\ objs' = [objs EXCEPT ![head] = obj]
        /\ head' = (head + 1) % size /\ tail' = tail
        /\ ret' = <<"put", "ok">>
    BY <1>5 DEF fq_put
  <2>2. fill < size - 1 /\ fill' = fill + 1
    BY <1>1, <1>2, <1>5, <2>1 DEF fill
  <2>3. slot(fill + 1) = head /\ \A k \in 1..fill + 1 : slot(k)' = slot(k)
    BY <1>1, <2>1 DEF slot, fill
  <2>4. fill \in Nat
    BY SlotFacts, <1>1
  <2>5. \A k \in 1..fill + 1 :
            contents'[k] = IF k = fill + 1 THEN obj ELSE contents[k]
    <3> SUFFICES ASSUME NEW k \in 1..fill + 1
                 PROVE  contents'[k] = IF k = fill + 1 THEN obj ELSE contents[k]
      OBVIOUS
    <3>1. contents'[k] = objs'[slot(k)']
      BY <2>2 DEF contents
    <3>2. CASE k = fill + 1
      <4>1. slot(k)' = head
        BY <2>3, <3>2
      <4>. QED  BY <2>1, <3>1, <3>2, <4>1 DEF TypeOK
    <3>3. CASE k # fill + 1
      <4>1. k \in 1..fill
        BY <2>4, <3>3
      <4>2. slot(k) \in Slots /\ slot(k) # head
        BY <4>1, SlotFacts
      <4>3. slot(k)' = slot(k)
        BY <2>3
      <4>. QED  BY <2>1, <3>1, <3>3, <4>1, <4>2, <4>3 DEF TypeOK, contents
    <3>. QED  BY <3>2, <3>3
  <2>6. contents' \in Seq(Held) /\ Len(contents') = fill + 1
    <3>1. \A k \in 1..fill + 1 : contents'[k] \in Held
      BY <1>3, <2>4, <2>5, ElementOfSeq DEF Held
    <3>2. contents' = [k \in 1..fill + 1 |-> contents'[k]]
      BY <2>2 DEF contents
    <3>3. fill + 1 \in Nat
      BY <2>4
    <3>. QED  BY <3>1, <3>2, <3>3
  <2>7. Append(contents, obj) \in Seq(Held)
        /\ Len(Append(contents, obj)) = fill + 1
        /\ \A k \in 1..fill + 1 : Append(contents, obj)[k] =
               IF k = fill + 1 THEN obj ELSE contents[k]
    BY <1>3, <2>4 DEF Held
  <2>8. contents' = Append(contents, obj)
    BY <2>5, <2>6, <2>7, SeqEqual
  <2>. QED  BY <1>3, <2>1, <2>2, <2>8 DEF Abstract!Put
<1>. QED  BY <1>4, <1>5

\* fq_get takes the head of that sequence, or finds it empty.
LEMMA GetRefines ==
    ASSUME TypeOK, TypeOK', fq_get
    PROVE  Abstract!Get
<1>1. size \in Nat \ {0} /\ head \in 0..size - 1 /\ tail \in 0..size - 1
  BY QueueAssumption DEF TypeOK, Slots
<1>2. (tail + 1) % size = IF tail + 1 = size THEN 0 ELSE tail + 1
  BY NextIndex DEF TypeOK
<1>3. Len(contents) = fill /\ contents \in Seq(Held) /\ fill \in Nat
  BY ContentsType, SlotFacts, <1>1
<1>4. CASE fq_is_empty
  <2>1. contents = <<>>
    BY <1>3, <1>4, SlotFacts DEF fq_is_empty
  <2>2. UNCHANGED contents /\ ret' = <<"get", NULL>>
    BY <1>4 DEF fq_get, contents, fill, slot
  <2>. QED  BY <2>1, <2>2 DEF Abstract!Get
<1>5. CASE ~fq_is_empty
  <2>1. /\ objs' = [objs EXCEPT ![tail] = NULL]
        /\ tail' = (tail + 1) % size /\ head' = head
        /\ ret' = <<"get", objs[tail]>>
    BY <1>5 DEF fq_get
  <2>2. fill > 0 /\ fill' = fill - 1
    BY <1>1, <1>2, <1>5, <2>1 DEF fill, fq_is_empty
  <2>3. contents # <<>> /\ Head(contents) = objs[tail]
    <3>1. contents[1] = objs[slot(1)] /\ slot(1) = tail
      BY <1>3, <2>2, SlotFacts DEF contents
    <3>. QED  BY <1>3, <2>2, <3>1
  <2>4. /\ Tail(contents) \in Seq(Held) /\ Len(Tail(contents)) = fill - 1
        /\ \A k \in 1..fill - 1 : Tail(contents)[k] = contents[k + 1]
    BY <1>3, <2>3, HeadTailProperties
  <2>5. \A k \in 1..fill - 1 : slot(k)' = slot(k + 1)
    BY <1>1, <1>2, <2>1 DEF slot, fill
  <2>6. \A k \in 1..fill - 1 : contents'[k] = contents[k + 1]
    <3> SUFFICES ASSUME NEW k \in 1..fill - 1
                 PROVE  contents'[k] = contents[k + 1]
      OBVIOUS
    <3>1. contents'[k] = objs'[slot(k)'] /\ k + 1 \in 1..fill
      BY <1>3, <2>2 DEF contents
    <3>2. slot(k + 1) \in Slots /\ slot(k + 1) # tail
      <4>1. 1 \in 1..fill /\ k + 1 # 1
        BY <1>3, <3>1
      <4>. QED  BY <2>2, <3>1, <4>1, SlotFacts
    <3>. QED  BY <2>1, <2>5, <3>1, <3>2 DEF TypeOK, contents
  <2>7. contents' \in Seq(Held) /\ Len(contents') = fill - 1
    <3>1. \A k \in 1..fill - 1 : contents'[k] \in Held
      BY <1>3, <2>4, <2>6, ElementOfSeq
    <3>2. contents' = [k \in 1..fill - 1 |-> contents'[k]]
      BY <2>2 DEF contents
    <3>3. fill - 1 \in Nat
      BY <1>3, <2>2
    <3>. QED  BY <3>1, <3>2, <3>3
  <2>8. contents' = Tail(contents)
    BY <2>4, <2>6, <2>7, SeqEqual
  <2>. QED  BY <2>1, <2>3, <2>8 DEF Abstract!Get
<1>. QED  BY <1>4, <1>5

\* The ring is a bounded FIFO of size - 1 places.
THEOREM RingImplementsFIFO == Spec => ImplementsFIFO
<1>1. fq_construct => Abstract!Init
  <2> SUFFICES ASSUME fq_construct PROVE Abstract!Init
    OBVIOUS
  <2>1. fill = 0
    BY DEF fq_construct, fill
  <2>2. contents = <<>>
    BY <2>1, TypeInit, ContentsType
  <2>. QED  BY <2>2 DEF fq_construct, Abstract!Init
<1>2. TypeOK /\ TypeOK' /\ [Next]_vars => [Abstract!Next]_(Abstract!vars)
  <2> SUFFICES ASSUME TypeOK, TypeOK', [Next]_vars
               PROVE  [Abstract!Next]_(Abstract!vars)
    OBVIOUS
  <2>1. CASE fq_get
    BY <2>1, GetRefines DEF Abstract!Next
  <2>2. ASSUME NEW obj \in Objects, fq_put(obj)
        PROVE  Abstract!Next
    BY <2>2, PutRefines DEF Abstract!Next
  <2>3. CASE UNCHANGED vars
    BY <2>3 DEF vars, contents, fill, slot, Abstract!vars
  <2>. QED  BY <2>1, <2>2, <2>3 DEF Next
<1>. QED  BY <1>1, <1>2, QueueTypeCorrect, PTL
          DEF Spec, ImplementsFIFO, Abstract!Spec
=============================================================================
