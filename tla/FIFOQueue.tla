------------------------------ MODULE FIFOQueue ------------------------------
(***************************************************************************)
(* The ring buffer of src/entities/fifo_queue.c: put writes at head, get    *)
(* reads at tail, and head = tail means empty, so that one slot of the ring *)
(* stays unused.  ret is what the last call returned.                       *)
(***************************************************************************)
EXTENDS Integers, Sequences

CONSTANTS
    Objects,    \* the objects put in the queue
    size,       \* q->size
    NULL

ASSUME QueueAssumption == size \in Nat \ {0} /\ NULL \notin Objects

VARIABLES head, tail, objs, ret

vars == <<head, tail, objs, ret>>

Slots == 0..size - 1

fq_construct ==
    /\ head = 0 /\ tail = 0
    /\ objs = [i \in Slots |-> NULL]
    /\ ret = <<"construct">>

fq_is_empty == head = tail

\* Mutant: the index is not taken modulo the size.
fq_put_no_wrap(obj) ==
    /\ (head + 1) % size # tail
    /\ objs' = [objs EXCEPT ![head] = obj]
    /\ head' = head + 1
    /\ ret' = <<"put", "ok">>
    /\ UNCHANGED tail

\* Mutant: a full ring is not recognised.
fq_put_unchecked(obj) ==
    /\ objs' = [objs EXCEPT ![head] = obj]
    /\ head' = (head + 1) % size
    /\ ret' = <<"put", "ok">>
    /\ UNCHANGED tail

fq_put(obj) ==
    \/ /\ (head + 1) % size = tail
       /\ ret' = <<"put", "full">>
       /\ UNCHANGED <<head, tail, objs>>
    \/ /\ (head + 1) % size # tail
       /\ objs' = [objs EXCEPT ![head] = obj]
       /\ head' = (head + 1) % size
       /\ ret' = <<"put", "ok">>
       /\ UNCHANGED tail

\* Mutant: the slot keeps the object.
fq_get_keep ==
    /\ ~fq_is_empty
    /\ ret' = <<"get", objs[tail]>>
    /\ tail' = (tail + 1) % size
    /\ UNCHANGED <<head, objs>>

fq_get ==
    \/ /\ fq_is_empty
       /\ ret' = <<"get", NULL>>
       /\ UNCHANGED <<head, tail, objs>>
    \/ /\ ~fq_is_empty
       /\ ret' = <<"get", objs[tail]>>
       /\ objs' = [objs EXCEPT ![tail] = NULL]
       /\ tail' = (tail + 1) % size
       /\ UNCHANGED head

Next == fq_get \/ \E obj \in Objects : fq_put(obj)

Spec == fq_construct /\ [][Next]_vars

-----------------------------------------------------------------------------
(* Properties.                                                              *)

\* The k-th slot from tail on, around the end of the array.
slot(k) == IF tail + k - 1 < size THEN tail + k - 1 ELSE tail + k - 1 - size

fill == IF head >= tail THEN head - tail ELSE head - tail + size

contents == [k \in 1..fill |-> objs[slot(k)]]

TypeOK ==
    /\ head \in Slots /\ tail \in Slots
    /\ objs \in [Slots -> Objects \cup {NULL}]

\* A slot holds an object exactly while the object is in the queue: get clears
\* the slot it reads, so that no slot keeps a pointer the queue gave away.
SlotsInUse ==
    \A i \in Slots : objs[i] # NULL <=> \E k \in 1..fill : i = slot(k)

\* The ring keeps the order of its objects across the wrap-around of both
\* indices, refuses a put only when it holds size - 1 objects, and returns
\* NULL only when it is empty (fifo_queue.h:47 and 58).
Abstract == INSTANCE BoundedFIFO WITH
    Capacity <- size - 1, queue <- contents

ImplementsFIFO == Abstract!Spec
=============================================================================
