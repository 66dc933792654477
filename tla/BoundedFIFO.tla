----------------------------- MODULE BoundedFIFO -----------------------------
(***************************************************************************)
(* What a FIFOQueue promises its users: a sequence of at most Capacity      *)
(* objects, a put that is refused only when the sequence is full, and a get *)
(* that returns the oldest object, or NULL only when there is none.         *)
(***************************************************************************)
EXTENDS Naturals, Sequences

CONSTANTS Objects, Capacity, NULL

VARIABLES queue, ret

vars == <<queue, ret>>

Init == queue = <<>> /\ ret = <<"construct">>

Put(obj) ==
    \/ /\ Len(queue) < Capacity
       /\ queue' = Append(queue, obj)
       /\ ret' = <<"put", "ok">>
    \/ /\ Len(queue) >= Capacity
       /\ ret' = <<"put", "full">>
       /\ UNCHANGED queue

Get ==
    \/ /\ queue # <<>>
       /\ ret' = <<"get", Head(queue)>>
       /\ queue' = Tail(queue)
    \/ /\ queue = <<>>
       /\ ret' = <<"get", NULL>>
       /\ UNCHANGED queue

Next == Get \/ \E obj \in Objects : Put(obj)

Spec == Init /\ [][Next]_vars
=============================================================================
