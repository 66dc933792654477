-------------------------- MODULE MCSessionReceive --------------------------
(* Instances of SessionReceive.                                             *)
EXTENDS SessionReceive

\* A Rule of the shape of the single-byte one, with windows of 2 Fragments.
SmallRule == RuleOf(2, 3, 1, 2, 2, 3, 60)
RealRule  == SingleByteRule(2)

\* A packet that fills two windows and one of a single Fragment.
TwoPackets == "a" :> 39 @@ "b" :> 5

\* One of two Fragments, and one whose All-1 closes a full window.
WholePackets == "a" :> 20 @@ "b" :> 70
=============================================================================
