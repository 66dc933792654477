---------------------------- MODULE MCReassembly ----------------------------
(* An instance of Reassembly: every Rule ID of each format.                 *)
EXTENDS Reassembly

AllHeaders ==
    {int_to_bin(id, 3) : id \in 0..6}
    \cup {int_to_bin(56 + id, 6) : id \in 0..6}
    \cup {int_to_bin(252 + id, 8) : id \in 0..3}

\* Around every length at which the number of Fragments changes.
Boundaries ==
    {0, 1, 300, 301, 480, 481, 2399, 2400, 2401}
    \cup UNION {{11 * k - 1, 11 * k, 11 * k + 1} : k \in {1, 6, 7, 8, 14, 21, 27}}
    \cup UNION {{10 * k - 1, 10 * k, 10 * k + 1} : k \in {1, 12, 24, 31, 47, 62, 240}}

Short == 1..56

AllSizes == Boundaries \cup Short

\* Only the short packets have their Fragments stored out of order.
HolesAllowed == [s \in AllSizes |-> IF s \in Short THEN 6 ELSE 0]

\* What is_frg_null returned last, and the size of another packet.
SomeInts == {1, 22}
=============================================================================
