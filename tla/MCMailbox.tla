------------------------------ MODULE MCMailbox ------------------------------
(* An instance of Mailbox for TLC: two requests for one address.             *)
EXTENDS Mailbox, TLC

CONSTANTS p1, p2, p3, p4, p5, k1, k2, a1

OneAddress == [k \in Keys |-> a1]

\* Calls are interchangeable, and so are the two keys.
Interchangeable == Permutations(Calls) \cup Permutations(Keys)
=============================================================================
