---------------------------- MODULE MCSipBrowser ----------------------------
(* Bounds and symmetry of SipBrowser for TLC. *)
EXTENDS SipBrowser, TLC

CONSTANTS c1, c2, c3, c4, b1, b2, e1, e2, none

\* Calls, bindings and employees are interchangeable.
SipSymmetry == 
  Permutations(Calls) \cup Permutations(Bindings) \cup Permutations(Employees)
=============================================================================
