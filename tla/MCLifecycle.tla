---------------------------- MODULE MCLifecycle -----------------------------
(* Bounds and symmetry of Lifecycle for TLC. *)
EXTENDS Lifecycle, TLC

CONSTANTS c1, c2, c3, c4, kc, sip, a, b, none

\* Calls, systems and identities are interchangeable.
LifecycleSymmetry == Permutations(Calls) \cup Permutations(Systems) \cup Permutations(Ids)
=============================================================================
