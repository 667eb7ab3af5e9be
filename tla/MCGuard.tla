------------------------------- MODULE MCGuard -------------------------------
(* An instance of Guard for TLC: tokens of two subjects that expire at       *)
(* different times, and windows of two seconds.                              *)
EXTENDS Guard, TLC

CONSTANTS t1, t2, t3, t4, t5, anna, bert

MCSubjectOf == [t \in Tokens |-> IF t = t5 THEN bert ELSE anna]
MCExpOf     == [t \in Tokens |-> IF t \in {t1, t5} THEN 1 ELSE 4]

\* Tokens of one subject that expire together are interchangeable.
AlikeTokens == Permutations({t2, t3, t4})
=============================================================================
