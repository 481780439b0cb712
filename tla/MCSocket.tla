------------------------------ MODULE MCSocket ------------------------------
(* Model-checking instance of Socket: three program variables and three    *)
(* socket values, enough for a source, a borrow of it and a clone in       *)
(* progress at once, with values free for reuse; both UWP and desktop      *)
(* builds are initial states.                                              *)
EXTENDS Socket, TLC

CONSTANTS s1, s2, s3, x1, x2, x3

MCSlots == {s1, s2, s3}
MCSockets == {x1, x2, x3}

Symmetry == Permutations(MCSlots) \cup Permutations(MCSockets)
=============================================================================
