------------------------------ MODULE MCHandle ------------------------------
(* Model-checking instance of Handle: three program variables and three    *)
(* real handle values, enough for an owner, a borrow of it and a duplicate *)
(* at once, with a value free for the kernel to reuse after a close.       *)
EXTENDS Handle, TLC

CONSTANTS s1, s2, s3, h1, h2, h3

MCSlots == {s1, s2, s3}
MCHandles == {h1, h2, h3}

Symmetry == Permutations(MCSlots) \cup Permutations(MCHandles)
=============================================================================
