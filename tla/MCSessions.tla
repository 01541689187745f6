----------------------------- MODULE MCSessions -----------------------------
(* An instance of Sessions for TLC.                                         *)
EXTENDS Sessions, TLC

CONSTANTS ana, bob, s1, s2, i1, i2, r1, r2, h1, h2

Interchangeable ==
    Permutations(Sessions) \cup Permutations(Items)
        \cup Permutations(Rounds) \cup Permutations(Handlers)
=============================================================================
