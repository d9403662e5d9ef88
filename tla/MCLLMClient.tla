----------------------------- MODULE MCLLMClient -----------------------------
(***************************************************************************)
(* Instances of LLMClient alone for TLC: several commands on one folder.   *)
(***************************************************************************)
EXTENDS LLMClient, TLC

CONSTANTS c1, c2, k1, k2, a1, a2

Pair == {c1, c2}
One == {c1}
Questions == {k1, k2}
Possible == {a1, a2}
Swap == Permutations(Pair) \cup Permutations(Questions) \cup Permutations(Possible)

=============================================================================
