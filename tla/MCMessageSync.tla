--------------------------- MODULE MCMessageSync ---------------------------
(* One writing client and one that reads.                                  *)
EXTENDS MessageSync, TLC

CONSTANTS a1, b, m1, m2, x, y, w1, w2

Symmetric == Permutations(Msgs) \cup Permutations(Texts) \cup Permutations(Workers)
=============================================================================
