----------------------------- MODULE MCFriends -----------------------------
(* Two users.                                                              *)
EXTENDS Friends, TLC

CONSTANTS a, b

Pair == a :> b @@ b :> a

Everything == Kinds \X Users

Symmetric == Permutations(Ids) \cup Permutations(Convs) \cup Permutations(Workers)
=============================================================================
