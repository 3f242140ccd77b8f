---------------------------- MODULE MCSessions ----------------------------
(* Model values for Sessions: two processes with one request each.         *)
EXTENDS Sessions, TLC

CONSTANTS p1, p2, w1, w2

TwoProcesses == w1 :> p1 @@ w2 :> p2

(* A process is exchanged together with the request it handles.            *)
Exchange == p1 :> p2 @@ p2 :> p1 @@ w1 :> w2 @@ w2 :> w1

Symmetric == Permutations(SIDs) \cup Permutations(Types) \cup {Exchange}
=============================================================================
