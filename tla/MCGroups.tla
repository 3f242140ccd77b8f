------------------------------ MODULE MCGroups ------------------------------
(* The owner, an administrator to be, and a user whose client is followed. *)
EXTENDS Groups, TLC

CONSTANTS o, a, b

(* b asks and leaves, a removes when appointed, and the owner does         *)
(* everything else.                                                        *)
Everything ==
  {"join", "leave"} \X {b} \cup {"remove"} \X {a} \cup {"forget"} \X {o, b}
    \cup {"approve", "add", "appoint", "demote", "dissolve"} \X {o}

Symmetric == Permutations(Workers)
=============================================================================
