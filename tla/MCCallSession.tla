--------------------------- MODULE MCCallSession ---------------------------
(* Model values for CallSession.  Users, calls and workers are only ever   *)
(* compared, so permuting them is a symmetry of every safety property.     *)
EXTENDS CallSession, TLC

AllRequests   == AllOps
Redials       == {"start", "answer", "hangup"}
DMRequests    == {"start", "answer", "decline", "hangup"}

Symmetric == Permutations(Users) \cup Permutations(Calls) \cup Permutations(Workers)
             \cup Permutations(Devices)
=============================================================================
