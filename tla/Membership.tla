----------------------------- MODULE Membership -----------------------------
(***************************************************************************)
(* What the table conversation_members promises of one social group: the   *)
(* life of a membership.  A user asks or is added, is admitted once, may   *)
(* be made an administrator and back, and departs; the owner stays for as  *)
(* long as the group exists.                                               *)
(***************************************************************************)
EXTENDS Naturals

CONSTANTS
  Users,
  Owner

VARIABLES
  exists,       (* the group has not been dissolved                        *)
  role,         (* role[u]                                                 *)
  since         (* since[u]: flips whenever a new history window is opened *)
                (* for u, that is when history_visible_from is set, and is *)
                (* 0 without a row                                         *)

vars == <<exists, role, since>>

Init ==
  /\ exists = TRUE
  /\ role \in [Users -> {"none", "member", "owner"}]
  /\ \A u \in Users : role[u] = "owner" <=> u = Owner
  /\ since = [u \in Users |-> 0]

Become(u, r) == role' = [role EXCEPT ![u] = r] /\ UNCHANGED exists
NewWindow(u) == since' = [since EXCEPT ![u] = 1 - @]

AskIn(u) ==
  /\ exists /\ role[u] = "none"
  /\ Become(u, "pending") /\ NewWindow(u)

Admit(u) ==
  /\ exists /\ role[u] \in {"none", "pending"}
  /\ Become(u, "member") /\ NewWindow(u)

Appoint(u, r) ==
  /\ role[u] \in {"member", "admin"} /\ r \in {"member", "admin"}
  /\ Become(u, r) /\ UNCHANGED since

Depart(u) ==
  /\ u # Owner
  /\ Become(u, "none") /\ since' = [since EXCEPT ![u] = 0]

Dissolve ==
  /\ exists /\ exists' = FALSE
  /\ role' = [u \in Users |-> "none"]
  /\ since' = [u \in Users |-> 0]

Next ==
  \/ Dissolve
  \/ \E u \in Users :
       \/ AskIn(u) \/ Admit(u) \/ Depart(u)
       \/ \E r \in {"member", "admin"} : Appoint(u, r)

Spec == Init /\ [][Next]_vars
=============================================================================
