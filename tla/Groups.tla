------------------------------- MODULE Groups -------------------------------
(***************************************************************************)
(* One social group: the handlers of                                       *)
(* services/api/internal/server/message_handlers.go that change who is a   *)
(* member and with which role, handleDeleteConversation of                 *)
(* conversation_prefs_handlers.go, and the conversation list of the web    *)
(* client (apps/web/src/lib/useChat.ts).                                   *)
(*                                                                         *)
(* Every statement commits on its own, so a request is a worker with one   *)
(* action per statement: it reads a role or counts the members in one and  *)
(* changes a row in a later one.  The guards that are safe are those in    *)
(* the WHERE clause of the statement that changes the row.                 *)
(*                                                                         *)
(* Muting, the settings of the group and clearing the history are left     *)
(* out: they change neither who is a member nor the conversation list.     *)
(***************************************************************************)
EXTENDS Naturals, FiniteSets, Sequences

CONSTANTS
  Users,        (* users, one client each                                  *)
  Owner,        (* who created the group                                   *)
  Clients,      (* users whose conversation list is followed               *)
  Capacity,     (* maxSocialGroupMembers                                   *)
  Workers,      (* requests handled at the same time                       *)
  Requests,     (* <<kind, user>>: the requests that arrive                *)
  MaxInbox,     (* bound: events on their way to one client                *)
  MaxLoads,     (* bound: loads of the list under way in one client        *)
  None

Kinds == {"join", "approve", "add", "remove", "leave", "forget", "appoint",
          "demote", "dissolve"}

ASSUME GroupAssumption ==
  /\ Owner \in Users /\ Clients \subseteq Users
  /\ IsFiniteSet(Users)
  /\ Capacity \in Nat /\ MaxInbox \in Nat /\ MaxLoads \in Nat
  /\ Requests \subseteq Kinds \X Users
  /\ None \notin Users

VARIABLES
  exists,       (* the row of conversations is there                       *)
  role,         (* role[u] in conversation_members, "none" without a row   *)
  since,        (* since[u]: which history window u has; a new value of    *)
                (* history_visible_from flips it, and it is 0 without row  *)
  pc,           (* pc[w]: next step of the request worker w handles        *)
  actor,        (* actor[w]: who sent it                                   *)
  target,       (* target[w]: whom it is about                             *)
  saw,          (* saw[w]: the role of the actor as read                   *)
  todo,         (* todo[w]: users left to add, or to tell                  *)
  count,        (* count[w]: members counted, and those added since        *)
  added,        (* added[w]: users added by this request                   *)
  overlapped,   (* two requests have been under way at the same time       *)
  inbox,        (* inbox[u]: events on their way to the client of u        *)
  listed,       (* clients that show the group in their list               *)
  loads,        (* loads[u]: loads under way: "asked", or what was read    *)
  misled        (* clients that missed a notice or a list, or heard a      *)
                (* notice before a list that was read earlier              *)

table   == <<exists, role, since>>
request == <<pc, actor, target, saw, todo, count, added, overlapped>>
client  == <<inbox, listed, loads, misled>>
vars    == <<exists, role, since, pc, actor, target, saw, todo, count, added, overlapped,
             inbox, listed, loads, misled>>

Roles == {"none", "pending", "member", "admin", "owner"}
Full  == {"member", "admin", "owner"}
PC == {"idle", "j_insert", "p_count", "p_update", "p_tell", "d_count", "d_next",
       "d_insert", "r_target", "r_delete", "f_delete", "r_tell",
       "m_admin", "m_member", "x_list", "x_delete", "x_tell"}

(* The steps that act on the target of the request.                        *)
Aimed == {"j_insert", "p_count", "p_update", "p_tell", "d_insert", "r_target",
          "r_delete", "f_delete", "r_tell", "m_admin", "m_member"}

(* memberIDs and activeGroupMemberCount                                    *)
Members == {u \in Users : role[u] \in Full}

(* handleCreateGroup has run.  It tells nobody: a member lists the group   *)
(* if the client has loaded its list since.                                *)
Init ==
  /\ exists = TRUE
  /\ role \in [Users -> {"none", "member", "owner"}]
  /\ \A u \in Users : role[u] = "owner" <=> u = Owner
  /\ Cardinality(Members) <= Capacity
  /\ since = [u \in Users |-> 0]
  /\ pc = [w \in Workers |-> "idle"]
  /\ actor = [w \in Workers |-> None]
  /\ target = [w \in Workers |-> None]
  /\ saw = [w \in Workers |-> "none"]
  /\ todo = [w \in Workers |-> {}]
  /\ count = [w \in Workers |-> 0]
  /\ added = [w \in Workers |-> {}]
  /\ overlapped = FALSE
  /\ inbox = [u \in Users |-> <<>>]
  /\ listed \in SUBSET (Members \cap Clients)
  /\ loads = [u \in Users |-> <<>>]
  /\ misled = (Members \cap Clients) \ listed

-----------------------------------------------------------------------------
(* Helpers *)

Free(w, kind, u) ==
  /\ <<kind, u>> \in Requests
  /\ pc[w] = "idle"

(* Whether this request overlaps another one.                              *)
Note == overlapped' = (overlapped \/ \E v \in Workers : pc[v] # "idle")

Arrive(w, l, u, t) ==
  /\ pc' = [pc EXCEPT ![w] = l]
  /\ actor' = [actor EXCEPT ![w] = u]
  /\ target' = [target EXCEPT ![w] = t]
  /\ saw' = [saw EXCEPT ![w] = role[u]]
  /\ Note
  /\ UNCHANGED <<todo, count, added>>

Goto(w, l) ==
  /\ pc' = [pc EXCEPT ![w] = l]
  /\ UNCHANGED <<actor, target, saw, todo, count, added, overlapped>>

Finish(w) ==
  /\ pc' = [pc EXCEPT ![w] = "idle"]
  /\ actor' = [actor EXCEPT ![w] = None]
  /\ target' = [target EXCEPT ![w] = None]
  /\ saw' = [saw EXCEPT ![w] = "none"]
  /\ todo' = [todo EXCEPT ![w] = {}]
  /\ count' = [count EXCEPT ![w] = 0]
  /\ added' = [added EXCEPT ![w] = {}]
  /\ UNCHANGED overlapped

Become(u, r) == role' = [role EXCEPT ![u] = r] /\ UNCHANGED exists
NewWindow(u) == since' = [since EXCEPT ![u] = 1 - @]

(* A DELETE of the row of u, which the window is a column of.              *)
Erase(u) == Become(u, "none") /\ since' = [since EXCEPT ![u] = 0]

(* A statement that makes u a member from now on.                          *)
Admit(u) == Become(u, "member") /\ NewWindow(u)

(* PublishToUsers, for the events a conversation list reacts to.  A client *)
(* misses the event if its WebSocket has a gap, or if the request is cut   *)
(* off before it has found whom to tell.                                   *)
Tell(S, event) ==
  \E H \in SUBSET (S \cap Clients) :
    /\ \A u \in H : Len(inbox[u]) < MaxInbox
    /\ inbox' = [u \in Users |-> IF u \in H THEN Append(inbox[u], event) ELSE inbox[u]]
    /\ misled' = misled \cup ((S \cap Clients) \ H)
    /\ UNCHANGED <<listed, loads>>

-----------------------------------------------------------------------------
(* handleJoinGroup *)

Join(w, u) ==
  /\ Free(w, "join", u)
  /\ exists /\ role[u] = "none"
  /\ Arrive(w, "j_insert", u, u)
  /\ UNCHANGED <<exists, role, since, inbox, listed, loads, misled>>

JoinInsert(w) ==
  /\ pc[w] = "j_insert"
  /\ LET u == target[w] IN
     \/ exists /\ role[u] = "none" /\ Become(u, "pending") /\ NewWindow(u)
     \/ ~(exists /\ role[u] = "none") /\ UNCHANGED table
  /\ Finish(w)
  /\ UNCHANGED client

-----------------------------------------------------------------------------
(* handleApproveJoin *)

IsAdmin(u) == role[u] \in {"owner", "admin"}

Approve(w, u, t) ==
  /\ Free(w, "approve", u)
  /\ IsAdmin(u)
  /\ Arrive(w, "p_count", u, t)
  /\ UNCHANGED <<exists, role, since, inbox, listed, loads, misled>>

(* Mutant: pending requests leave one place too many.                      *)
ApproveCountLate(w) ==
  /\ pc[w] = "p_count"
  /\ \/ Cardinality(Members) > Capacity /\ Finish(w)
     \/ Cardinality(Members) <= Capacity /\ Goto(w, "p_update")
  /\ UNCHANGED <<exists, role, since, inbox, listed, loads, misled>>

ApproveCount(w) ==
  /\ pc[w] = "p_count"
  /\ \/ Cardinality(Members) >= Capacity /\ Finish(w)
     \/ Cardinality(Members) < Capacity /\ Goto(w, "p_update")
  /\ UNCHANGED <<exists, role, since, inbox, listed, loads, misled>>

(* Mutant: the UPDATE admits whoever has a row.                            *)
ApproveUpdateAny(w) ==
  /\ pc[w] = "p_update"
  /\ \/ role[target[w]] # "none" /\ Admit(target[w]) /\ Goto(w, "p_tell")
     \/ role[target[w]] = "none" /\ Finish(w) /\ UNCHANGED table
  /\ UNCHANGED client

ApproveUpdate(w) ==
  /\ pc[w] = "p_update"
  /\ \/ role[target[w]] = "pending" /\ Admit(target[w]) /\ Goto(w, "p_tell")
     \/ role[target[w]] # "pending" /\ Finish(w) /\ UNCHANGED table
  /\ UNCHANGED client

(* Mutant: everybody is told but the new member.                           *)
ApproveTellOthers(w) ==
  /\ pc[w] = "p_tell"
  /\ Tell(Members \ {target[w]}, "added")
  /\ Finish(w)
  /\ UNCHANGED table

ApproveTell(w) ==
  /\ pc[w] = "p_tell"
  /\ Tell({target[w]} \cap Members, "added")
  /\ Finish(w)
  /\ UNCHANGED table

-----------------------------------------------------------------------------
(* handleAddGroupMembers: counts once, then one user after the other.      *)

Add(w, u, S) ==
  /\ Free(w, "add", u)
  /\ IsAdmin(u)
  /\ pc' = [pc EXCEPT ![w] = "d_count"]
  /\ actor' = [actor EXCEPT ![w] = u]
  /\ todo' = [todo EXCEPT ![w] = S \ {u}]
  /\ Note
  /\ UNCHANGED <<target, saw, count, added>>
  /\ UNCHANGED <<exists, role, since, inbox, listed, loads, misled>>

AddCount(w) ==
  /\ pc[w] = "d_count"
  /\ \/ ~exists /\ Finish(w)
     \/ /\ exists
        /\ pc' = [pc EXCEPT ![w] = "d_next"]
        /\ count' = [count EXCEPT ![w] = Cardinality(Members)]
        /\ UNCHANGED <<actor, target, saw, todo, added, overlapped>>
  /\ UNCHANGED <<exists, role, since, inbox, listed, loads, misled>>

(* Skipped: the group is full, or the user may not be invited.             *)
AddSkip(w, t) ==
  /\ pc[w] = "d_next" /\ t \in todo[w]
  /\ todo' = [todo EXCEPT ![w] = @ \ {t}]
  /\ UNCHANGED <<pc, actor, target, saw, count, added, overlapped>>
  /\ UNCHANGED <<exists, role, since, inbox, listed, loads, misled>>

Added(w, t) ==
  /\ pc' = [pc EXCEPT ![w] = "d_next"]
  /\ target' = [target EXCEPT ![w] = None]
  /\ todo' = [todo EXCEPT ![w] = @ \ {t}]
  /\ count' = [count EXCEPT ![w] = @ + 1]
  /\ added' = [added EXCEPT ![w] = @ \cup {t}]
  /\ UNCHANGED <<actor, saw, overlapped>>

(* The UPDATE of a join request; without one the INSERT follows.           *)
AddPromote(w, t) ==
  /\ pc[w] = "d_next" /\ t \in todo[w] /\ count[w] < Capacity
  /\ \/ role[t] = "pending" /\ Admit(t) /\ Added(w, t)
     \/ /\ role[t] # "pending"
        /\ pc' = [pc EXCEPT ![w] = "d_insert"]
        /\ target' = [target EXCEPT ![w] = t]
        /\ UNCHANGED <<actor, saw, todo, count, added, overlapped>>
        /\ UNCHANGED table
  /\ UNCHANGED client

(* INSERT ... ON CONFLICT DO NOTHING; without the group it fails.          *)
AddInsert(w) ==
  /\ pc[w] = "d_insert"
  /\ LET t == target[w]  new == exists /\ role[t] = "none" IN
     \/ new /\ Admit(t) /\ Added(w, t)
     \/ /\ ~new
        /\ pc' = [pc EXCEPT ![w] = "d_next"]
        /\ target' = [target EXCEPT ![w] = None]
        /\ todo' = [todo EXCEPT ![w] = @ \ {t}]
        /\ UNCHANGED <<actor, saw, count, added, overlapped>>
        /\ UNCHANGED table
  /\ UNCHANGED client

AddTell(w) ==
  /\ pc[w] = "d_next" /\ todo[w] = {}
  /\ Tell(added[w] \cap Members, "added")
  /\ Finish(w)
  /\ UNCHANGED table

-----------------------------------------------------------------------------
(* handleRemoveGroupMember, handleLeaveGroup, handleDeleteConversation     *)

Remove(w, u, t) ==
  /\ Free(w, "remove", u)
  /\ t # u /\ IsAdmin(u)
  /\ Arrive(w, "r_target", u, t)
  /\ UNCHANGED <<exists, role, since, inbox, listed, loads, misled>>

RemoveTarget(w) ==
  /\ pc[w] = "r_target"
  /\ LET r == role[target[w]]
         allowed == r = "member" \/ (r = "admin" /\ saw[w] = "owner") IN
     \/ allowed /\ Goto(w, "r_delete")
     \/ ~allowed /\ Finish(w)
  /\ UNCHANGED <<exists, role, since, inbox, listed, loads, misled>>

Leave(w, u) ==
  /\ Free(w, "leave", u)
  /\ role[u] \in {"member", "admin"}
  /\ Arrive(w, "r_delete", u, u)
  /\ UNCHANGED <<exists, role, since, inbox, listed, loads, misled>>

(* DELETE ... AND role IN ('member','admin'), of both handlers             *)
RemoveDelete(w) ==
  /\ pc[w] = "r_delete"
  /\ LET t == target[w]  hit == role[t] \in {"member", "admin"} IN
     \/ hit /\ Erase(t) /\ Goto(w, "r_tell")
     \/ ~hit /\ Finish(w) /\ UNCHANGED table
  /\ UNCHANGED client

(* Mutant: the owner is not held back.                                     *)
ForgetAny(w, u) ==
  /\ Free(w, "forget", u)
  /\ role[u] \in Full
  /\ Arrive(w, "f_delete", u, u)
  /\ UNCHANGED <<exists, role, since, inbox, listed, loads, misled>>

Forget(w, u) ==
  /\ Free(w, "forget", u)
  /\ role[u] \in {"member", "admin"}
  /\ Arrive(w, "f_delete", u, u)
  /\ UNCHANGED <<exists, role, since, inbox, listed, loads, misled>>

(* This DELETE takes any row, and its result is not looked at.             *)
ForgetDelete(w) ==
  /\ pc[w] = "f_delete"
  /\ Erase(target[w])
  /\ Goto(w, "r_tell")
  /\ UNCHANGED client

RemoveTell(w) ==
  /\ pc[w] = "r_tell"
  /\ Tell({target[w]}, "removed")
  /\ Finish(w)
  /\ UNCHANGED table

-----------------------------------------------------------------------------
(* handleAppointAdmin *)

Appoint(w, u, t) ==
  /\ role[u] = "owner"
  /\ \/ Free(w, "appoint", u) /\ Arrive(w, "m_admin", u, t)
     \/ Free(w, "demote", u) /\ Arrive(w, "m_member", u, t)
  /\ UNCHANGED <<exists, role, since, inbox, listed, loads, misled>>

(* Mutant: whoever has a row is appointed.                                 *)
AppointUpdateAny(w) ==
  /\ pc[w] \in {"m_admin", "m_member"}
  /\ \/ /\ role[target[w]] # "none"
        /\ Become(target[w], IF pc[w] = "m_admin" THEN "admin" ELSE "member")
     \/ role[target[w]] = "none" /\ UNCHANGED <<exists, role>>
  /\ Finish(w)
  /\ UNCHANGED <<since, inbox, listed, loads, misled>>

AppointUpdate(w) ==
  /\ pc[w] \in {"m_admin", "m_member"}
  /\ LET t == target[w]  r == IF pc[w] = "m_admin" THEN "admin" ELSE "member" IN
     \/ role[t] \in {"member", "admin"} /\ Become(t, r)
     \/ role[t] \notin {"member", "admin"} /\ UNCHANGED <<exists, role>>
  /\ Finish(w)
  /\ UNCHANGED <<since, inbox, listed, loads, misled>>

-----------------------------------------------------------------------------
(* handleDeleteGroup *)

Dissolve(w, u) ==
  /\ Free(w, "dissolve", u)
  /\ role[u] = "owner"
  /\ Arrive(w, "x_list", u, None)
  /\ UNCHANGED <<exists, role, since, inbox, listed, loads, misled>>

DissolveList(w) ==
  /\ pc[w] = "x_list"
  /\ pc' = [pc EXCEPT ![w] = "x_delete"]
  /\ todo' = [todo EXCEPT ![w] = Members]
  /\ UNCHANGED <<actor, target, saw, count, added, overlapped>>
  /\ UNCHANGED <<exists, role, since, inbox, listed, loads, misled>>

(* The rows of conversation_members go with the conversation.              *)
DissolveDelete(w) ==
  /\ pc[w] = "x_delete"
  /\ \/ /\ exists
        /\ exists' = FALSE
        /\ role' = [u \in Users |-> "none"]
        /\ since' = [u \in Users |-> 0]
        /\ Goto(w, "x_tell")
     \/ ~exists /\ Finish(w) /\ UNCHANGED table
  /\ UNCHANGED client

(* Mutant: the members are looked up once they are gone.                   *)
DissolveTellLate(w) ==
  /\ pc[w] = "x_tell"
  /\ Tell(Members, "removed")
  /\ Finish(w)
  /\ UNCHANGED table

DissolveTell(w) ==
  /\ pc[w] = "x_tell"
  /\ Tell(todo[w], "removed")
  /\ Finish(w)
  /\ UNCHANGED table

-----------------------------------------------------------------------------
(* The web client: handleIncoming for group.updated and                    *)
(* group.member_removed, and loadConversations.                            *)

Received(u) == inbox' = [inbox EXCEPT ![u] = Tail(@)]

(* A list that says the opposite of the notice is on its way.              *)
Crossing(u, answer) == \E k \in DOMAIN loads[u] : loads[u][k] = answer
Mislead(u, is) == misled' = IF is THEN misled \cup {u} ELSE misled

HearRemoved(u) ==
  /\ inbox[u] # <<>> /\ Head(inbox[u]) = "removed"
  /\ Received(u)
  /\ listed' = listed \ {u}
  /\ Mislead(u, Crossing(u, "in"))
  /\ UNCHANGED <<loads, exists, role, since>> /\ UNCHANGED request

AskList(u) ==
  /\ Len(loads[u]) < MaxLoads
  /\ loads' = [loads EXCEPT ![u] = Append(@, "asked")]

HearAdded(u) ==
  /\ inbox[u] # <<>> /\ Head(inbox[u]) = "added"
  /\ Received(u)
  /\ AskList(u)
  /\ Mislead(u, Crossing(u, "out"))
  /\ UNCHANGED listed /\ UNCHANGED table /\ UNCHANGED request

(* loadConversations for another reason: the page opens, a message of a    *)
(* conversation that is not listed arrives, a friend accepts, ...          *)
Load(u) ==
  /\ AskList(u)
  /\ UNCHANGED <<inbox, listed, misled>> /\ UNCHANGED table /\ UNCHANGED request

(* The server reads a list.  Requests that it has not served are alike, so *)
(* it is the first of them; their answers arrive in any order (Loaded).    *)
LoadRead(u, k) ==
  /\ loads[u][k] = "asked" /\ \A j \in 1 .. k - 1 : loads[u][j] # "asked"
  /\ loads' = [loads EXCEPT ![u][k] = IF u \in Members THEN "in" ELSE "out"]
  /\ UNCHANGED <<inbox, listed, misled>> /\ UNCHANGED table /\ UNCHANGED request

Show(u, is) == listed' = IF is THEN listed \cup {u} ELSE listed \ {u}
Without(s, k) == SubSeq(s, 1, k - 1) \o SubSeq(s, k + 1, Len(s))

(* setConversations replaces the list by the answer.                       *)
Loaded(u, k) ==
  /\ loads[u][k] # "asked"
  /\ Show(u, loads[u][k] = "in")
  /\ loads' = [loads EXCEPT ![u] = Without(@, k)]
  /\ UNCHANGED <<inbox, misled>> /\ UNCHANGED table /\ UNCHANGED request

(* ... or the request fails, and the list stays as it is.                  *)
LoadFailed(u, k) ==
  /\ loads' = [loads EXCEPT ![u] = Without(@, k)]
  /\ Mislead(u, TRUE)
  /\ UNCHANGED <<inbox, listed>> /\ UNCHANGED table /\ UNCHANGED request

-----------------------------------------------------------------------------
Serve(w) ==
  \/ JoinInsert(w) \/ ApproveCount(w) \/ ApproveUpdate(w) \/ ApproveTell(w)
  \/ AddCount(w) \/ AddInsert(w) \/ AddTell(w)
  \/ RemoveTarget(w) \/ RemoveDelete(w) \/ ForgetDelete(w) \/ RemoveTell(w)
  \/ AppointUpdate(w) \/ DissolveList(w) \/ DissolveDelete(w) \/ DissolveTell(w)
  \/ \E t \in Users : AddSkip(w, t) \/ AddPromote(w, t)

Ask(w, u) ==
  \/ Join(w, u) \/ Leave(w, u) \/ Forget(w, u) \/ Dissolve(w, u)
  \/ \E t \in Users : Approve(w, u, t) \/ Remove(w, u, t) \/ Appoint(w, u, t)
  \/ \E S \in SUBSET Users : Add(w, u, S)

Hear(u) ==
  \/ HearRemoved(u) \/ HearAdded(u) \/ Load(u)
  \/ \E k \in DOMAIN loads[u] : LoadRead(u, k) \/ Loaded(u, k) \/ LoadFailed(u, k)

Next ==
  \/ \E w \in Workers : Serve(w) \/ \E u \in Users : Ask(w, u)
  \/ \E u \in Clients : Hear(u)

Spec == Init /\ [][Next]_vars

-----------------------------------------------------------------------------
TypeOK ==
  /\ exists \in BOOLEAN /\ overlapped \in BOOLEAN /\ misled \in SUBSET Clients
  /\ role \in [Users -> Roles]
  /\ since \in [Users -> {0, 1}]
  /\ pc \in [Workers -> PC]
  /\ actor \in [Workers -> Users \cup {None}]
  /\ target \in [Workers -> Users \cup {None}]
  /\ saw \in [Workers -> Roles]
  /\ todo \in [Workers -> SUBSET Users]
  /\ count \in [Workers -> Nat]
  /\ added \in [Workers -> SUBSET Users]
  /\ inbox \in [Users -> Seq({"added", "removed"})]
  /\ listed \in SUBSET Clients
  /\ loads \in [Users -> Seq({"asked", "in", "out"})]
  /\ \A w \in Workers : pc[w] \in Aimed => target[w] \in Users

(* "cannot remove the owner", "owner cannot leave": whatever overlaps, the *)
(* group has its owner, and no other, until it is dissolved.               *)
OwnerStays ==
  IF exists THEN \A u \in Users : role[u] = "owner" <=> u = Owner
            ELSE \A u \in Users : role[u] = "none"

(* Who is a member and stays one keeps the history they see: two admins    *)
(* who approve or add the same person admit them once.                     *)
HistoryKept ==
  [][\A u \in Users : role[u] \in Full /\ role'[u] \in Full => since'[u] = since[u]]_vars

(* The rows of the group live as Membership says.                          *)
M == INSTANCE Membership
ImplementsMembership == M!Spec

(* "group member limit is": unless requests have overlapped, the group     *)
(* holds no more members than that.                                        *)
WithinCapacity == overlapped \/ Cardinality(Members) <= Capacity

(* "Notify members (including the newly approved user) so clients can      *)
(* refresh": however long the loads take, and whatever else makes the      *)
(* client load its list, once everything has arrived who is a member finds *)
(* the group in their list, unless requests have overlapped or the client  *)
(* was misled: it missed the notice or a list, or a list read before the   *)
(* admission arrived after the notice.                                     *)
AtRest(u) == inbox[u] = <<>> /\ loads[u] = <<>> /\ \A w \in Workers : pc[w] = "idle"
MemberIsListed ==
  ~overlapped => \A u \in Clients \ misled : AtRest(u) /\ u \in Members => u \in listed

(* "Notify removed user so their client drops the conversation": once      *)
(* everything has arrived who is not a member does not list the group,     *)
(* unless requests have overlapped or the client was misled: it missed the *)
(* notice or a list, or a list read before the removal arrived after the   *)
(* notice.                                                                 *)
LeaverIsUnlisted ==
  ~overlapped => \A u \in Clients \ misled : AtRest(u) /\ u \notin Members => u \notin listed
=============================================================================
