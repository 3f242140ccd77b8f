------------------------------ MODULE Friends ------------------------------
(***************************************************************************)
(* Friendship between two users, and their direct conversation: the        *)
(* handlers of services/api/internal/server/friend_handlers.go and         *)
(* handleOpenDM of message_handlers.go, over the table friendships, and    *)
(* handleDeleteConversation of conversation_prefs_handlers.go.             *)
(*                                                                         *)
(* A row is directed, with one row per direction at most (UNIQUE), but it  *)
(* is looked up in both directions and turned around by an UPDATE.  Every  *)
(* handler is a sequence of statements that commit on their own, so a      *)
(* request is a worker with one action per statement.                      *)
(***************************************************************************)
EXTENDS Naturals, FiniteSets

CONSTANTS
  Users,        (* the two users                                           *)
  Peer,         (* Peer[u]: the other one                                  *)
  Ids,          (* ids of friendship rows                                  *)
  Convs,        (* ids of direct conversations                             *)
  Open,         (* users whose friend_privacy is open; the others approve  *)
  Workers,      (* requests handled at the same time                       *)
  Requests,     (* <<kind, user>>: the requests that arrive                *)
  None

Kinds == {"request", "accept", "reject", "block", "unblock", "dm", "delete"}

ASSUME FriendAssumption ==
  /\ Users # {}
  /\ Peer \in [Users -> Users]
  /\ \A u \in Users : Peer[u] # u /\ Users = {u, Peer[u]}
  /\ Open \subseteq Users
  /\ Requests \subseteq Kinds \X Users
  /\ None \notin Users \cup Ids

VARIABLES
  status,       (* status[i]: status of row i, "none" before the INSERT    *)
  from,         (* from[i]: its requester_id; the addressee is the peer    *)
  member,       (* member[d]: members of direct conversation d             *)
  pc,           (* pc[w]: next step of the request worker w handles        *)
  user,         (* user[w]: who sent it                                    *)
  at,           (* at[w]: the row it is about                              *)
  answers,      (* answers[i]: how the request of row i has been answered  *)
  blockers,     (* the last user to be told that they block, unless they   *)
                (* have been told since that they no longer do             *)
  overlapped,   (* two requests have been under way at the same time       *)
  deleted       (* a user has deleted a conversation                       *)

request == <<pc, user, at>>
history == <<overlapped, deleted>>
vars    == <<status, from, member, pc, user, at, answers, blockers, overlapped, deleted>>

Status == {"none", "pending", "accepted", "rejected", "blocked"}
PC == {"idle", "q_look", "q_update", "q_insert", "a_update",
       "b_any", "b_insert", "b_id", "dm_find", "dm_insert"}

Init ==
  /\ status = [i \in Ids |-> "none"]
  /\ from = [i \in Ids |-> None]
  /\ member = [d \in Convs |-> {}]
  /\ pc = [w \in Workers |-> "idle"]
  /\ user = [w \in Workers |-> None]
  /\ at = [w \in Workers |-> None]
  /\ answers = [i \in Ids |-> {}]
  /\ blockers = {}
  /\ overlapped = FALSE
  /\ deleted = FALSE

-----------------------------------------------------------------------------
(* Helpers *)

Rows == {i \in Ids : status[i] # "none"}
IsIn(S) == {i \in Ids : status[i] \in S}

(* friendshipBlocked *)
Blocked == IsIn({"blocked"}) # {}

Free(w, kind, u) ==
  /\ <<kind, u>> \in Requests
  /\ pc[w] = "idle"

(* Whether this request overlaps another one.                              *)
Note == overlapped' = (overlapped \/ \E v \in Workers : pc[v] # "idle")

Arrive(w, l, u, i) ==
  /\ pc' = [pc EXCEPT ![w] = l]
  /\ user' = [user EXCEPT ![w] = u]
  /\ at' = [at EXCEPT ![w] = i]
  /\ Note /\ UNCHANGED deleted

Goto(w, l) ==
  /\ pc' = [pc EXCEPT ![w] = l]
  /\ UNCHANGED <<user, at>> /\ UNCHANGED history

Finish(w) ==
  /\ pc' = [pc EXCEPT ![w] = "idle"]
  /\ user' = [user EXCEPT ![w] = None]
  /\ at' = [at EXCEPT ![w] = None]
  /\ UNCHANGED history

(* Row i now goes from u to the peer.  UNIQUE (requester_id, addressee_id) *)
(* lets a statement do this only if no other row does.                     *)
Turn(i, u, s) ==
  /\ status' = [status EXCEPT ![i] = s]
  /\ from' = [from EXCEPT ![i] = u]

Taken(i, u) == \E j \in Rows : j # i /\ from[j] = u

(* INSERT ... ON CONFLICT (requester_id, addressee_id) DO UPDATE           *)
Upsert(u, s) ==
  \E i \in Ids :
    /\ IF \E j \in Rows : from[j] = u THEN i \in Rows /\ from[i] = u ELSE i \notin Rows
    /\ Turn(i, u, s)
    /\ answers' = [answers EXCEPT ![i] = {}]

-----------------------------------------------------------------------------
(* handleFriendRequest *)

Wanted(u) == IF Peer[u] \in Open THEN "accepted" ELSE "pending"

(* A new friend gets a conversation and a greeting, a pending request only *)
(* a notification.                                                         *)
Requested(w) ==
  IF Wanted(user[w]) = "accepted" THEN Goto(w, "dm_find") ELSE Finish(w)

Request(w, u) ==
  /\ Free(w, "request", u) /\ ~Blocked
  /\ Arrive(w, "q_look", u, None)
  /\ UNCHANGED <<status, from, member, answers, blockers>>

(* The status of some row between the two, if there is one.                *)
RequestLook(w) ==
  /\ pc[w] = "q_look"
  /\ \/ IsIn({"accepted"}) # {} /\ Goto(w, "dm_find")
     \/ IsIn({"pending"}) # {} /\ Finish(w)
     \/ (IsIn({"rejected", "blocked"}) # {} \/ Rows = {}) /\ Goto(w, "q_update")
  /\ UNCHANGED <<status, from, member, answers, blockers>>

(* Mutant: only the row of this direction is looked for.                   *)
RequestUpdateOneWay(w) ==
  /\ pc[w] = "q_update"
  /\ Goto(w, "q_insert")
  /\ UNCHANGED <<status, from, member, answers, blockers>>

(* The UPDATE of a pending or rejected row of either direction.            *)
RequestUpdate(w) ==
  /\ pc[w] = "q_update"
  /\ LET hit == IsIn({"pending", "rejected"})  u == user[w] IN
     \/ /\ hit = {}
        /\ Goto(w, "q_insert")
        /\ UNCHANGED <<status, from, answers>>
     \/ \E i \in hit :
          /\ hit = {i} /\ ~Taken(i, u)
          /\ Turn(i, u, Wanted(u))
          /\ answers' = [answers EXCEPT ![i] = {}]
          /\ Requested(w)
     \/ /\ \E i \in hit : hit # {i} \/ Taken(i, u)       (* "request failed" *)
        /\ Finish(w)
        /\ UNCHANGED <<status, from, answers>>
  /\ UNCHANGED <<member, blockers>>

RequestInsert(w) ==
  /\ pc[w] = "q_insert"
  /\ Upsert(user[w], Wanted(user[w]))
  /\ Requested(w)
  /\ UNCHANGED <<member, blockers>>

-----------------------------------------------------------------------------
(* handleFriendAccept, handleFriendReject *)

Accept(w, u, i) ==
  /\ Free(w, "accept", u)
  /\ status[i] = "pending" /\ from[i] = Peer[u]
  /\ Arrive(w, "a_update", u, i)
  /\ UNCHANGED <<status, from, member, answers, blockers>>

(* Mutant: the UPDATE trusts what the SELECT found.                        *)
AcceptUpdateBlind(w) ==
  /\ pc[w] = "a_update"
  /\ status' = [status EXCEPT ![at[w]] = "accepted"]
  /\ answers' = [answers EXCEPT ![at[w]] = @ \cup {"accepted"}]
  /\ Goto(w, "dm_find")
  /\ UNCHANGED <<from, member, blockers>>

(* Mutant: the direct conversation is left to the client to open.          *)
AcceptUpdateOnly(w) ==
  /\ pc[w] = "a_update"
  /\ status[at[w]] = "pending" /\ from[at[w]] = Peer[user[w]]
  /\ status' = [status EXCEPT ![at[w]] = "accepted"]
  /\ answers' = [answers EXCEPT ![at[w]] = @ \cup {"accepted"}]
  /\ Finish(w)
  /\ UNCHANGED <<from, member, blockers>>

AcceptUpdate(w) ==
  /\ pc[w] = "a_update"
  /\ LET i == at[w]  ours == status[i] = "pending" /\ from[i] = Peer[user[w]] IN
     \/ /\ ours
        /\ status' = [status EXCEPT ![i] = "accepted"]
        /\ answers' = [answers EXCEPT ![i] = @ \cup {"accepted"}]
        /\ Goto(w, "dm_find")
     \/ /\ ~ours
        /\ Finish(w)
        /\ UNCHANGED <<status, answers>>
  /\ UNCHANGED <<from, member, blockers>>

(* Mutant: any row can be rejected.                                        *)
RejectAny(w, u, i) ==
  /\ Free(w, "reject", u)
  /\ i \in Rows
  /\ status' = [status EXCEPT ![i] = "rejected"]
  /\ answers' = [answers EXCEPT ![i] = @ \cup {"rejected"}]
  /\ Note /\ UNCHANGED <<from, member, request, blockers, deleted>>

(* One UPDATE; the requester may withdraw by it as well.                   *)
Reject(w, u, i) ==
  /\ Free(w, "reject", u)
  /\ status[i] = "pending"
  /\ status' = [status EXCEPT ![i] = "rejected"]
  /\ answers' = [answers EXCEPT ![i] = @ \cup {"rejected"}]
  /\ Note /\ UNCHANGED <<from, member, request, blockers, deleted>>

-----------------------------------------------------------------------------
(* handleFriendBlock: by the id of the friendship or of the peer.          *)

Block(w, u) ==
  /\ Free(w, "block", u)
  /\ \/ \E i \in Rows : Arrive(w, "b_id", u, i)
     \/ Arrive(w, "b_any", u, None)
  /\ UNCHANGED <<status, from, member, answers, blockers>>

Acknowledge(w) == blockers' = {user[w]} /\ Finish(w)

(* The UPDATE of the row of either direction; with a row in both it fails  *)
(* on the unique constraint, and the INSERT follows.                       *)
BlockAny(w) ==
  /\ pc[w] = "b_any"
  /\ \/ \E i \in Rows :
          /\ Rows = {i}
          /\ Turn(i, user[w], "blocked")
          /\ Acknowledge(w)
     \/ /\ \A i \in Rows : Rows # {i}
        /\ Goto(w, "b_insert")
        /\ UNCHANGED <<status, from, blockers>>
  /\ UNCHANGED <<member, answers>>

BlockInsert(w) ==
  /\ pc[w] = "b_insert"
  /\ Upsert(user[w], "blocked")
  /\ Acknowledge(w)
  /\ UNCHANGED member

(* The UPDATE by id; its error is ignored.                                 *)
BlockId(w) ==
  /\ pc[w] = "b_id"
  /\ LET i == at[w]  u == user[w] IN
     \/ ~Taken(i, u) /\ Turn(i, u, "blocked")
     \/ Taken(i, u) /\ UNCHANGED <<status, from>>
  /\ Acknowledge(w)
  /\ UNCHANGED <<member, answers>>

(* handleFriendUnblock: only by the one the blocked row comes from.        *)
Unblock(w, u) ==
  /\ Free(w, "unblock", u)
  /\ \E i \in IsIn({"blocked"}) : from[i] = u /\ status' = [status EXCEPT ![i] = "rejected"]
  /\ blockers' = blockers \ {u}
  /\ Note /\ UNCHANGED <<from, member, request, answers, deleted>>

-----------------------------------------------------------------------------
(* handleOpenDM and ensureDMConversation *)

OpenDM(w, u) ==
  /\ Free(w, "dm", u)
  /\ IsIn({"accepted"}) # {} /\ ~Blocked
  /\ Arrive(w, "dm_find", u, None)
  /\ UNCHANGED <<status, from, member, answers, blockers>>

HasDM == \E d \in Convs : member[d] = Users

(* Mutant: nobody looks for the conversation that is there.                *)
DMFindNothing(w) ==
  /\ pc[w] = "dm_find"
  /\ Goto(w, "dm_insert")
  /\ UNCHANGED <<status, from, member, answers, blockers>>

DMFind(w) ==
  /\ pc[w] = "dm_find"
  /\ \/ HasDM /\ Finish(w)
     \/ ~HasDM /\ Goto(w, "dm_insert")
  /\ UNCHANGED <<status, from, member, answers, blockers>>

DMInsert(w) ==
  /\ pc[w] = "dm_insert"
  /\ \E d \in Convs : member[d] = {} /\ member' = [member EXCEPT ![d] = Users]
  /\ Finish(w)
  /\ UNCHANGED <<status, from, answers, blockers>>

(* handleDeleteConversation: the member's own row goes.                    *)
DeleteDM(w, u, d) ==
  /\ Free(w, "delete", u)
  /\ u \in member[d]
  /\ member' = [member EXCEPT ![d] = @ \ {u}]
  /\ Note /\ deleted' = TRUE
  /\ UNCHANGED <<status, from, request, answers, blockers>>

-----------------------------------------------------------------------------
Serve(w) ==
  \/ RequestLook(w) \/ RequestUpdate(w) \/ RequestInsert(w) \/ AcceptUpdate(w)
  \/ BlockAny(w) \/ BlockInsert(w) \/ BlockId(w) \/ DMFind(w) \/ DMInsert(w)

Ask(w, u) ==
  \/ Request(w, u) \/ Block(w, u) \/ Unblock(w, u) \/ OpenDM(w, u)
  \/ \E i \in Ids : Accept(w, u, i) \/ Reject(w, u, i)
  \/ \E d \in Convs : DeleteDM(w, u, d)

Next == \E w \in Workers : Serve(w) \/ \E u \in Users : Ask(w, u)

Spec == Init /\ [][Next]_vars

-----------------------------------------------------------------------------
TypeOK ==
  /\ status \in [Ids -> Status]
  /\ from \in [Ids -> Users \cup {None}]
  /\ member \in [Convs -> SUBSET Users]
  /\ pc \in [Workers -> PC]
  /\ user \in [Workers -> Users \cup {None}]
  /\ at \in [Workers -> Ids \cup {None}]
  /\ answers \in [Ids -> SUBSET {"accepted", "rejected"}]
  /\ blockers \in SUBSET Users
  /\ overlapped \in BOOLEAN /\ deleted \in BOOLEAN
  /\ \A w \in Workers : pc[w] # "idle" => user[w] \in Users
  /\ \A w \in Workers : pc[w] \in {"a_update", "b_id"} => at[w] \in Ids

(* A friend request gets one answer: accepting and rejecting it (in two    *)
(* tabs, or by its two parties) do not both succeed.                       *)
AnsweredOnce == \A i \in Ids : Cardinality(answers[i]) <= 1

(* Friends have a conversation: whatever overlaps, an accepted friendship  *)
(* comes with one, or a request that is about to open it, until one of     *)
(* them deletes it.                                                        *)
Opening(w) == pc[w] \in {"dm_find", "dm_insert"}
FriendsHaveDM ==
  IsIn({"accepted"}) # {} => HasDM \/ deleted \/ \E w \in Workers : Opening(w)

(* Unless requests have overlapped there is one row between two users, so  *)
(* that they are not friends by one and blocked by the other.              *)
OneRow == overlapped \/ Cardinality(Rows) <= 1

(* "ensureDMConversation returns the existing DM between the two users or  *)
(* creates one": nobody has two conversations with the same peer, unless   *)
(* requests have overlapped or somebody has deleted one.                   *)
OneChat ==
  overlapped \/ deleted \/
    \A u \in Users : \A c, d \in Convs : u \in member[c] /\ u \in member[d] => c = d

(* Also with deletions one conversation at most is shared by both, unless  *)
(* requests have overlapped.                                               *)
OneShared ==
  overlapped \/ \A c, d \in Convs : member[c] = Users /\ member[d] = Users => c = d

(* "Both sides drop the DM from their sidebar / stop messaging": unless    *)
(* requests have overlapped, who blocks the other is not reachable until   *)
(* they lift it, or the other blocks them in turn.                         *)
BlockStands == ~overlapped /\ blockers # {} => Blocked
=============================================================================
