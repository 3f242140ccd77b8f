---------------------------- MODULE GroupsProofs ----------------------------
(***************************************************************************)
(* Proofs about Groups.  Every step of a handler is shown to be a step of  *)
(* Membership or to leave the rows alone; that the owner stays and that    *)
(* members keep their history then follow from Membership, for any number  *)
(* of users and of overlapping requests.  For requests that do not         *)
(* overlap: that the group stays within its limit, and that the lists of   *)
(* the clients end up as the rows are, for any number of notices and loads *)
(* on their way.                                                           *)
(***************************************************************************)
EXTENDS Groups, FiniteSetTheorems, SequenceTheorems, TLAPS

TableType ==
  /\ exists \in BOOLEAN
  /\ role \in [Users -> Roles]
  /\ since \in [Users -> {0, 1}]

RequestType ==
  /\ pc \in [Workers -> PC]
  /\ actor \in [Workers -> Users \cup {None}]
  /\ target \in [Workers -> Users \cup {None}]
  /\ saw \in [Workers -> Roles]
  /\ todo \in [Workers -> SUBSET Users]
  /\ count \in [Workers -> Nat]
  /\ added \in [Workers -> SUBSET Users]
  /\ overlapped \in BOOLEAN
  /\ \A w \in Workers : pc[w] \in Aimed => target[w] \in Users

ClientType ==
  /\ inbox \in [Users -> Seq({"added", "removed"})]
  /\ listed \in SUBSET Clients
  /\ misled \in SUBSET Clients
  /\ loads \in [Users -> Seq({"asked", "in", "out"})]

(* The one DELETE that would take the owner's row is never about them.     *)
SparesOwner == \A w \in Workers : pc[w] = "f_delete" => target[w] # Owner

IInv == TableType /\ RequestType /\ ClientType /\ OwnerStays /\ SparesOwner

LEMMA TypesTogether == TypeOK <=> TableType /\ RequestType /\ ClientType
  BY DEF TypeOK, TableType, RequestType, ClientType

-----------------------------------------------------------------------------
(* What Membership preserves *)

LEMMA MembershipStep ==
  ASSUME TableType, OwnerStays, M!Next
  PROVE  /\ TableType' /\ OwnerStays'
         /\ \A u \in Users : role[u] \in Full /\ role'[u] \in Full => since'[u] = since[u]
<1> USE GroupAssumption
<1>1. CASE M!Dissolve
  BY <1>1 DEF M!Dissolve, TableType, OwnerStays, Roles, Full
<1>2. ASSUME NEW u \in Users, M!AskIn(u)
      PROVE  /\ TableType' /\ OwnerStays'
             /\ \A v \in Users : role[v] \in Full /\ role'[v] \in Full => since'[v] = since[v]
  BY <1>2 DEF M!AskIn, M!Become, M!NewWindow, TableType, OwnerStays, Roles, Full
<1>3. ASSUME NEW u \in Users, M!Admit(u)
      PROVE  /\ TableType' /\ OwnerStays'
             /\ \A v \in Users : role[v] \in Full /\ role'[v] \in Full => since'[v] = since[v]
  BY <1>3 DEF M!Admit, M!Become, M!NewWindow, TableType, OwnerStays, Roles, Full
<1>4. ASSUME NEW u \in Users, NEW r \in {"member", "admin"}, M!Appoint(u, r)
      PROVE  /\ TableType' /\ OwnerStays'
             /\ \A v \in Users : role[v] \in Full /\ role'[v] \in Full => since'[v] = since[v]
  BY <1>4 DEF M!Appoint, M!Become, TableType, OwnerStays, Roles
<1>5. ASSUME NEW u \in Users, M!Depart(u)
      PROVE  /\ TableType' /\ OwnerStays'
             /\ \A v \in Users : role[v] \in Full /\ role'[v] \in Full => since'[v] = since[v]
  BY <1>5 DEF M!Depart, M!Become, TableType, OwnerStays, Roles, Full
<1>6. QED
  BY <1>1, <1>2, <1>3, <1>4, <1>5 DEF M!Next

-----------------------------------------------------------------------------
(* The rows: each statement is a step of Membership *)

LEMMA RowThere ==
  ASSUME TableType, OwnerStays, NEW u \in Users, role[u] # "none"
  PROVE  exists /\ (role[u] \in {"pending", "member", "admin"} => u # Owner)
  BY DEF OwnerStays, TableType

LEMMA AdmitIsAdmit ==
  ASSUME NEW u \in Users, exists, role[u] \in {"none", "pending"}, Admit(u)
  PROVE  M!Next
  BY DEF Admit, Become, NewWindow, M!Next, M!Admit, M!Become, M!NewWindow

LEMMA BecomeNone ==
  ASSUME NEW u \in Users, u # Owner, Erase(u)
  PROVE  M!Next
  BY DEF Erase, Become, M!Next, M!Depart, M!Become

LEMMA ServeRows ==
  ASSUME IInv, NEW w \in Workers, Serve(w)
  PROVE  M!Next \/ UNCHANGED table
<1>1. CASE JoinInsert(w)
  <2>1. target[w] \in Users
    BY <1>1 DEF IInv, RequestType, Aimed, JoinInsert
  <2>2. CASE exists /\ role[target[w]] = "none" /\ Become(target[w], "pending") /\ NewWindow(target[w])
    BY <2>1, <2>2 DEF Become, NewWindow, M!Next, M!AskIn, M!Become, M!NewWindow
  <2>3. QED
    BY <1>1, <2>2 DEF JoinInsert
<1>2. CASE ApproveUpdate(w)
  <2>1. target[w] \in Users
    BY <1>2 DEF IInv, RequestType, Aimed, ApproveUpdate
  <2>2. CASE role[target[w]] = "pending" /\ Admit(target[w])
    BY <2>1, <2>2, RowThere, AdmitIsAdmit DEF IInv
  <2>3. QED
    BY <1>2, <2>2 DEF ApproveUpdate
<1>3. ASSUME NEW t \in Users, AddPromote(w, t) PROVE M!Next \/ UNCHANGED table
  <2>1. CASE role[t] = "pending" /\ Admit(t)
    BY <2>1, RowThere, AdmitIsAdmit DEF IInv
  <2>2. QED
    BY <1>3, <2>1 DEF AddPromote
<1>4. CASE AddInsert(w)
  <2>1. target[w] \in Users
    BY <1>4 DEF IInv, RequestType, Aimed, AddInsert
  <2>2. CASE exists /\ role[target[w]] = "none" /\ Admit(target[w])
    BY <2>1, <2>2, AdmitIsAdmit
  <2>3. QED
    BY <1>4, <2>2 DEF AddInsert
<1>5. CASE RemoveDelete(w)
  <2>1. target[w] \in Users
    BY <1>5 DEF IInv, RequestType, Aimed, RemoveDelete
  <2>2. CASE role[target[w]] \in {"member", "admin"} /\ Erase(target[w])
    BY <2>1, <2>2, RowThere, BecomeNone DEF IInv
  <2>3. QED
    BY <1>5, <2>2 DEF RemoveDelete
<1>6. CASE ForgetDelete(w)
  <2>1. target[w] \in Users /\ target[w] # Owner
    BY <1>6 DEF IInv, RequestType, SparesOwner, Aimed, ForgetDelete
  <2>2. QED
    BY <1>6, <2>1, BecomeNone DEF ForgetDelete
<1>7. CASE AppointUpdate(w)
  <2>1. target[w] \in Users
    BY <1>7 DEF IInv, RequestType, Aimed, AppointUpdate
  <2>2. ASSUME NEW r \in {"member", "admin"}, role[target[w]] \in {"member", "admin"},
               Become(target[w], r), UNCHANGED since
        PROVE  M!Next
    BY <2>1, <2>2 DEF Become, M!Next, M!Appoint, M!Become
  <2>3. QED
    BY <1>7, <2>2 DEF AppointUpdate, table
<1>8. CASE DissolveDelete(w)
  BY <1>8 DEF DissolveDelete, M!Next, M!Dissolve
<1>9. CASE ApproveCount(w) \/ ApproveTell(w) \/ AddCount(w) \/ AddTell(w) \/ RemoveTarget(w)
            \/ RemoveTell(w) \/ DissolveList(w) \/ DissolveTell(w)
  BY <1>9 DEF ApproveCount, ApproveTell, AddCount, AddTell, RemoveTarget, RemoveTell,
              DissolveList, DissolveTell, table
<1>10. ASSUME NEW t \in Users, AddSkip(w, t) PROVE UNCHANGED table
  BY <1>10 DEF AddSkip, table
<1>11. QED
  BY <1>1, <1>2, <1>3, <1>4, <1>5, <1>6, <1>7, <1>8, <1>9, <1>10 DEF Serve

LEMMA AskRows ==
  ASSUME NEW w \in Workers, NEW u \in Users, Ask(w, u)
  PROVE  UNCHANGED table
<1>1. CASE Join(w, u) \/ Leave(w, u) \/ Forget(w, u) \/ Dissolve(w, u)
  BY <1>1 DEF Join, Leave, Forget, Dissolve, table
<1>2. ASSUME NEW t \in Users, Approve(w, u, t) \/ Remove(w, u, t) \/ Appoint(w, u, t)
      PROVE  UNCHANGED table
  BY <1>2 DEF Approve, Remove, Appoint, table
<1>3. ASSUME NEW S \in SUBSET Users, Add(w, u, S) PROVE UNCHANGED table
  BY <1>3 DEF Add, table
<1>4. QED
  BY <1>1, <1>2, <1>3 DEF Ask

LEMMA HearRows ==
  ASSUME NEW u \in Clients, Hear(u)
  PROVE  UNCHANGED table /\ UNCHANGED request
  BY DEF Hear, HearRemoved, HearAdded, Load, LoadRead, Loaded, LoadFailed, table

LEMMA NextRows == IInv /\ [Next]_vars => [M!Next]_(M!vars)
<1>1. ASSUME IInv, Next PROVE M!Next \/ UNCHANGED table
  BY <1>1, ServeRows, AskRows, HearRows DEF Next
<1>2. ASSUME UNCHANGED vars PROVE UNCHANGED table
  BY <1>2 DEF vars, table
<1>3. UNCHANGED table => UNCHANGED M!vars
  BY DEF table, M!vars
<1>4. QED
  BY <1>1, <1>2, <1>3

-----------------------------------------------------------------------------
(* The requests *)

RequestOK == RequestType /\ SparesOwner

LEMMA ArriveType ==
  ASSUME TableType, RequestOK, NEW w \in Workers, NEW l \in PC, NEW u \in Users,
         NEW t \in Users \cup {None}, Arrive(w, l, u, t),
         l \in Aimed => t \in Users, l = "f_delete" => t # Owner
  PROVE  RequestOK'
  BY DEF RequestOK, RequestType, SparesOwner, TableType, Arrive, Note

LEMMA GotoType ==
  ASSUME RequestOK, NEW w \in Workers, NEW l \in PC \ {"f_delete"}, Goto(w, l),
         l \in Aimed => pc[w] \in Aimed
  PROVE  RequestOK'
  BY DEF RequestOK, RequestType, SparesOwner, Goto

LEMMA FinishType ==
  ASSUME RequestOK, NEW w \in Workers, Finish(w)
  PROVE  RequestOK'
  BY DEF RequestOK, RequestType, SparesOwner, Finish, PC, Roles, Aimed

LEMMA AddedType ==
  ASSUME RequestOK, NEW w \in Workers, NEW t \in Users, Added(w, t)
  PROVE  RequestOK'
  BY DEF RequestOK, RequestType, SparesOwner, Added, PC, Aimed

LEMMA MembersCount == Cardinality(Members) \in Nat
  BY GroupAssumption, FS_Subset, FS_CardinalityType DEF Members

LEMMA ServeRequest ==
  ASSUME IInv, NEW w \in Workers, Serve(w)
  PROVE  RequestOK'
<1>0. RequestOK /\ TableType
  BY DEF IInv, RequestOK
<1>1. CASE JoinInsert(w) \/ ApproveTell(w) \/ AddTell(w) \/ RemoveTell(w) \/ AppointUpdate(w)
           \/ DissolveTell(w)
  BY <1>0, <1>1, FinishType
     DEF JoinInsert, ApproveTell, AddTell, RemoveTell, AppointUpdate, DissolveTell
<1>2. CASE ApproveCount(w)
  BY <1>0, <1>2, FinishType, GotoType DEF ApproveCount, PC, Aimed
<1>3. CASE ApproveUpdate(w)
  BY <1>0, <1>3, FinishType, GotoType DEF ApproveUpdate, PC, Aimed
<1>4. CASE RemoveTarget(w)
  BY <1>0, <1>4, FinishType, GotoType DEF RemoveTarget, PC, Aimed
<1>5. CASE RemoveDelete(w)
  BY <1>0, <1>5, FinishType, GotoType DEF RemoveDelete, PC, Aimed
<1>6. CASE ForgetDelete(w)
  BY <1>0, <1>6, GotoType DEF ForgetDelete, PC, Aimed
<1>7. CASE DissolveDelete(w)
  BY <1>0, <1>7, FinishType, GotoType DEF DissolveDelete, PC, Aimed
<1>8. CASE DissolveList(w)
  BY <1>0, <1>8 DEF DissolveList, RequestOK, RequestType, SparesOwner, PC, Aimed, Members
<1>9. CASE AddCount(w)
  <2>1. ASSUME pc' = [pc EXCEPT ![w] = "d_next"],
               count' = [count EXCEPT ![w] = Cardinality(Members)],
               UNCHANGED <<actor, target, saw, todo, added, overlapped>>
        PROVE  RequestOK'
    BY <1>0, <2>1, MembersCount DEF RequestOK, RequestType, SparesOwner, PC, Aimed
  <2>2. QED
    BY <1>0, <1>9, <2>1, FinishType DEF AddCount
<1>10. ASSUME NEW t \in Users, AddSkip(w, t) PROVE RequestOK'
  BY <1>0, <1>10 DEF AddSkip, RequestOK, RequestType, SparesOwner
<1>11. ASSUME NEW t \in Users, AddPromote(w, t) PROVE RequestOK'
  <2>1. ASSUME pc' = [pc EXCEPT ![w] = "d_insert"], target' = [target EXCEPT ![w] = t],
               UNCHANGED <<actor, saw, todo, count, added, overlapped>>
        PROVE  RequestOK'
    BY <1>0, <2>1 DEF RequestOK, RequestType, SparesOwner, PC, Aimed
  <2>2. QED
    BY <1>0, <1>11, <2>1, AddedType DEF AddPromote
<1>12. CASE AddInsert(w)
  <2>1. target[w] \in Users
    BY <1>0, <1>12 DEF RequestOK, RequestType, Aimed, AddInsert
  <2>2. ASSUME pc' = [pc EXCEPT ![w] = "d_next"], target' = [target EXCEPT ![w] = None],
               todo' = [todo EXCEPT ![w] = @ \ {target[w]}], UNCHANGED <<actor, saw, count, added, overlapped>>
        PROVE  RequestOK'
    BY <1>0, <2>2 DEF RequestOK, RequestType, SparesOwner, PC, Aimed
  <2>3. QED
    BY <1>0, <1>12, <2>1, <2>2, AddedType DEF AddInsert
<1>13. QED
  BY <1>1, <1>2, <1>3, <1>4, <1>5, <1>6, <1>7, <1>8, <1>9, <1>10, <1>11, <1>12 DEF Serve

LEMMA AskRequest ==
  ASSUME IInv, NEW w \in Workers, NEW u \in Users, Ask(w, u)
  PROVE  RequestOK'
<1>0. RequestOK /\ TableType
  BY DEF IInv, RequestOK
<1>1. CASE Join(w, u)
  BY <1>0, <1>1, ArriveType DEF Join, PC
<1>2. CASE Leave(w, u)
  BY <1>0, <1>2, ArriveType DEF Leave, PC
<1>3. CASE Forget(w, u)
  <2>1. u # Owner
    BY <1>3, RowThere DEF IInv, Forget
  <2>2. QED
    BY <1>0, <1>3, <2>1, ArriveType DEF Forget, PC
<1>4. CASE Dissolve(w, u)
  BY <1>0, <1>4, ArriveType DEF Dissolve, PC, Aimed
<1>5. ASSUME NEW t \in Users, Approve(w, u, t) PROVE RequestOK'
  BY <1>0, <1>5, ArriveType DEF Approve, PC
<1>6. ASSUME NEW t \in Users, Remove(w, u, t) PROVE RequestOK'
  BY <1>0, <1>6, ArriveType DEF Remove, PC
<1>7. ASSUME NEW t \in Users, Appoint(w, u, t) PROVE RequestOK'
  BY <1>0, <1>7, ArriveType DEF Appoint, PC
<1>8. ASSUME NEW S \in SUBSET Users, Add(w, u, S) PROVE RequestOK'
  BY <1>0, <1>8 DEF Add, Note, RequestOK, RequestType, SparesOwner, PC, Aimed
<1>9. QED
  BY <1>1, <1>2, <1>3, <1>4, <1>5, <1>6, <1>7, <1>8 DEF Ask

-----------------------------------------------------------------------------
(* The clients *)

LEMMA TellType ==
  ASSUME ClientType, NEW S, NEW event \in {"added", "removed"}, Tell(S, event)
  PROVE  ClientType'
<1>1. \A u \in Users : Append(inbox[u], event) \in Seq({"added", "removed"})
  BY DEF ClientType
<1>2. PICK H \in SUBSET (S \cap Clients) :
        inbox' = [u \in Users |-> IF u \in H THEN Append(inbox[u], event) ELSE inbox[u]]
  BY DEF Tell
<1>3. inbox' \in [Users -> Seq({"added", "removed"})]
  BY <1>1, <1>2 DEF ClientType
<1>4. misled' \in SUBSET Clients /\ UNCHANGED <<listed, loads>>
  BY DEF ClientType, Tell
<1>5. QED
  BY <1>3, <1>4 DEF ClientType

LEMMA ServeClient ==
  ASSUME IInv, NEW w \in Workers, Serve(w)
  PROVE  ClientType'
<1>0. ClientType
  BY DEF IInv
<1>1. CASE ApproveTell(w) \/ AddTell(w) \/ RemoveTell(w) \/ DissolveTell(w)
  BY <1>0, <1>1, TellType DEF ApproveTell, AddTell, RemoveTell, DissolveTell
<1>2. CASE UNCHANGED client
  BY <1>0, <1>2 DEF client, ClientType
<1>3. JoinInsert(w) \/ ApproveCount(w) \/ ApproveUpdate(w) \/ AddCount(w) \/ AddInsert(w)
      \/ RemoveTarget(w) \/ RemoveDelete(w) \/ ForgetDelete(w) \/ AppointUpdate(w)
      \/ DissolveList(w) \/ DissolveDelete(w)
      => UNCHANGED client
  BY DEF JoinInsert, ApproveCount, ApproveUpdate, AddCount, AddInsert, RemoveTarget, RemoveDelete,
         ForgetDelete, AppointUpdate, DissolveList, DissolveDelete, client
<1>4. ASSUME NEW t \in Users, AddSkip(w, t) \/ AddPromote(w, t) PROVE UNCHANGED client
  BY <1>4 DEF AddSkip, AddPromote, client
<1>5. QED
  BY <1>1, <1>2, <1>3, <1>4 DEF Serve

LEMMA AskClient ==
  ASSUME IInv, NEW w \in Workers, NEW u \in Users, Ask(w, u)
  PROVE  ClientType'
<1>1. UNCHANGED client
  <2>1. CASE Join(w, u) \/ Leave(w, u) \/ Forget(w, u) \/ Dissolve(w, u)
    BY <2>1 DEF Join, Leave, Forget, Dissolve, client
  <2>2. ASSUME NEW t \in Users, Approve(w, u, t) \/ Remove(w, u, t) \/ Appoint(w, u, t)
        PROVE  UNCHANGED client
    BY <2>2 DEF Approve, Remove, Appoint, client
  <2>3. ASSUME NEW S \in SUBSET Users, Add(w, u, S) PROVE UNCHANGED client
    BY <2>3 DEF Add, client
  <2>4. QED
    BY <2>1, <2>2, <2>3 DEF Ask
<1>2. QED
  BY <1>1 DEF client, IInv, ClientType

LEMMA HearClient ==
  ASSUME IInv, NEW u \in Clients, Hear(u)
  PROVE  ClientType'
<1> USE GroupAssumption
<1>0. ClientType /\ u \in Users
  BY DEF IInv
<1>1. inbox[u] \in Seq({"added", "removed"}) /\ loads[u] \in Seq({"asked", "in", "out"})
  BY <1>0 DEF ClientType
<1>2. inbox[u] # <<>> => Tail(inbox[u]) \in Seq({"added", "removed"})
  BY <1>1
<1>3. CASE HearRemoved(u)
  BY <1>0, <1>2, <1>3 DEF HearRemoved, Received, Mislead, ClientType
<1>4. ASSUME AskList(u) PROVE loads' \in [Users -> Seq({"asked", "in", "out"})]
  <2>1. Append(loads[u], "asked") \in Seq({"asked", "in", "out"})
    BY <1>1
  <2>2. QED
    BY <1>0, <1>4, <2>1 DEF AskList, ClientType
<1>4a. CASE HearAdded(u)
  BY <1>0, <1>2, <1>4, <1>4a DEF HearAdded, Received, Mislead, ClientType
<1>4b. CASE Load(u)
  BY <1>0, <1>4, <1>4b DEF Load, ClientType
<1>5. ASSUME NEW k \in DOMAIN loads[u], LoadRead(u, k) PROVE ClientType'
  <2>1. PICK v \in {"in", "out"} : loads' = [loads EXCEPT ![u] = [@ EXCEPT ![k] = v]]
    BY <1>5 DEF LoadRead
  <2>2. [loads[u] EXCEPT ![k] = v] \in Seq({"asked", "in", "out"})
    BY <1>1
  <2>3. QED
    BY <1>0, <1>5, <2>1, <2>2 DEF LoadRead, ClientType
<1>6. ASSUME NEW k \in DOMAIN loads[u], Loaded(u, k) \/ LoadFailed(u, k) PROVE ClientType'
  <2>1. k \in 1..Len(loads[u])
    BY <1>1
  <2>2. SubSeq(loads[u], 1, k - 1) \in Seq({"asked", "in", "out"})
    BY <1>1, <2>1
  <2>3. SubSeq(loads[u], k + 1, Len(loads[u])) \in Seq({"asked", "in", "out"})
    BY <1>1, <2>1
  <2>4. Without(loads[u], k) \in Seq({"asked", "in", "out"})
    BY <2>2, <2>3 DEF Without
  <2>5. loads' \in [Users -> Seq({"asked", "in", "out"})]
    BY <1>0, <1>6, <2>4 DEF Loaded, LoadFailed, ClientType
  <2>6. QED
    BY <1>0, <1>6, <2>5 DEF Loaded, LoadFailed, Show, Mislead, ClientType
<1>7. QED
  BY <1>3, <1>4a, <1>4b, <1>5, <1>6 DEF Hear

-----------------------------------------------------------------------------
LEMMA Initially == Init => IInv
<1> SUFFICES ASSUME Init PROVE IInv
  OBVIOUS
<1> USE GroupAssumption
<1>1. TableType
  BY DEF Init, TableType, Roles
<1>2. RequestType /\ SparesOwner
  BY DEF Init, RequestType, SparesOwner, PC, Roles, Aimed
<1>3. ClientType
  <2>1. inbox \in [Users -> Seq({"added", "removed"})]
    BY DEF Init
  <2>2. loads \in [Users -> Seq({"asked", "in", "out"})]
    BY DEF Init
  <2>3. listed \in SUBSET Clients /\ misled \in SUBSET Clients
    BY DEF Init
  <2>4. QED
    BY <2>1, <2>2, <2>3 DEF ClientType
<1>4. OwnerStays
  BY DEF Init, OwnerStays
<1>5. QED
  BY <1>1, <1>2, <1>3, <1>4 DEF IInv

LEMMA Inductive == IInv /\ [Next]_vars => IInv'
<1>1. ASSUME IInv, [Next]_vars PROVE TableType' /\ OwnerStays'
  <2>1. CASE M!Next
    BY <1>1, <2>1, MembershipStep DEF IInv
  <2>2. CASE UNCHANGED M!vars
    BY <1>1, <2>2 DEF IInv, M!vars, TableType, OwnerStays
  <2>3. QED
    BY <1>1, <2>1, <2>2, NextRows
<1>2. ASSUME IInv, Next PROVE RequestOK' /\ ClientType'
  <2>1. ASSUME NEW w \in Workers, Serve(w) PROVE RequestOK' /\ ClientType'
    BY <1>2, <2>1, ServeRequest, ServeClient
  <2>2. ASSUME NEW w \in Workers, NEW u \in Users, Ask(w, u) PROVE RequestOK' /\ ClientType'
    BY <1>2, <2>2, AskRequest, AskClient
  <2>3. ASSUME NEW u \in Clients, Hear(u) PROVE RequestOK' /\ ClientType'
    <3>1. UNCHANGED request /\ ClientType'
      BY <1>2, <2>3, HearRows, HearClient
    <3>2. QED
      BY <1>2, <3>1 DEF request, IInv, RequestOK, RequestType, SparesOwner
  <2>4. QED
    BY <1>2, <2>1, <2>2, <2>3 DEF Next
<1>3. ASSUME IInv, UNCHANGED vars PROVE RequestOK' /\ ClientType'
  BY <1>3 DEF vars, IInv, RequestOK, RequestType, SparesOwner, ClientType
<1>4. QED
  BY <1>1, <1>2, <1>3 DEF IInv, RequestOK

LEMMA Always == Spec => []IInv
  BY Initially, Inductive, PTL DEF Spec

(* The types of Groups hold for any number of users and requests.          *)
THEOREM TypeCorrect == Spec => []TypeOK
<1>1. IInv => TypeOK
  BY TypesTogether DEF IInv
<1>2. QED
  BY <1>1, Always, PTL

(* However requests overlap, the group keeps its owner until it is         *)
(* dissolved, and nobody else becomes owner.                               *)
THEOREM OwnerStaysHolds == Spec => []OwnerStays
<1>1. IInv => OwnerStays
  BY DEF IInv
<1>2. QED
  BY <1>1, Always, PTL

(* However requests overlap, who is a member and stays one keeps the       *)
(* history they see.                                                       *)
THEOREM HistoryKeptHolds == Spec => HistoryKept
<1>1. IInv /\ [Next]_vars =>
        [\A u \in Users : role[u] \in Full /\ role'[u] \in Full => since'[u] = since[u]]_vars
  <2>1. CASE M!Next
    BY <2>1, MembershipStep DEF IInv
  <2>2. CASE UNCHANGED M!vars
    BY <2>2 DEF M!vars
  <2>3. QED
    BY <2>1, <2>2, NextRows
<1>2. QED
  BY <1>1, Always, PTL DEF Spec, HistoryKept

(* The handlers, statement by statement, implement the life of a           *)
(* membership that Membership describes.                                   *)
THEOREM MembershipImplemented == Spec => ImplementsMembership
<1>1. Init => M!Init
  BY DEF Init, M!Init
<1>2. QED
  BY <1>1, NextRows, Always, PTL DEF Spec, ImplementsMembership, M!Spec

-----------------------------------------------------------------------------
(* Requests that do not overlap *)

(* Who has been added by a request is known as long as it goes on adding.  *)
Emptied == \A w \in Workers : pc[w] \notin {"d_next", "d_insert"} => added[w] = {}

(* As long as no two requests have been under way at the same time: one is *)
(* at work at most, the group is within its limit, and the request still   *)
(* finds what it has read or counted.                                      *)
Alone == \A v, w \in Workers : pc[v] # "idle" /\ pc[w] # "idle" => v = w

Knows(w) ==
  /\ pc[w] = "p_update" => Cardinality(Members) < Capacity
  /\ pc[w] \in {"d_next", "d_insert"} => Cardinality(Members) <= count[w]
  /\ pc[w] = "d_insert" => count[w] < Capacity
  /\ pc[w] = "f_delete" => target[w] \in Members
  /\ pc[w] = "x_delete" => todo[w] = Members

Orderly ==
  ~overlapped =>
    /\ Alone
    /\ Cardinality(Members) <= Capacity
    /\ \A w \in Workers : Knows(w)

LEMMA MembersFinite == IsFiniteSet(Members)
  BY GroupAssumption, FS_Subset DEF Members

(* One more member, or none that was not one before.                       *)
LEMMA AdmitCount ==
  ASSUME TableType, NEW u \in Users, Admit(u)
  PROVE  Members' = Members \cup {u} /\ Cardinality(Members') <= Cardinality(Members) + 1
<1>1. Members' = Members \cup {u}
  BY DEF TableType, Admit, Become, Members, Full
<1>2. QED
  BY <1>1, MembersFinite, MembersCount, FS_AddElement

LEMMA FewerCount ==
  ASSUME Members' \subseteq Members
  PROVE  Cardinality(Members') <= Cardinality(Members)
  BY MembersFinite, FS_Subset

(* The request that is served is the only one, before and after.           *)
LEMMA ServedGoes ==
  ASSUME IInv, NEW w \in Workers, Serve(w)
  PROVE  /\ pc[w] # "idle" /\ overlapped' = overlapped
         /\ \A v \in Workers \ {w} : pc'[v] = pc[v] /\ target'[v] = target[v] /\ todo'[v] = todo[v]
                                     /\ count'[v] = count[v] /\ added'[v] = added[v]
<1> DEFINE Others == \A v \in Workers \ {w} : pc'[v] = pc[v] /\ target'[v] = target[v] /\ todo'[v] = todo[v]
                                              /\ count'[v] = count[v] /\ added'[v] = added[v]
<1>1. ASSUME NEW l, Goto(w, l) PROVE overlapped' = overlapped /\ Others
  BY <1>1 DEF Goto, IInv, RequestType
<1>2. Finish(w) => overlapped' = overlapped /\ Others
  BY DEF Finish, IInv, RequestType
<1>3. ASSUME NEW t \in Users, Added(w, t) PROVE overlapped' = overlapped /\ Others
  BY <1>3 DEF Added, IInv, RequestType
<1>4. CASE JoinInsert(w) \/ ApproveTell(w) \/ AddTell(w) \/ RemoveTell(w) \/ AppointUpdate(w) \/ DissolveTell(w)
  BY <1>2, <1>4 DEF JoinInsert, ApproveTell, AddTell, RemoveTell, AppointUpdate, DissolveTell
<1>5. CASE ApproveCount(w) \/ ApproveUpdate(w) \/ RemoveTarget(w) \/ RemoveDelete(w) \/ ForgetDelete(w)
           \/ DissolveDelete(w)
  BY <1>1, <1>2, <1>5
     DEF ApproveCount, ApproveUpdate, RemoveTarget, RemoveDelete, ForgetDelete, DissolveDelete
<1>6. CASE AddCount(w)
  BY <1>2, <1>6 DEF AddCount, IInv, RequestType
<1>7. CASE AddInsert(w)
  <2>1. target[w] \in Users /\ pc[w] # "idle"
    BY <1>7 DEF AddInsert, IInv, RequestType, Aimed
  <2>2. QED
    BY <1>3, <1>7, <2>1 DEF AddInsert, IInv, RequestType
<1>8. CASE DissolveList(w)
  BY <1>8 DEF DissolveList, IInv, RequestType
<1>9. ASSUME NEW t \in Users, AddSkip(w, t) PROVE pc[w] # "idle" /\ overlapped' = overlapped /\ Others
  BY <1>9 DEF AddSkip, IInv, RequestType
<1>10. ASSUME NEW t \in Users, AddPromote(w, t) PROVE pc[w] # "idle" /\ overlapped' = overlapped /\ Others
  BY <1>3, <1>10 DEF AddPromote, IInv, RequestType
<1>11. QED
  BY <1>4, <1>5, <1>6, <1>7, <1>8, <1>9, <1>10 DEF Serve

LEMMA AskedGoes ==
  ASSUME IInv, NEW w \in Workers, NEW u \in Users, Ask(w, u)
  PROVE  /\ Note /\ pc[w] = "idle"
         /\ UNCHANGED <<table, client, added>>
         /\ pc'[w] \notin {"d_next", "d_insert", "p_update", "x_delete", "p_tell", "r_tell", "x_tell"}
         /\ pc'[w] = "f_delete" => target'[w] \in Members
         /\ \A v \in Workers \ {w} : pc'[v] = pc[v] /\ target'[v] = target[v] /\ todo'[v] = todo[v]
                                     /\ count'[v] = count[v]
<1>1. ASSUME NEW l, NEW t, Arrive(w, l, u, t)
      PROVE  /\ Note /\ UNCHANGED added /\ pc'[w] = l /\ target'[w] = t
             /\ \A v \in Workers \ {w} : pc'[v] = pc[v] /\ target'[v] = target[v] /\ todo'[v] = todo[v]
                                         /\ count'[v] = count[v]
  BY <1>1 DEF Arrive, IInv, RequestType
<1>2. CASE Join(w, u) \/ Leave(w, u) \/ Dissolve(w, u)
  BY <1>1, <1>2 DEF Join, Leave, Dissolve, Free, table, client
<1>3. CASE Forget(w, u)
  <2>1. u \in Members
    BY <1>3 DEF Forget, Members, Full
  <2>2. QED
    BY <1>1, <1>3, <2>1 DEF Forget, Free, table, client
<1>4. ASSUME NEW t \in Users, Approve(w, u, t) PROVE pc'[w] = "p_count" /\ UNCHANGED <<table, client>>
                                                     /\ Arrive(w, "p_count", u, t) /\ pc[w] = "idle"
  BY <1>1, <1>4 DEF Approve, Free, table, client
<1>5. ASSUME NEW t \in Users, Remove(w, u, t) PROVE pc'[w] = "r_target" /\ UNCHANGED <<table, client>>
                                                    /\ Arrive(w, "r_target", u, t) /\ pc[w] = "idle"
  BY <1>1, <1>5 DEF Remove, Free, table, client
<1>6. ASSUME NEW t \in Users, Appoint(w, u, t)
      PROVE  UNCHANGED <<table, client>> /\ (Arrive(w, "m_admin", u, t) \/ Arrive(w, "m_member", u, t))
             /\ pc[w] = "idle"
  BY <1>6 DEF Appoint, Free, table, client
<1>7. ASSUME NEW S \in SUBSET Users, Add(w, u, S)
      PROVE  /\ Note /\ UNCHANGED added /\ pc'[w] = "d_count" /\ pc[w] = "idle"
             /\ UNCHANGED <<table, client>>
             /\ \A v \in Workers \ {w} : pc'[v] = pc[v] /\ target'[v] = target[v] /\ todo'[v] = todo[v]
                                         /\ count'[v] = count[v]
  BY <1>7 DEF Add, Free, IInv, RequestType, table, client
<1>8. QED
  BY <1>1, <1>2, <1>3, <1>4, <1>5, <1>6, <1>7 DEF Ask

LEMMA EmptiedStep == IInv /\ Emptied /\ [Next]_vars => Emptied'
<1>1. ASSUME IInv, Emptied, NEW w \in Workers, Serve(w) PROVE Emptied'
  <2>1. \A v \in Workers \ {w} : pc'[v] = pc[v] /\ added'[v] = added[v]
    BY <1>1, ServedGoes
  <2>2. pc'[w] \notin {"d_next", "d_insert"} => added'[w] = {}
    <3>1. Finish(w) => added'[w] = {}
      BY <1>1 DEF Finish, IInv, RequestType
    <3>2. ASSUME NEW l, Goto(w, l), pc[w] \notin {"d_next", "d_insert"} PROVE added'[w] = {}
      BY <1>1, <3>2 DEF Goto, Emptied
    <3>3. CASE JoinInsert(w) \/ ApproveTell(w) \/ AddTell(w) \/ RemoveTell(w) \/ AppointUpdate(w)
               \/ DissolveTell(w)
      BY <3>1, <3>3 DEF JoinInsert, ApproveTell, AddTell, RemoveTell, AppointUpdate, DissolveTell
    <3>4. CASE ApproveCount(w) \/ ApproveUpdate(w) \/ RemoveTarget(w) \/ RemoveDelete(w)
               \/ ForgetDelete(w) \/ DissolveDelete(w)
      BY <3>1, <3>2, <3>4
         DEF ApproveCount, ApproveUpdate, RemoveTarget, RemoveDelete, ForgetDelete, DissolveDelete
    <3>5. CASE AddCount(w)
      BY <1>1, <3>1, <3>5 DEF AddCount, IInv, RequestType
    <3>6. CASE AddInsert(w)
      BY <1>1, <3>6 DEF AddInsert, Added, IInv, RequestType
    <3>7. CASE DissolveList(w)
      BY <1>1, <3>7 DEF DissolveList, Emptied
    <3>8. ASSUME NEW t \in Users, AddSkip(w, t) \/ AddPromote(w, t) PROVE pc'[w] \in {"d_next", "d_insert"}
      BY <1>1, <3>8 DEF AddSkip, AddPromote, Added, IInv, RequestType
    <3>9. QED
      BY <1>1, <3>3, <3>4, <3>5, <3>6, <3>7, <3>8 DEF Serve
  <2>3. QED
    BY <1>1, <2>1, <2>2 DEF Emptied
<1>2. ASSUME IInv, Emptied, NEW w \in Workers, NEW u \in Users, Ask(w, u) PROVE Emptied'
  BY <1>2, AskedGoes DEF Emptied
<1>3. ASSUME Emptied, NEW u \in Clients, Hear(u) PROVE Emptied'
  BY <1>3, HearRows DEF Emptied, request
<1>4. Emptied /\ UNCHANGED vars => Emptied'
  BY DEF Emptied, vars
<1>5. QED
  BY <1>1, <1>2, <1>3, <1>4 DEF Next

LEMMA OrderlyBy ==
  ASSUME NEW w \in Workers, \A v \in Workers \ {w} : pc'[v] = "idle",
         Cardinality(Members') <= Capacity, Knows(w)'
  PROVE  Orderly'
  BY DEF Orderly, Alone, Knows

LEMMA OrderlyServe ==
  ASSUME IInv, Orderly, NEW w \in Workers, Serve(w)
  PROVE  Orderly'
<1> SUFFICES ASSUME ~overlapped' PROVE Orderly'
  BY DEF Orderly
<1>1. pc[w] # "idle" /\ ~overlapped
  BY ServedGoes
<1>2. \A v \in Workers \ {w} : pc'[v] = "idle"
  BY <1>1, ServedGoes DEF Orderly, Alone
<1>3. Knows(w) /\ Cardinality(Members) <= Capacity
  BY <1>1 DEF Orderly
<1>4. /\ Cardinality(Members) \in Nat /\ Cardinality(Members') \in Nat /\ Capacity \in Nat
      /\ count[w] \in Nat /\ count'[w] \in Nat
      /\ TableType /\ RequestType
  <2>1. RequestType'
    BY ServeRequest DEF RequestOK
  <2>2. IsFiniteSet(Members')
    BY GroupAssumption, FS_Subset DEF Members
  <2>3. Cardinality(Members') \in Nat
    BY <2>2, FS_CardinalityType
  <2>4. QED
    BY <2>1, <2>3, MembersCount, GroupAssumption DEF IInv, RequestType
(* The request is over, or goes on to a step that asks for nothing.        *)
<1>5. ASSUME Members' \subseteq Members,
             pc'[w] \notin {"p_update", "d_next", "d_insert", "f_delete", "x_delete"}
      PROVE  Orderly'
  <2>1. Cardinality(Members') <= Capacity
    BY <1>3, <1>4, <1>5, FewerCount
  <2>2. QED
    BY <1>2, <1>5, <2>1, OrderlyBy DEF Knows
<1>6. (\E l : Goto(w, l) /\ l \notin {"p_update", "d_next", "d_insert", "f_delete", "x_delete"}) \/ Finish(w)
        => pc'[w] \notin {"p_update", "d_next", "d_insert", "f_delete", "x_delete"}
  BY <1>4 DEF Goto, Finish, RequestType
<1>7. UNCHANGED <<exists, role>> \/ UNCHANGED table => Members' = Members
  BY DEF Members, table
<1>8. CASE JoinInsert(w)
  <2>1. target[w] \in Users /\ Finish(w)
    BY <1>4, <1>8 DEF RequestType, Aimed, JoinInsert
  <2>2. role[target[w]] = "none" /\ Become(target[w], "pending") => Members' \subseteq Members
    BY <1>4, <2>1 DEF TableType, Become, Members, Full
  <2>3. QED
    BY <1>5, <1>6, <1>7, <1>8, <2>1, <2>2 DEF JoinInsert
<1>9. CASE ApproveTell(w) \/ AddTell(w) \/ RemoveTell(w) \/ DissolveTell(w)
  BY <1>5, <1>6, <1>7, <1>9 DEF ApproveTell, AddTell, RemoveTell, DissolveTell
<1>10. CASE ApproveCount(w)
  <2>1. Members' = Members
    BY <1>10 DEF ApproveCount, Members
  <2>2. CASE Cardinality(Members) < Capacity /\ Goto(w, "p_update")
    <3>1. pc'[w] = "p_update"
      BY <1>4, <2>2 DEF Goto, RequestType
    <3>2. QED
      BY <1>2, <1>3, <2>1, <2>2, <3>1, OrderlyBy DEF Knows
  <2>3. QED
    BY <1>5, <1>6, <1>10, <2>1, <2>2 DEF ApproveCount
<1>11. CASE ApproveUpdate(w)
  <2>1. target[w] \in Users
    BY <1>4, <1>11 DEF RequestType, Aimed, ApproveUpdate
  <2>2. CASE Admit(target[w]) /\ Goto(w, "p_tell")
    <3>1. Cardinality(Members') <= Capacity
      BY <1>3, <1>4, <1>11, <2>1, <2>2, AdmitCount DEF ApproveUpdate, Knows
    <3>2. pc'[w] = "p_tell"
      BY <1>4, <2>2 DEF Goto, RequestType
    <3>3. QED
      BY <1>2, <3>1, <3>2, OrderlyBy DEF Knows
  <2>3. QED
    BY <1>5, <1>6, <1>7, <1>11, <2>2 DEF ApproveUpdate
<1>12. CASE AddCount(w)
  <2>1. Members' = Members
    BY <1>12 DEF AddCount, Members
  <2>2. CASE pc' = [pc EXCEPT ![w] = "d_next"] /\ count' = [count EXCEPT ![w] = Cardinality(Members)]
    <3>1. pc'[w] = "d_next" /\ count'[w] = Cardinality(Members)
      BY <1>4, <2>2 DEF RequestType
    <3>2. Knows(w)'
      BY <1>4, <2>1, <3>1 DEF Knows
    <3>3. QED
      BY <1>2, <1>3, <2>1, <3>2, OrderlyBy
  <2>3. QED
    BY <1>5, <1>6, <1>12, <2>1, <2>2 DEF AddCount
(* One more member has been counted with the others.                       *)
<1>13. ASSUME NEW t \in Users, Admit(t), Added(w, t), pc[w] \in {"d_next", "d_insert"}, count[w] < Capacity
       PROVE  Orderly'
  <2>1. pc'[w] = "d_next" /\ count'[w] = count[w] + 1
    BY <1>4, <1>13 DEF Added, RequestType
  <2>2. Cardinality(Members') <= Cardinality(Members) + 1
    BY <1>4, <1>13, AdmitCount
  <2>3. Cardinality(Members) <= count[w]
    BY <1>3, <1>13 DEF Knows
  <2>4. Cardinality(Members') <= count'[w] /\ Cardinality(Members') <= Capacity
    BY <1>4, <1>13, <2>1, <2>2, <2>3
  <2>5. Knows(w)'
    BY <2>1, <2>4 DEF Knows
  <2>6. QED
    BY <1>2, <2>4, <2>5, OrderlyBy
<1>14. CASE AddInsert(w)
  <2>1. target[w] \in Users /\ count[w] < Capacity
    BY <1>3, <1>4, <1>14 DEF RequestType, Aimed, AddInsert, Knows
  <2>2. CASE pc' = [pc EXCEPT ![w] = "d_next"] /\ UNCHANGED count /\ UNCHANGED table
    <3>1. pc'[w] = "d_next" /\ Members' = Members /\ count'[w] = count[w]
      BY <1>4, <1>7, <2>2 DEF RequestType
    <3>2. Knows(w)'
      BY <1>3, <1>14, <3>1 DEF AddInsert, Knows
    <3>3. QED
      BY <1>2, <1>3, <3>1, <3>2, OrderlyBy
  <2>3. QED
    BY <1>13, <1>14, <2>1, <2>2 DEF AddInsert
<1>15. ASSUME NEW t \in Users, AddPromote(w, t) PROVE Orderly'
  <2>1. CASE pc' = [pc EXCEPT ![w] = "d_insert"] /\ UNCHANGED count /\ UNCHANGED table
    <3>1. pc'[w] = "d_insert" /\ Members' = Members /\ count'[w] = count[w]
      BY <1>4, <1>7, <2>1 DEF RequestType
    <3>2. Knows(w)'
      BY <1>3, <1>15, <3>1 DEF AddPromote, Knows
    <3>3. QED
      BY <1>2, <1>3, <3>1, <3>2, OrderlyBy
  <2>2. QED
    BY <1>13, <1>15, <2>1 DEF AddPromote
<1>16. ASSUME NEW t \in Users, AddSkip(w, t) PROVE Orderly'
  <2>1. pc'[w] = pc[w] /\ Members' = Members /\ count'[w] = count[w] /\ pc[w] = "d_next"
    BY <1>16 DEF AddSkip, Members
  <2>2. Knows(w)'
    BY <1>3, <2>1 DEF Knows
  <2>3. QED
    BY <1>2, <1>3, <2>1, <2>2, OrderlyBy
<1>17. CASE RemoveTarget(w)
  BY <1>5, <1>6, <1>7, <1>17 DEF RemoveTarget
<1>18. ASSUME NEW u \in Users, Become(u, "none") PROVE Members' \subseteq Members
  BY <1>4, <1>18 DEF TableType, Become, Members, Full
<1>19. CASE RemoveDelete(w)
  <2>1. target[w] \in Users
    BY <1>4, <1>19 DEF RequestType, Aimed, RemoveDelete
  <2>2. QED
    BY <1>5, <1>6, <1>7, <1>18, <1>19, <2>1 DEF RemoveDelete, Erase
<1>20. CASE ForgetDelete(w)
  <2>1. target[w] \in Users
    BY <1>4, <1>20 DEF RequestType, Aimed, ForgetDelete
  <2>2. QED
    BY <1>5, <1>6, <1>18, <1>20, <2>1 DEF ForgetDelete, Erase
<1>21. CASE AppointUpdate(w)
  <2>1. target[w] \in Users
    BY <1>4, <1>21 DEF RequestType, Aimed, AppointUpdate
  <2>2. ASSUME NEW r, role[target[w]] \in {"member", "admin"}, Become(target[w], r)
        PROVE  Members' \subseteq Members
    BY <1>4, <2>1, <2>2 DEF TableType, Become, Members, Full
  <2>3. QED
    BY <1>5, <1>6, <1>7, <1>21, <2>2 DEF AppointUpdate
<1>22. CASE DissolveList(w)
  <2>1. pc'[w] = "x_delete" /\ todo'[w] = Members /\ Members' = Members
    BY <1>4, <1>22 DEF DissolveList, RequestType, Members
  <2>2. Knows(w)'
    BY <2>1 DEF Knows
  <2>3. QED
    BY <1>2, <1>3, <2>1, <2>2, OrderlyBy
<1>23. CASE DissolveDelete(w)
  <2>1. role' = [u \in Users |-> "none"] => Members' \subseteq Members
    BY DEF Members, Full
  <2>2. QED
    BY <1>5, <1>6, <1>7, <1>23, <2>1 DEF DissolveDelete
<1>24. QED
  BY <1>8, <1>9, <1>10, <1>11, <1>12, <1>14, <1>15, <1>16, <1>17, <1>19, <1>20, <1>21, <1>22, <1>23 DEF Serve

LEMMA OrderlyStep == IInv /\ Orderly /\ [Next]_vars => Orderly'
<1>1. ASSUME IInv, Orderly, NEW w \in Workers, NEW u \in Users, Ask(w, u) PROVE Orderly'
  <2> SUFFICES ASSUME ~overlapped' PROVE Orderly'
    BY DEF Orderly
  <2>1. ~overlapped /\ \A v \in Workers : pc[v] = "idle"
    BY <1>1, AskedGoes DEF Note
  <2>2. Members' = Members
    BY <1>1, AskedGoes DEF table, Members
  <2>3. Knows(w)'
    <3>1. /\ pc'[w] \notin {"d_next", "d_insert", "p_update", "x_delete"}
          /\ pc'[w] = "f_delete" => target'[w] \in Members'
      BY <1>1, <2>2, AskedGoes
    <3>2. QED
      BY <3>1 DEF Knows
  <2>4. Cardinality(Members') <= Capacity
    BY <1>1, <2>1, <2>2 DEF Orderly
  <2>5. \A v \in Workers \ {w} : pc'[v] = "idle"
    BY <1>1, <2>1, AskedGoes
  <2>6. QED
    BY <2>3, <2>4, <2>5, OrderlyBy
<1>2. ASSUME Orderly, UNCHANGED table, UNCHANGED request PROVE Orderly'
  <2>1. Members' = Members
    BY <1>2 DEF table, Members
  <2>2. \A w \in Workers : Knows(w) => Knows(w)'
    BY <1>2, <2>1 DEF Knows, request
  <2>3. QED
    BY <1>2, <2>1, <2>2 DEF Orderly, Alone, request
<1>3. ASSUME Orderly, NEW u \in Clients, Hear(u) PROVE Orderly'
  BY <1>2, <1>3, HearRows
<1>4. Orderly /\ UNCHANGED vars => Orderly'
  BY <1>2 DEF vars, table, request
<1>5. QED
  BY <1>1, <1>3, <1>4, OrderlyServe DEF Next

LEMMA OrderlyAlways == Spec => [](IInv /\ Emptied /\ Orderly)
<1>1. Init => Emptied /\ Orderly
  BY DEF Init, Emptied, Orderly, Alone, Knows
<1>2. QED
  BY <1>1, EmptiedStep, OrderlyStep, Always, PTL DEF Spec

(* As long as no requests overlap, the group holds no more members than    *)
(* its limit, however many are added at a time.                            *)
THEOREM WithinCapacityHolds == Spec => []WithinCapacity
<1>1. Orderly => WithinCapacity
  BY DEF Orderly, WithinCapacity
<1>2. QED
  BY <1>1, OrderlyAlways, PTL

-----------------------------------------------------------------------------
(* The conversation list of a client *)

(* What a client is going to hear of its user: what is on its way, and     *)
(* what a request has done and not told yet.                               *)
Events == {"added", "removed"}
Welcomes(w, u) == u \in added[w] \/ (pc[w] = "p_tell" /\ target[w] = u)
Ousts(w, u) == (pc[w] = "r_tell" /\ target[w] = u) \/ (pc[w] = "x_tell" /\ u \in todo[w])
Coming(u) ==
  IF \E w \in Workers : Welcomes(w, u) THEN Append(inbox[u], "added")
  ELSE IF \E w \in Workers : Ousts(w, u) THEN Append(inbox[u], "removed")
  ELSE inbox[u]

(* The last of what a client is going to hear agrees with the row.  One    *)
(* that has heard everything of a member lists the group or is about to,   *)
(* and no list without it is on its way; of one who is no member it does   *)
(* not, and no list with it is.                                            *)
Story(u) ==
  IF Coming(u) # <<>> THEN Coming(u)[Len(Coming(u))] = "added" <=> u \in Members
  ELSE IF u \in Members THEN (u \in listed \/ loads[u] # <<>>) /\ ~Crossing(u, "out")
  ELSE u \notin listed /\ ~Crossing(u, "in")

Posted == ~overlapped => \A u \in Clients \ misled : Story(u)

LEMMA ComingType ==
  ASSUME ClientType, NEW u \in Users
  PROVE  inbox[u] \in Seq(Events) /\ Coming(u) \in Seq(Events)
<1>1. inbox[u] \in Seq(Events)
  BY DEF ClientType, Events
<1>2. \A e \in Events : Append(inbox[u], e) \in Seq(Events)
  BY <1>1
<1>3. QED
  BY <1>1, <1>2 DEF Coming, Events

LEMMA StorySame ==
  ASSUME NEW u, Story(u), Coming(u)' = Coming(u), u \in Members <=> u \in Members',
         loads'[u] = loads[u], u \in listed' <=> u \in listed
  PROVE  Story(u)'
  BY DEF Story, Crossing

(* A row that changes is one more event to come.                           *)
LEMMA StoryTurns ==
  ASSUME ClientType, NEW u \in Users, NEW e \in Events,
         Coming(u)' = Append(Coming(u), e), e = "added" <=> u \in Members'
  PROVE  Story(u)'
<1> DEFINE c == Coming(u)
<1>1. c \in Seq(Events) /\ Coming(u)' = Append(c, e)
  BY ComingType
<1> HIDE DEF c
<1>2. Append(c, e) # <<>> /\ Append(c, e)[Len(Append(c, e))] = e
  BY <1>1
<1>3. QED
  BY <1>1, <1>2 DEF Story

(* With one request under way, only it has something to tell.              *)
LEMMA ComingOne ==
  ASSUME NEW w \in Workers, NEW u, Emptied, \A v \in Workers \ {w} : pc[v] = "idle"
  PROVE  Coming(u) = IF Welcomes(w, u) THEN Append(inbox[u], "added")
                     ELSE IF Ousts(w, u) THEN Append(inbox[u], "removed") ELSE inbox[u]
  BY DEF Emptied, Coming, Welcomes, Ousts

LEMMA ComingOneThen ==
  ASSUME NEW w \in Workers, NEW u, Emptied', \A v \in Workers \ {w} : pc'[v] = "idle"
  PROVE  Coming(u)' = IF Welcomes(w, u)' THEN Append(inbox'[u], "added")
                      ELSE IF Ousts(w, u)' THEN Append(inbox'[u], "removed") ELSE inbox'[u]
  BY DEF Emptied, Coming, Welcomes, Ousts

(* Before and after the steps at which nothing is left to tell.            *)
Telling == {"d_next", "d_insert", "p_tell", "r_tell", "x_tell"}

LEMMA NothingToTell ==
  ASSUME NEW w \in Workers, NEW u, Emptied, Emptied'
  PROVE  /\ pc[w] \notin Telling => ~Welcomes(w, u) /\ ~Ousts(w, u)
         /\ pc'[w] \notin Telling => ~Welcomes(w, u)' /\ ~Ousts(w, u)'
  BY DEF Emptied, Welcomes, Ousts, Telling

(* What there was to tell has been told to those concerned.                *)
LEMMA StoryTold ==
  ASSUME IInv, Emptied, Emptied', NEW w \in Workers, NEW u \in Clients, Story(u), u \notin misled',
         \A v \in Workers \ {w} : pc[v] = "idle" /\ pc'[v] = "idle",
         NEW S, NEW event \in Events, Tell(S, event), UNCHANGED table, pc'[w] = "idle",
         IF event = "added" THEN (Welcomes(w, u) <=> u \in S) /\ ~Ousts(w, u)
                            ELSE (Ousts(w, u) <=> u \in S) /\ ~Welcomes(w, u)
  PROVE  Story(u)'
<1>1. u \in Users
  BY GroupAssumption
<1>2. ~Welcomes(w, u)' /\ ~Ousts(w, u)'
  BY NothingToTell DEF Telling
<1>3. inbox'[u] = IF u \in S THEN Append(inbox[u], event) ELSE inbox[u]
  <2>1. PICK H \in SUBSET (S \cap Clients) :
          /\ inbox' = [x \in Users |-> IF x \in H THEN Append(inbox[x], event) ELSE inbox[x]]
          /\ misled' = misled \cup ((S \cap Clients) \ H)
    BY DEF Tell
  <2>2. u \in H <=> u \in S
    BY <2>1
  <2>3. QED
    BY <1>1, <2>1, <2>2
<1>4. Coming(u)' = Coming(u)
  BY <1>2, <1>3, ComingOne, ComingOneThen DEF Events
<1>5. Members' = Members
  BY DEF table, Members
<1>6. QED
  BY <1>4, <1>5, StorySame DEF Tell

LEMMA StoryServe ==
  ASSUME IInv, Emptied, Emptied', Orderly, NEW w \in Workers, Serve(w), ~overlapped',
         NEW u \in Clients, Story(u), u \notin misled'
  PROVE  Story(u)'
<1>1. pc[w] # "idle" /\ ~overlapped
  BY ServedGoes
<1>2. \A v \in Workers \ {w} : pc[v] = "idle" /\ pc'[v] = "idle"
  BY <1>1, ServedGoes DEF Orderly, Alone
<1>3. Knows(w) /\ u \in Users /\ TableType /\ RequestType /\ ClientType
  BY <1>1, GroupAssumption DEF Orderly, IInv
<1>4. Welcomes(w, u) => u \in Members
  <2>1. ASSUME Welcomes(w, u) PROVE Coming(u) # <<>> /\ Coming(u)[Len(Coming(u))] = "added"
    <3>1. Coming(u) = Append(inbox[u], "added") /\ inbox[u] \in Seq(Events)
      BY <1>2, <1>3, <2>1, ComingOne, ComingType
    <3>2. QED
      BY <3>1 DEF Events
  <2>2. QED
    BY <2>1 DEF Story
(* The row of u stays, and what there is to tell them.                     *)
<1>5. ASSUME UNCHANGED client, u \in Members <=> u \in Members',
             Welcomes(w, u)' <=> Welcomes(w, u), Ousts(w, u)' <=> Ousts(w, u)
      PROVE  Story(u)'
  <2>1. Coming(u)' = Coming(u)
    BY <1>2, <1>5, ComingOne, ComingOneThen DEF client
  <2>2. QED
    BY <1>5, <2>1, StorySame DEF client
<1>6. ASSUME UNCHANGED client, u \in Members <=> u \in Members', pc[w] \notin Telling, pc'[w] \notin Telling
      PROVE  Story(u)'
  BY <1>5, <1>6, NothingToTell
(* The row of u comes or goes, with the event that is to follow.           *)
<1>7. ASSUME UNCHANGED client, ~Welcomes(w, u), ~Ousts(w, u), Welcomes(w, u)',
             u \notin Members, u \in Members'
      PROVE  Story(u)'
  <2>1. Coming(u)' = Append(Coming(u), "added")
    BY <1>2, <1>7, ComingOne, ComingOneThen DEF client
  <2>2. QED
    BY <1>3, <1>7, <2>1, StoryTurns DEF Events
<1>8. ASSUME UNCHANGED client, ~Welcomes(w, u), ~Ousts(w, u), Ousts(w, u)', ~Welcomes(w, u)',
             u \in Members, u \notin Members'
      PROVE  Story(u)'
  <2>1. Coming(u)' = Append(Coming(u), "removed")
    BY <1>2, <1>8, ComingOne, ComingOneThen DEF client
  <2>2. QED
    BY <1>3, <1>8, <2>1, StoryTurns DEF Events
<1>9. UNCHANGED <<exists, role>> \/ UNCHANGED table => Members' = Members
  BY DEF Members, table
<1>10. /\ Finish(w) => pc'[w] = "idle"
       /\ \A l : Goto(w, l) => pc'[w] = l /\ target'[w] = target[w] /\ todo'[w] = todo[w] /\ added'[w] = added[w]
  BY <1>3 DEF Finish, Goto, RequestType
<1>11. CASE JoinInsert(w)
  <2>1. target[w] \in Users /\ Finish(w) /\ UNCHANGED client
    BY <1>3, <1>11 DEF RequestType, Aimed, JoinInsert
  <2>2. role[target[w]] = "none" /\ Become(target[w], "pending") => Members' = Members
    BY <1>3, <2>1 DEF TableType, Become, Members, Full
  <2>3. QED
    BY <1>6, <1>9, <1>10, <1>11, <2>1, <2>2 DEF JoinInsert, Telling
<1>12. CASE ApproveCount(w) \/ RemoveTarget(w)
  <2>1. Members' = Members /\ UNCHANGED client
    BY <1>12 DEF ApproveCount, RemoveTarget, Members, client
  <2>2. pc[w] \notin Telling /\ pc'[w] \notin Telling
    BY <1>10, <1>12 DEF ApproveCount, RemoveTarget, Telling
  <2>3. QED
    BY <1>6, <2>1, <2>2
<1>13. CASE ApproveUpdate(w)
  <2>1. target[w] \in Users /\ UNCHANGED client
    BY <1>3, <1>13 DEF RequestType, Aimed, ApproveUpdate
  <2>2. CASE role[target[w]] = "pending" /\ Admit(target[w]) /\ Goto(w, "p_tell")
    <3>1. Members' = Members \cup {target[w]} /\ target[w] \notin Members
      BY <1>3, <2>1, <2>2, AdmitCount DEF Members, Full
    <3>2. ~Welcomes(w, u) /\ ~Ousts(w, u)
      BY <1>13, NothingToTell DEF ApproveUpdate, Telling
    <3>3. (Welcomes(w, u)' <=> u = target[w]) /\ ~Ousts(w, u)'
      BY <1>10, <1>13, <2>2 DEF Welcomes, Ousts, ApproveUpdate, Emptied
    <3>4. QED
      BY <1>5, <1>7, <2>1, <3>1, <3>2, <3>3
  <2>3. CASE Finish(w) /\ UNCHANGED table
    BY <1>6, <1>9, <1>10, <1>13, <2>1, <2>3 DEF ApproveUpdate, Telling
  <2>4. QED
    BY <1>13, <2>2, <2>3 DEF ApproveUpdate
<1>14. CASE ApproveTell(w)
  <2>1. Welcomes(w, u) <=> u \in {target[w]} \cap Members
    BY <1>4, <1>14 DEF ApproveTell, Welcomes, Emptied
  <2>2. ~Ousts(w, u) /\ pc'[w] = "idle"
    BY <1>10, <1>14 DEF ApproveTell, Ousts
  <2>3. QED
    BY <1>2, <1>14, <2>1, <2>2, StoryTold DEF ApproveTell, Events
<1>15. CASE AddCount(w)
  <2>1. Members' = Members /\ UNCHANGED client
    BY <1>15 DEF AddCount, Members, client
  <2>2. CASE pc' = [pc EXCEPT ![w] = "d_next"] /\ UNCHANGED added
    <3>1. pc'[w] = "d_next" /\ added'[w] = {}
      BY <1>3, <1>15, <2>2 DEF AddCount, RequestType, Emptied
    <3>2. ~Welcomes(w, u)' /\ ~Ousts(w, u)'
      BY <3>1 DEF Welcomes, Ousts
    <3>3. QED
      BY <1>5, <1>15, <2>1, <3>2, NothingToTell DEF AddCount, Telling
  <2>3. QED
    BY <1>6, <1>10, <1>15, <2>1, <2>2 DEF AddCount, Telling
(* One more user is added: nothing of theirs was left to tell.             *)
<1>16. ASSUME NEW t \in Users, role[t] \in {"none", "pending"}, Admit(t), Added(w, t), UNCHANGED client,
              pc[w] \in {"d_next", "d_insert"}
       PROVE  Story(u)'
  <2>1. Members' = Members \cup {t} /\ t \notin Members
    BY <1>3, <1>16, AdmitCount DEF Members, Full
  <2>2. pc'[w] = "d_next" /\ added'[w] = added[w] \cup {t}
    BY <1>3, <1>16 DEF Added, RequestType
  <2>3. (Welcomes(w, u)' <=> Welcomes(w, u) \/ u = t) /\ ~Ousts(w, u)' /\ ~Ousts(w, u)
    BY <1>16, <2>2 DEF Welcomes, Ousts
  <2>4. QED
    BY <1>4, <1>5, <1>7, <1>16, <2>1, <2>3
<1>17. CASE AddInsert(w)
  <2>1. target[w] \in Users
    BY <1>3, <1>17 DEF RequestType, Aimed, AddInsert
  <2>2. CASE pc' = [pc EXCEPT ![w] = "d_next"] /\ UNCHANGED added /\ UNCHANGED table /\ UNCHANGED client
    <3>1. pc'[w] = "d_next" /\ added'[w] = added[w]
      BY <1>3, <2>2 DEF RequestType
    <3>2. (Welcomes(w, u)' <=> Welcomes(w, u)) /\ ~Ousts(w, u)' /\ ~Ousts(w, u)
      BY <1>17, <3>1 DEF AddInsert, Welcomes, Ousts
    <3>3. QED
      BY <1>5, <1>9, <2>2, <3>2
  <2>3. QED
    BY <1>16, <1>17, <2>1, <2>2 DEF AddInsert
<1>18. ASSUME NEW t \in Users, AddPromote(w, t) PROVE Story(u)'
  <2>1. CASE pc' = [pc EXCEPT ![w] = "d_insert"] /\ UNCHANGED added /\ UNCHANGED table /\ UNCHANGED client
    <3>1. pc'[w] = "d_insert" /\ added'[w] = added[w]
      BY <1>3, <2>1 DEF RequestType
    <3>2. (Welcomes(w, u)' <=> Welcomes(w, u)) /\ ~Ousts(w, u)' /\ ~Ousts(w, u)
      BY <1>18, <3>1 DEF AddPromote, Welcomes, Ousts
    <3>3. QED
      BY <1>5, <1>9, <2>1, <3>2
  <2>2. QED
    BY <1>16, <1>18, <2>1 DEF AddPromote
<1>19. ASSUME NEW t \in Users, AddSkip(w, t) PROVE Story(u)'
  <2>1. Members' = Members /\ UNCHANGED client
    BY <1>19 DEF AddSkip, Members, client
  <2>2. (Welcomes(w, u)' <=> Welcomes(w, u)) /\ ~Ousts(w, u)' /\ ~Ousts(w, u)
    BY <1>19 DEF AddSkip, Welcomes, Ousts
  <2>3. QED
    BY <1>5, <2>1, <2>2
<1>20. CASE AddTell(w)
  <2>1. Welcomes(w, u) <=> u \in added[w] \cap Members
    BY <1>4, <1>20 DEF AddTell, Welcomes
  <2>2. ~Ousts(w, u) /\ pc'[w] = "idle"
    BY <1>10, <1>20 DEF AddTell, Ousts
  <2>3. QED
    BY <1>2, <1>20, <2>1, <2>2, StoryTold DEF AddTell, Events
(* The row of a member goes, and they are to be told.                      *)
<1>21. ASSUME NEW t \in Users, t = target[w], t \in Members, Become(t, "none"), Goto(w, "r_tell"),
              pc[w] \notin Telling, UNCHANGED client
       PROVE  Story(u)'
  <2>1. Members' = Members \ {t}
    BY <1>3, <1>21 DEF TableType, Become, Members, Full
  <2>2. ~Welcomes(w, u) /\ ~Ousts(w, u)
    BY <1>21, NothingToTell
  <2>3. ~Welcomes(w, u)' /\ (Ousts(w, u)' <=> u = t)
    BY <1>10, <1>21 DEF Welcomes, Ousts, Emptied, Telling
  <2>4. QED
    BY <1>5, <1>8, <1>21, <2>1, <2>2, <2>3
<1>22. CASE RemoveDelete(w)
  <2>1. target[w] \in Users /\ UNCHANGED client /\ pc[w] \notin Telling
    BY <1>3, <1>22 DEF RequestType, Aimed, RemoveDelete, Telling
  <2>2. CASE role[target[w]] \in {"member", "admin"} /\ Become(target[w], "none") /\ Goto(w, "r_tell")
    BY <1>21, <2>1, <2>2 DEF Members, Full
  <2>3. CASE Finish(w) /\ UNCHANGED table
    BY <1>6, <1>9, <1>10, <2>1, <2>3 DEF Telling
  <2>4. QED
    BY <1>22, <2>2, <2>3 DEF RemoveDelete, Erase
<1>23. CASE ForgetDelete(w)
  <2>1. target[w] \in Members /\ target[w] \in Users
    BY <1>3, <1>23 DEF ForgetDelete, Knows, Members
  <2>2. QED
    BY <1>21, <1>23, <2>1 DEF ForgetDelete, Erase, Telling
<1>24. CASE RemoveTell(w)
  <2>1. (Ousts(w, u) <=> u \in {target[w]}) /\ ~Welcomes(w, u) /\ pc'[w] = "idle"
    BY <1>10, <1>24 DEF RemoveTell, Ousts, Welcomes, Emptied
  <2>2. QED
    BY <1>2, <1>24, <2>1, StoryTold DEF RemoveTell, Events
<1>25. CASE AppointUpdate(w)
  <2>1. target[w] \in Users /\ Finish(w) /\ UNCHANGED client /\ pc[w] \notin Telling
    BY <1>3, <1>25 DEF RequestType, Aimed, AppointUpdate, Telling, client
  <2>2. ASSUME NEW r \in {"member", "admin"}, role[target[w]] \in {"member", "admin"}, Become(target[w], r)
        PROVE  Members' = Members
    BY <1>3, <2>1, <2>2 DEF TableType, Become, Members, Full
  <2>3. Members' = Members
    BY <1>9, <1>25, <2>2 DEF AppointUpdate
  <2>4. QED
    BY <1>6, <1>10, <2>1, <2>3 DEF Telling
<1>26. CASE DissolveList(w)
  <2>1. Members' = Members /\ UNCHANGED client /\ pc[w] \notin Telling /\ pc'[w] \notin Telling
    BY <1>3, <1>26 DEF DissolveList, Members, client, Telling, RequestType
  <2>2. QED
    BY <1>6, <2>1
<1>27. CASE DissolveDelete(w)
  <2>1. UNCHANGED client /\ pc[w] \notin Telling
    BY <1>27 DEF DissolveDelete, Telling
  <2>2. CASE role' = [x \in Users |-> "none"] /\ Goto(w, "x_tell")
    <3>1. Members' = {} /\ todo[w] = Members
      BY <1>3, <1>27, <2>2 DEF Members, Full, DissolveDelete, Knows
    <3>2. ~Welcomes(w, u) /\ ~Ousts(w, u)
      BY <2>1, NothingToTell
    <3>3. ~Welcomes(w, u)' /\ (Ousts(w, u)' <=> u \in Members)
      BY <1>10, <2>1, <2>2, <3>1 DEF Welcomes, Ousts, Emptied, Telling
    <3>4. QED
      BY <1>5, <1>8, <2>1, <3>1, <3>2, <3>3
  <2>3. CASE Finish(w) /\ UNCHANGED table
    BY <1>6, <1>9, <1>10, <2>1, <2>3 DEF Telling
  <2>4. QED
    BY <1>27, <2>2, <2>3 DEF DissolveDelete
<1>28. CASE DissolveTell(w)
  <2>1. (Ousts(w, u) <=> u \in todo[w]) /\ ~Welcomes(w, u) /\ pc'[w] = "idle"
    BY <1>10, <1>28 DEF DissolveTell, Ousts, Welcomes, Emptied
  <2>2. QED
    BY <1>2, <1>28, <2>1, StoryTold DEF DissolveTell, Events
<1>29. QED
  BY <1>11, <1>12, <1>13, <1>14, <1>15, <1>17, <1>18, <1>19, <1>20, <1>22, <1>23, <1>24, <1>25,
     <1>26, <1>27, <1>28 DEF Serve

(* A request that arrives has nothing to tell.                             *)
LEMMA StoryAsk ==
  ASSUME IInv, Emptied, Emptied', NEW w \in Workers, NEW v \in Users, Ask(w, v), ~overlapped',
         NEW u \in Clients, Story(u)
  PROVE  Story(u)'
<1>1. \A x \in Workers : pc[x] = "idle"
  BY AskedGoes DEF Note
<1>2. \A x \in Workers \ {w} : pc'[x] = "idle"
  BY <1>1, AskedGoes
<1>3. ~Welcomes(w, u) /\ ~Ousts(w, u) /\ ~Welcomes(w, u)' /\ ~Ousts(w, u)'
  BY <1>1, AskedGoes, NothingToTell DEF Telling
<1>4. UNCHANGED client /\ Members' = Members
  BY AskedGoes DEF table, Members
<1>5. Coming(u)' = Coming(u)
  BY <1>1, <1>2, <1>3, <1>4, ComingOne, ComingOneThen DEF client
<1>6. QED
  BY <1>4, <1>5, StorySame DEF client

LEMMA TailComing ==
  ASSUME ClientType, NEW u \in Users, inbox[u] # <<>>, inbox'[u] = Tail(inbox[u]), UNCHANGED request
  PROVE  Coming(u) # <<>> /\ Head(Coming(u)) = Head(inbox[u]) /\ Coming(u)' = Tail(Coming(u))
<1>1. inbox[u] \in Seq(Events)
  BY ComingType
<1>2. ASSUME NEW e \in Events
      PROVE  /\ Append(inbox[u], e) # <<>>
             /\ Head(Append(inbox[u], e)) = Head(inbox[u])
             /\ Append(Tail(inbox[u]), e) = Tail(Append(inbox[u], e))
  BY <1>1
<1>3. \A w : (Welcomes(w, u)' <=> Welcomes(w, u)) /\ (Ousts(w, u)' <=> Ousts(w, u))
  BY DEF request, Welcomes, Ousts
<1>4. QED
  BY <1>2, <1>3 DEF Coming, Events

(* The first of the events to come is heard: the last one stays, or it was *)
(* the last one.                                                           *)
LEMMA HeardTurns ==
  ASSUME ClientType, NEW u \in Users, Story(u), Coming(u) # <<>>, Coming(u)' = Tail(Coming(u)),
         UNCHANGED table
  PROVE  LET c == Coming(u)  d == Coming(u)'  IN
         /\ d # <<>> => (d[Len(d)] = "added" <=> u \in Members')
         /\ d = <<>> => (Head(c) = "added" <=> u \in Members')
<1> DEFINE c == Coming(u)
<1>1. c \in Seq(Events) /\ c # <<>> /\ Coming(u)' = Tail(c)
  BY ComingType
<1>2. c[Len(c)] = "added" <=> u \in Members
  BY DEF Story
<1>3. Members' = Members
  BY DEF table, Members
<1> HIDE DEF c
<1>4. /\ Tail(c) \in Seq(Events) /\ Len(Tail(c)) = Len(c) - 1 /\ Len(c) \in Nat \ {0}
      /\ \A k \in 1..(Len(c) - 1) : Tail(c)[k] = c[k + 1]
      /\ Head(c) = c[1]
  BY <1>1
<1>5. Tail(c) # <<>> => Tail(c)[Len(Tail(c))] = c[Len(c)]
  <2>1. ASSUME Tail(c) # <<>> PROVE Len(c) - 1 \in 1..(Len(c) - 1)
    <3>1. Len(Tail(c)) # 0
      BY <1>4, <2>1
    <3>2. QED
      BY <1>4, <3>1
  <2>2. QED
    BY <1>4, <2>1
<1>6. Tail(c) = <<>> => Head(c) = c[Len(c)]
  <2>1. ASSUME Tail(c) = <<>> PROVE Len(c) = 1
    <3>1. Len(<<>>) = 0
      OBVIOUS
    <3>2. Len(Tail(c)) = 0
      BY <2>1, <3>1
    <3>3. Len(Tail(c)) = Len(c) - 1 /\ Len(c) \in Nat
      BY <1>4
    <3>4. QED
      BY <3>2, <3>3
  <2>2. QED
    BY <1>4, <2>1
<1>7. QED
  BY <1>1, <1>2, <1>3, <1>5, <1>6 DEF c

(* A load that has been shown leaves the others.                           *)
LEMMA WithoutElements ==
  ASSUME NEW T, NEW s \in Seq(T), NEW k \in 1..Len(s)
  PROVE  \A j \in DOMAIN Without(s, k) : \E i \in DOMAIN s : Without(s, k)[j] = s[i]
<1> DEFINE a == SubSeq(s, 1, k - 1)
           b == SubSeq(s, k + 1, Len(s))
<1>1. /\ a \in Seq(T) /\ Len(a) = k - 1 /\ \A j \in 1..(k - 1) : a[j] = s[j]
      /\ b \in Seq(T) /\ Len(b) = Len(s) - k /\ \A j \in 1..(Len(s) - k) : b[j] = s[j + k]
      /\ Without(s, k) = a \o b
  BY DEF Without
<1> HIDE DEF a, b
<1>2. /\ a \o b \in Seq(T) /\ Len(a \o b) = Len(a) + Len(b)
      /\ \A j \in 1..(Len(a) + Len(b)) : (a \o b)[j] = IF j <= Len(a) THEN a[j] ELSE b[j - Len(a)]
  BY <1>1, ConcatProperties
<1>3. ASSUME NEW j \in 1..(Len(a) + Len(b)) PROVE \E i \in 1..Len(s) : (a \o b)[j] = s[i]
  <2>1. CASE j <= Len(a)
    BY <1>1, <1>2, <2>1
  <2>2. CASE ~(j <= Len(a))
    <3>1. Len(s) \in Nat /\ k \in 1..Len(s) /\ Len(a) = k - 1 /\ Len(b) = Len(s) - k
      BY <1>1
    <3>2. j - Len(a) \in 1..(Len(s) - k) /\ j - Len(a) + k \in 1..Len(s)
      BY <2>2, <3>1
    <3>3. (a \o b)[j] = b[j - Len(a)] /\ b[j - Len(a)] = s[j - Len(a) + k]
      BY <1>1, <1>2, <2>2, <3>2
    <3>4. QED
      BY <3>2, <3>3
  <2>3. QED
    BY <2>1, <2>2
<1>4. DOMAIN (a \o b) = 1..(Len(a) + Len(b)) /\ DOMAIN s = 1..Len(s)
  BY <1>1, <1>2
<1>5. QED
  BY <1>1, <1>3, <1>4

LEMMA StoryHear ==
  ASSUME IInv, NEW u \in Clients, Hear(u), u \notin misled', Story(u)
  PROVE  Story(u)'
<1>1. u \in Users /\ ClientType /\ UNCHANGED table /\ UNCHANGED request
  BY GroupAssumption, HearRows DEF IInv
<1>2. Members' = Members
  BY <1>1 DEF table, Members
<1>3. loads[u] \in Seq({"asked", "in", "out"}) /\ loads \in [Users -> Seq({"asked", "in", "out"})]
  BY <1>1 DEF ClientType
<1>4. CASE HearRemoved(u)
  <2>1. /\ inbox[u] # <<>> /\ Head(inbox[u]) = "removed" /\ inbox'[u] = Tail(inbox[u])
        /\ u \notin listed' /\ loads' = loads
    BY <1>1, <1>4 DEF HearRemoved, Received, ClientType
  <2>2. ~Crossing(u, "in")'
    BY <1>4, <2>1 DEF HearRemoved, Mislead, Crossing
  <2>3. Coming(u) # <<>> /\ Head(Coming(u)) = "removed" /\ Coming(u)' = Tail(Coming(u))
    BY <1>1, <2>1, TailComing
  <2>4. QED
    BY <1>1, <2>1, <2>2, <2>3, HeardTurns DEF Story
(* One more list that has not been read crosses nothing.                   *)
<1>5. ASSUME AskList(u) PROVE loads'[u] # <<>> /\ (Crossing(u, "out")' => Crossing(u, "out"))
                              /\ (Crossing(u, "in")' => Crossing(u, "in"))
  <2>1. loads'[u] = Append(loads[u], "asked")
    BY <1>1, <1>3, <1>5 DEF AskList
  <2>2. /\ loads'[u] # <<>> /\ DOMAIN loads'[u] = 1..(Len(loads[u]) + 1)
        /\ DOMAIN loads[u] = 1..Len(loads[u]) /\ Len(loads[u]) \in Nat
        /\ loads'[u][Len(loads[u]) + 1] = "asked"
        /\ \A k \in 1..Len(loads[u]) : loads'[u][k] = loads[u][k]
    BY <1>3, <2>1
  <2>3. \A k \in DOMAIN loads'[u] : k \in DOMAIN loads[u] \/ k = Len(loads[u]) + 1
    BY <2>2
  <2>4. ASSUME NEW x \in {"in", "out"}, Crossing(u, x)' PROVE Crossing(u, x)
    BY <2>2, <2>3, <2>4 DEF Crossing
  <2>5. QED
    BY <2>2, <2>4
<1>6. CASE HearAdded(u)
  <2>1. inbox[u] # <<>> /\ Head(inbox[u]) = "added" /\ inbox'[u] = Tail(inbox[u])
    BY <1>1, <1>6 DEF HearAdded, Received, ClientType
  <2>2. Coming(u) # <<>> /\ Head(Coming(u)) = "added" /\ Coming(u)' = Tail(Coming(u))
    BY <1>1, <2>1, TailComing
  <2>3. loads'[u] # <<>> /\ ~Crossing(u, "out")'
    BY <1>5, <1>6 DEF HearAdded, Mislead
  <2>4. QED
    BY <1>1, <2>2, <2>3, HeardTurns DEF Story
<1>7. ASSUME UNCHANGED inbox PROVE Coming(u)' = Coming(u)
  BY <1>1, <1>7 DEF Coming, Welcomes, Ousts, request
<1>8. CASE Load(u)
  <2>1. Coming(u)' = Coming(u) /\ UNCHANGED listed
    BY <1>7, <1>8 DEF Load
  <2>2. loads'[u] # <<>> /\ (Crossing(u, "out")' => Crossing(u, "out"))
        /\ (Crossing(u, "in")' => Crossing(u, "in"))
    BY <1>5, <1>8 DEF Load
  <2>3. QED
    BY <1>2, <2>1, <2>2 DEF Story
<1>9. ASSUME NEW k \in DOMAIN loads[u], LoadRead(u, k) PROVE Story(u)'
  <2>1. /\ loads'[u] = [loads[u] EXCEPT ![k] = IF u \in Members THEN "in" ELSE "out"]
        /\ UNCHANGED <<inbox, listed>>
    BY <1>1, <1>3, <1>9 DEF LoadRead
  <2>2. loads'[u] # <<>> /\ DOMAIN loads'[u] = DOMAIN loads[u]
    BY <1>3, <1>9, <2>1
  <2>3. \A j \in DOMAIN loads[u] :
          loads'[u][j] = IF j = k THEN IF u \in Members THEN "in" ELSE "out" ELSE loads[u][j]
    BY <1>3, <1>9, <2>1
  <2>4. /\ u \in Members /\ Crossing(u, "out")' => Crossing(u, "out")
        /\ u \notin Members /\ Crossing(u, "in")' => Crossing(u, "in")
    BY <2>2, <2>3 DEF Crossing
  <2>5. QED
    BY <1>2, <1>7, <2>1, <2>2, <2>4 DEF Story
<1>10. ASSUME NEW k \in DOMAIN loads[u], Loaded(u, k) PROVE Story(u)'
  <2>1. /\ loads'[u] = Without(loads[u], k) /\ UNCHANGED inbox
        /\ loads[u][k] = "in" => u \in listed'
        /\ loads[u][k] # "in" => u \notin listed'
        /\ loads[u][k] # "asked"
    BY <1>1, <1>3, <1>10 DEF Loaded, ClientType, Show
  <2>2. \A j \in DOMAIN Without(loads[u], k) : \E i \in DOMAIN loads[u] : Without(loads[u], k)[j] = loads[u][i]
    BY <1>3, <1>10, WithoutElements
  <2>3. (Crossing(u, "out")' => Crossing(u, "out")) /\ (Crossing(u, "in")' => Crossing(u, "in"))
    BY <2>1, <2>2 DEF Crossing
  <2>4. loads[u][k] \in {"in", "out"}
    BY <1>3, <1>10, <2>1
  <2>5. /\ ~Crossing(u, "out") => u \in listed'
        /\ ~Crossing(u, "in") => u \notin listed'
    BY <1>10, <2>1, <2>4 DEF Crossing
  <2>6. QED
    BY <1>2, <1>7, <2>1, <2>3, <2>5 DEF Story
<1>11. ASSUME NEW k \in DOMAIN loads[u], LoadFailed(u, k) PROVE FALSE
  BY <1>11 DEF LoadFailed, Mislead
<1>12. QED
  BY <1>4, <1>6, <1>8, <1>9, <1>10, <1>11 DEF Hear

(* A client that hears something leaves the others alone.                  *)
LEMMA StoryOther ==
  ASSUME IInv, NEW v \in Clients, Hear(v), NEW u \in Clients, u # v, Story(u)
  PROVE  Story(u)'
<1>1. u \in Users /\ v \in Users /\ ClientType /\ UNCHANGED table /\ UNCHANGED request
  BY GroupAssumption, HearRows DEF IInv
<1>2. inbox'[u] = inbox[u] /\ loads'[u] = loads[u] /\ (u \in listed' <=> u \in listed)
  BY <1>1 DEF Hear, HearRemoved, HearAdded, Load, AskList, LoadRead, Loaded, LoadFailed,
              Received, Show, ClientType
<1>3. Coming(u)' = Coming(u) /\ Members' = Members
  BY <1>1, <1>2 DEF Coming, Welcomes, Ousts, request, table, Members
<1>4. QED
  BY <1>2, <1>3, StorySame

LEMMA PostedInit == Init => Posted
<1> SUFFICES ASSUME Init, NEW u \in Clients \ misled PROVE Story(u)
  BY DEF Posted
<1>1. u \in Users
  BY GroupAssumption
<1>2. Coming(u) = <<>> /\ loads[u] = <<>> /\ (u \in listed <=> u \in Members)
  BY <1>1 DEF Init, Coming, Welcomes, Ousts
<1>3. QED
  BY <1>2 DEF Story, Crossing

(* That requests have overlapped or that a client was misled is not        *)
(* forgotten.                                                              *)
LEMMA MisledStays ==
  ASSUME IInv, Next
  PROVE  misled \subseteq misled'
<1>1. ASSUME NEW w \in Workers, Serve(w) PROVE misled \subseteq misled'
  <2>1. \A S, e : Tell(S, e) => misled \subseteq misled'
    BY DEF Tell
  <2>2. CASE ApproveTell(w) \/ AddTell(w) \/ RemoveTell(w) \/ DissolveTell(w)
    BY <2>1, <2>2 DEF ApproveTell, AddTell, RemoveTell, DissolveTell
  <2>3. CASE JoinInsert(w) \/ ApproveCount(w) \/ ApproveUpdate(w) \/ AddCount(w) \/ AddInsert(w)
             \/ RemoveTarget(w) \/ RemoveDelete(w) \/ ForgetDelete(w) \/ AppointUpdate(w)
             \/ DissolveList(w) \/ DissolveDelete(w)
    BY <2>3 DEF JoinInsert, ApproveCount, ApproveUpdate, AddCount, AddInsert, RemoveTarget, RemoveDelete,
                ForgetDelete, AppointUpdate, DissolveList, DissolveDelete, client
  <2>4. ASSUME NEW t \in Users, AddSkip(w, t) \/ AddPromote(w, t) PROVE UNCHANGED misled
    BY <2>4 DEF AddSkip, AddPromote, client
  <2>5. QED
    BY <1>1, <2>2, <2>3, <2>4 DEF Serve
<1>2. ASSUME NEW w \in Workers, NEW v \in Users, Ask(w, v) PROVE misled \subseteq misled'
  BY <1>2, AskedGoes DEF client
<1>3. ASSUME NEW v \in Clients, Hear(v) PROVE misled \subseteq misled'
  BY <1>3 DEF Hear, HearRemoved, HearAdded, Load, LoadRead, Loaded, LoadFailed, Mislead
<1>4. QED
  BY <1>1, <1>2, <1>3 DEF Next

LEMMA PostedStep == IInv /\ Emptied /\ Orderly /\ Posted /\ [Next]_vars => Posted'
<1> SUFFICES ASSUME IInv, Emptied, Orderly, Posted, [Next]_vars, ~overlapped',
                    NEW u \in Clients, u \notin misled'
             PROVE  Story(u)'
  BY DEF Posted
<1>1. Emptied'
  BY EmptiedStep
<1>2. u \notin misled
  BY MisledStays DEF vars
<1>3. ASSUME NEW w \in Workers, Serve(w) PROVE Story(u)'
  <2>1. ~overlapped
    BY <1>3, ServedGoes
  <2>2. Story(u)
    BY <1>2, <2>1 DEF Posted
  <2>3. QED
    BY <1>1, <1>3, <2>2, StoryServe
<1>4. ASSUME NEW w \in Workers, NEW v \in Users, Ask(w, v) PROVE Story(u)'
  <2>1. ~overlapped
    BY <1>4, AskedGoes DEF Note
  <2>2. Story(u)
    BY <1>2, <2>1 DEF Posted
  <2>3. QED
    BY <1>1, <1>4, <2>2, StoryAsk
<1>5. ASSUME NEW v \in Clients, Hear(v) PROVE Story(u)'
  <2>1. UNCHANGED overlapped
    BY <1>5, HearRows DEF request
  <2>2. Story(u)
    BY <1>2, <2>1 DEF Posted
  <2>3. QED
    BY <1>5, <2>2, StoryHear, StoryOther
<1>6. CASE UNCHANGED vars
  <2>1. Coming(u)' = Coming(u) /\ Members' = Members /\ Story(u)
    BY <1>2, <1>6 DEF vars, Coming, Welcomes, Ousts, Members, Posted
  <2>2. QED
    BY <1>6, <2>1, StorySame DEF vars
<1>7. QED
  BY <1>3, <1>4, <1>5, <1>6 DEF Next

LEMMA PostedAlways == Spec => [](IInv /\ Emptied /\ Posted)
  BY PostedInit, PostedStep, OrderlyAlways, PTL DEF Spec

LEMMA NothingComes ==
  ASSUME Emptied, NEW u, AtRest(u)
  PROVE  Coming(u) = <<>>
  BY DEF Emptied, AtRest, Coming, Welcomes, Ousts

(* However long notices and loads take, however many loads are under way   *)
(* and for whatever reason: once everything has arrived a member finds the *)
(* group in their list, unless the client missed the notice or a list, or  *)
(* a list read before the admission crossed the notice.                    *)
THEOREM MemberIsListedHolds == Spec => []MemberIsListed
<1>1. Emptied /\ Posted => MemberIsListed
  BY NothingComes DEF Posted, Story, MemberIsListed, AtRest
<1>2. QED
  BY <1>1, PostedAlways, PTL

(* Likewise who is no member does not list the group, with the same        *)
(* exceptions.                                                             *)
THEOREM LeaverIsUnlistedHolds == Spec => []LeaverIsUnlisted
<1>1. Emptied /\ Posted => LeaverIsUnlisted
  BY NothingComes DEF Posted, Story, LeaverIsUnlisted
<1>2. QED
  BY <1>1, PostedAlways, PTL
=============================================================================
