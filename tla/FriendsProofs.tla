--------------------------- MODULE FriendsProofs ---------------------------
(***************************************************************************)
(* Proofs about Friends.  For any number of overlapping requests: types,   *)
(* that a friend request is answered once, and that friends have a         *)
(* conversation as long as nobody deletes it.  For requests that do not    *)
(* overlap: that there is one row and one conversation, and that a block   *)
(* stands.                                                                 *)
(***************************************************************************)
EXTENDS Friends, FiniteSetTheorems, TLAPS

(* A row gets a new requester and status.                                  *)
LEMMA TurnType ==
  ASSUME NEW i \in Ids, NEW u \in Users, NEW s \in Status, TypeOK, Turn(i, u, s)
  PROVE  status' \in [Ids -> Status] /\ from' \in [Ids -> Users \cup {None}]
  BY DEF TypeOK, Turn, Status

LEMMA UpsertType ==
  ASSUME NEW u \in Users, NEW s \in Status, TypeOK, Upsert(u, s)
  PROVE  /\ status' \in [Ids -> Status] /\ from' \in [Ids -> Users \cup {None}]
         /\ answers' \in [Ids -> SUBSET {"accepted", "rejected"}]
<1>1. PICK i \in Ids : Turn(i, u, s) /\ answers' = [answers EXCEPT ![i] = {}]
  BY DEF Upsert
<1>2. QED
  BY <1>1, TurnType DEF TypeOK

(* A worker that is served goes on, ends or keeps its request.             *)
RequestOK ==
  /\ pc \in [Workers -> PC]
  /\ user \in [Workers -> Users \cup {None}]
  /\ at \in [Workers -> Ids \cup {None}]
  /\ overlapped \in BOOLEAN /\ deleted \in BOOLEAN
  /\ \A w \in Workers : pc[w] # "idle" => user[w] \in Users
  /\ \A w \in Workers : pc[w] \in {"a_update", "b_id"} => at[w] \in Ids

LEMMA FinishType ==
  ASSUME NEW w \in Workers, TypeOK, Finish(w)
  PROVE  RequestOK'
  BY DEF TypeOK, Finish, history, RequestOK, PC

LEMMA GotoType ==
  ASSUME NEW w \in Workers, TypeOK, pc[w] # "idle",
         NEW l \in PC \ {"idle", "a_update", "b_id"}, Goto(w, l)
  PROVE  RequestOK'
  BY DEF TypeOK, Goto, history, RequestOK, PC

LEMMA ArriveType ==
  ASSUME NEW w \in Workers, TypeOK, NEW l \in PC, NEW u \in Users, NEW i \in Ids \cup {None},
         Arrive(w, l, u, i), l \in {"a_update", "b_id"} => i \in Ids
  PROVE  RequestOK'
  BY DEF TypeOK, Arrive, Note, RequestOK

LEMMA RequestedType ==
  ASSUME NEW w \in Workers, TypeOK, pc[w] # "idle", Requested(w)
  PROVE  RequestOK'
  BY FinishType, GotoType DEF Requested, PC

LEMMA WantedType == ASSUME NEW u \in Users PROVE Wanted(u) \in {"pending", "accepted"}
  BY DEF Wanted

-----------------------------------------------------------------------------
(* The initial state has the types.                                        *)
LEMMA TypeInit == Init => TypeOK
  BY DEF Init, TypeOK, PC, Status

(* Every step of a request keeps them.                                     *)
LEMMA TypeServe ==
  ASSUME TypeOK, NEW w \in Workers, Serve(w)
  PROVE  TypeOK'
<1> USE FriendAssumption
<1>1. CASE RequestLook(w)
  <2>1. RequestOK'
    BY <1>1, FinishType, GotoType DEF RequestLook, PC
  <2>2. QED
    BY <1>1, <2>1 DEF RequestLook, TypeOK, RequestOK
<1>2. CASE RequestUpdate(w)
  <2>1. user[w] \in Users /\ pc[w] # "idle"
    BY <1>2 DEF RequestUpdate, TypeOK
  <2>2. CASE Goto(w, "q_insert") /\ UNCHANGED <<status, from, answers, member, blockers>>
    <3>1. RequestOK'
      BY <2>1, <2>2, GotoType DEF PC
    <3>2. QED
      BY <2>2, <3>1 DEF TypeOK, RequestOK
  <2>3. ASSUME NEW i \in Ids, Turn(i, user[w], Wanted(user[w])),
               answers' = [answers EXCEPT ![i] = {}], Requested(w), UNCHANGED <<member, blockers>>
        PROVE  TypeOK'
    <3>1. RequestOK'
      BY <2>1, <2>3, RequestedType
    <3>2. status' \in [Ids -> Status] /\ from' \in [Ids -> Users \cup {None}]
      BY <2>1, <2>3, WantedType, TurnType DEF Status
    <3>3. answers' \in [Ids -> SUBSET {"accepted", "rejected"}]
      BY <2>3 DEF TypeOK
    <3>4. QED
      BY <2>3, <3>1, <3>2, <3>3 DEF TypeOK, RequestOK
  <2>4. CASE Finish(w) /\ UNCHANGED <<status, from, answers, member, blockers>>
    <3>1. RequestOK'
      BY <2>4, FinishType
    <3>2. QED
      BY <2>4, <3>1 DEF TypeOK, RequestOK
  <2>5. QED
    BY <1>2, <2>2, <2>3, <2>4 DEF RequestUpdate, IsIn
<1>3. CASE RequestInsert(w)
  <2>1. user[w] \in Users /\ pc[w] # "idle" /\ Upsert(user[w], Wanted(user[w])) /\ Requested(w)
    BY <1>3 DEF RequestInsert, TypeOK
  <2>2. RequestOK'
    BY <2>1, RequestedType
  <2>3. /\ status' \in [Ids -> Status] /\ from' \in [Ids -> Users \cup {None}]
        /\ answers' \in [Ids -> SUBSET {"accepted", "rejected"}]
    BY <2>1, WantedType, UpsertType DEF Status
  <2>4. QED
    BY <1>3, <2>2, <2>3 DEF RequestInsert, TypeOK, RequestOK
<1>4. CASE AcceptUpdate(w)
  <2>1. RequestOK'
    BY <1>4, FinishType, GotoType DEF AcceptUpdate, PC
  <2>2. at[w] \in Ids
    BY <1>4 DEF AcceptUpdate, TypeOK
  <2>3. status' \in [Ids -> Status] /\ answers' \in [Ids -> SUBSET {"accepted", "rejected"}]
    BY <1>4, <2>2 DEF AcceptUpdate, TypeOK, Status
  <2>4. QED
    BY <1>4, <2>1, <2>3 DEF AcceptUpdate, TypeOK, RequestOK
<1>5. CASE BlockAny(w)
  <2>1. user[w] \in Users
    BY <1>5 DEF BlockAny, TypeOK
  <2>2. ASSUME NEW i \in Ids, Turn(i, user[w], "blocked"), Acknowledge(w), UNCHANGED <<member, answers>>
        PROVE  TypeOK'
    <3>1. RequestOK' /\ blockers' \in SUBSET Users
      BY <2>1, <2>2, FinishType DEF Acknowledge, TypeOK
    <3>2. status' \in [Ids -> Status] /\ from' \in [Ids -> Users \cup {None}]
      BY <2>1, <2>2, TurnType DEF Status
    <3>3. QED
      BY <2>2, <3>1, <3>2 DEF TypeOK, RequestOK
  <2>3. CASE Goto(w, "b_insert") /\ UNCHANGED <<status, from, blockers, member, answers>>
    <3>1. RequestOK'
      BY <1>5, <2>3, GotoType DEF BlockAny, PC
    <3>2. QED
      BY <2>3, <3>1 DEF TypeOK, RequestOK
  <2>4. QED
    BY <1>5, <2>2, <2>3 DEF BlockAny, Rows
<1>6. CASE BlockInsert(w)
  <2>1. user[w] \in Users /\ Upsert(user[w], "blocked")
    BY <1>6 DEF BlockInsert, TypeOK
  <2>2. RequestOK' /\ blockers' \in SUBSET Users
    BY <1>6, <2>1, FinishType DEF BlockInsert, Acknowledge, TypeOK
  <2>3. /\ status' \in [Ids -> Status] /\ from' \in [Ids -> Users \cup {None}]
        /\ answers' \in [Ids -> SUBSET {"accepted", "rejected"}]
    BY <2>1, UpsertType DEF Status
  <2>4. QED
    BY <1>6, <2>2, <2>3 DEF BlockInsert, TypeOK, RequestOK
<1>7. CASE BlockId(w)
  <2>1. user[w] \in Users /\ at[w] \in Ids
    BY <1>7 DEF BlockId, TypeOK
  <2>2. RequestOK' /\ blockers' \in SUBSET Users
    BY <1>7, <2>1, FinishType DEF BlockId, Acknowledge, TypeOK
  <2>3. status' \in [Ids -> Status] /\ from' \in [Ids -> Users \cup {None}]
    BY <1>7, <2>1, TurnType DEF BlockId, TypeOK, Status
  <2>4. QED
    BY <1>7, <2>2, <2>3 DEF BlockId, TypeOK, RequestOK
<1>8. CASE DMFind(w)
  <2>1. RequestOK'
    BY <1>8, FinishType, GotoType DEF DMFind, PC
  <2>2. QED
    BY <1>8, <2>1 DEF DMFind, TypeOK, RequestOK
<1>9. CASE DMInsert(w)
  <2>1. RequestOK'
    BY <1>9, FinishType DEF DMInsert
  <2>2. member' \in [Convs -> SUBSET Users]
    BY <1>9 DEF DMInsert, TypeOK
  <2>3. QED
    BY <1>9, <2>1, <2>2 DEF DMInsert, TypeOK, RequestOK
<1>10. QED
  BY <1>1, <1>2, <1>3, <1>4, <1>5, <1>6, <1>7, <1>8, <1>9 DEF Serve

(* Every arrival keeps them.                                               *)
LEMMA TypeAsk ==
  ASSUME TypeOK, NEW w \in Workers, NEW u \in Users, Ask(w, u)
  PROVE  TypeOK'
<1>1. CASE Request(w, u)
  <2>1. RequestOK'
    BY <1>1, ArriveType DEF Request, PC
  <2>2. QED
    BY <1>1, <2>1 DEF Request, TypeOK, RequestOK
<1>2. CASE Block(w, u)
  <2>1. RequestOK'
    <3>1. ASSUME NEW i \in Ids, Arrive(w, "b_id", u, i) PROVE RequestOK'
      BY <3>1, ArriveType DEF PC
    <3>2. CASE Arrive(w, "b_any", u, None)
      BY <3>2, ArriveType DEF PC
    <3>3. QED
      BY <1>2, <3>1, <3>2 DEF Block, Rows
  <2>2. QED
    BY <1>2, <2>1 DEF Block, TypeOK, RequestOK
<1>3. CASE Unblock(w, u)
  BY <1>3 DEF Unblock, TypeOK, IsIn, Status, request, Note
<1>4. CASE OpenDM(w, u)
  <2>1. RequestOK'
    BY <1>4, ArriveType DEF OpenDM, PC
  <2>2. QED
    BY <1>4, <2>1 DEF OpenDM, TypeOK, RequestOK
<1>5. ASSUME NEW i \in Ids, Accept(w, u, i) PROVE TypeOK'
  <2>1. RequestOK'
    BY <1>5, ArriveType DEF Accept, PC
  <2>2. QED
    BY <1>5, <2>1 DEF Accept, TypeOK, RequestOK
<1>6. ASSUME NEW i \in Ids, Reject(w, u, i) PROVE TypeOK'
  BY <1>6 DEF Reject, TypeOK, Status, request, Note
<1>7. ASSUME NEW d \in Convs, DeleteDM(w, u, d) PROVE TypeOK'
  BY <1>7 DEF DeleteDM, TypeOK, request, Note
<1>8. QED
  BY <1>1, <1>2, <1>3, <1>4, <1>5, <1>6, <1>7 DEF Ask

LEMMA TypeStep == TypeOK /\ [Next]_vars => TypeOK'
<1>1. ASSUME TypeOK, Next PROVE TypeOK'
  BY <1>1, TypeServe, TypeAsk DEF Next
<1>2. ASSUME TypeOK, UNCHANGED vars PROVE TypeOK'
  BY <1>2 DEF vars, TypeOK
<1>3. QED
  BY <1>1, <1>2

(* For any number of requests that overlap the variables keep their types, *)
(* and a request that acts on a row knows which.                           *)
THEOREM TypeCorrect == Spec => []TypeOK
  BY TypeInit, TypeStep, PTL DEF Spec

-----------------------------------------------------------------------------
(* A pending request has no answer yet, any other at most one.             *)
OneAnswer ==
  \A i \in Ids :
    /\ status[i] = "pending" => answers[i] = {}
    /\ answers[i] \in {{}, {"accepted"}, {"rejected"}}

LEMMA OneAnswerTurn ==
  ASSUME TypeOK, OneAnswer, NEW i \in Ids, NEW u \in Users, NEW s \in Status, Turn(i, u, s),
         \/ answers' = [answers EXCEPT ![i] = {}]
         \/ s # "pending" /\ UNCHANGED answers
  PROVE  OneAnswer'
  BY DEF TypeOK, OneAnswer, Turn

LEMMA OneAnswerServe ==
  ASSUME TypeOK, OneAnswer, NEW w \in Workers, Serve(w)
  PROVE  OneAnswer'
<1>1. ASSUME UNCHANGED <<status, answers>> PROVE OneAnswer'
  BY <1>1 DEF OneAnswer
<1>2. CASE RequestUpdate(w)
  <2>1. user[w] \in Users
    BY <1>2 DEF RequestUpdate, TypeOK
  <2>2. ASSUME NEW i \in Ids, Turn(i, user[w], Wanted(user[w])), answers' = [answers EXCEPT ![i] = {}]
        PROVE  OneAnswer'
    BY <2>1, <2>2, WantedType, OneAnswerTurn DEF Status
  <2>3. QED
    BY <1>1, <1>2, <2>2 DEF RequestUpdate, IsIn
<1>3. CASE RequestInsert(w)
  <2>1. user[w] \in Users /\ Wanted(user[w]) \in Status
    BY <1>3, WantedType DEF RequestInsert, TypeOK, Status
  <2>2. PICK i \in Ids : Turn(i, user[w], Wanted(user[w])) /\ answers' = [answers EXCEPT ![i] = {}]
    BY <1>3 DEF RequestInsert, Upsert
  <2>3. QED
    BY <2>1, <2>2, OneAnswerTurn
<1>4. CASE AcceptUpdate(w)
  <2>1. at[w] \in Ids
    BY <1>4 DEF AcceptUpdate, TypeOK
  <2>2. CASE status[at[w]] = "pending" /\ status' = [status EXCEPT ![at[w]] = "accepted"]
             /\ answers' = [answers EXCEPT ![at[w]] = @ \cup {"accepted"}]
    BY <2>1, <2>2 DEF OneAnswer, TypeOK
  <2>3. QED
    BY <1>1, <1>4, <2>2 DEF AcceptUpdate
<1>5. CASE BlockAny(w)
  <2>1. user[w] \in Users /\ UNCHANGED answers
    BY <1>5 DEF BlockAny, TypeOK
  <2>2. ASSUME NEW i \in Ids, Turn(i, user[w], "blocked") PROVE OneAnswer'
    BY <2>1, <2>2, OneAnswerTurn DEF Status
  <2>3. QED
    BY <1>1, <1>5, <2>1, <2>2 DEF BlockAny, Rows
<1>6. CASE BlockInsert(w)
  <2>1. user[w] \in Users
    BY <1>6 DEF BlockInsert, TypeOK
  <2>2. PICK i \in Ids : Turn(i, user[w], "blocked") /\ answers' = [answers EXCEPT ![i] = {}]
    BY <1>6 DEF BlockInsert, Upsert
  <2>3. QED
    BY <2>1, <2>2, OneAnswerTurn DEF Status
<1>7. CASE BlockId(w)
  <2>1. user[w] \in Users /\ at[w] \in Ids /\ UNCHANGED answers
    BY <1>7 DEF BlockId, TypeOK
  <2>2. CASE Turn(at[w], user[w], "blocked")
    BY <2>1, <2>2, OneAnswerTurn DEF Status
  <2>3. QED
    BY <1>1, <1>7, <2>1, <2>2 DEF BlockId
<1>8. CASE RequestLook(w) \/ DMFind(w) \/ DMInsert(w)
  BY <1>1, <1>8 DEF RequestLook, DMFind, DMInsert
<1>9. QED
  BY <1>2, <1>3, <1>4, <1>5, <1>6, <1>7, <1>8 DEF Serve

LEMMA OneAnswerAsk ==
  ASSUME TypeOK, OneAnswer, NEW w \in Workers, NEW u \in Users, Ask(w, u)
  PROVE  OneAnswer'
<1>1. ASSUME UNCHANGED <<status, answers>> PROVE OneAnswer'
  BY <1>1 DEF OneAnswer
<1>2. CASE Request(w, u) \/ Block(w, u) \/ OpenDM(w, u)
  BY <1>1, <1>2 DEF Request, Block, OpenDM
<1>3. CASE Unblock(w, u)
  BY <1>3 DEF Unblock, IsIn, OneAnswer, TypeOK
<1>4. ASSUME NEW i \in Ids, Accept(w, u, i) PROVE OneAnswer'
  BY <1>1, <1>4 DEF Accept
<1>5. ASSUME NEW i \in Ids, Reject(w, u, i) PROVE OneAnswer'
  BY <1>5 DEF Reject, OneAnswer, TypeOK
<1>6. ASSUME NEW d \in Convs, DeleteDM(w, u, d) PROVE OneAnswer'
  BY <1>1, <1>6 DEF DeleteDM
<1>7. QED
  BY <1>2, <1>3, <1>4, <1>5, <1>6 DEF Ask

LEMMA OneAnswerCounts == OneAnswer => AnsweredOnce
<1>1. /\ Cardinality({}) = 0
      /\ Cardinality({"accepted"}) = 1
      /\ Cardinality({"rejected"}) = 1
  BY FS_EmptySet, FS_Singleton
<1>2. QED
  BY <1>1 DEF OneAnswer, AnsweredOnce

(* However many tabs and users answer it, a friend request is not both     *)
(* accepted and rejected.                                                  *)
THEOREM AnsweredOnceHolds == Spec => []AnsweredOnce
<1>1. Init => OneAnswer
  BY DEF Init, OneAnswer
<1>2. TypeOK /\ OneAnswer /\ [Next]_vars => OneAnswer'
  <2>1. ASSUME TypeOK, OneAnswer, Next PROVE OneAnswer'
    BY <2>1, OneAnswerServe, OneAnswerAsk DEF Next
  <2>2. ASSUME OneAnswer, UNCHANGED vars PROVE OneAnswer'
    BY <2>2 DEF vars, OneAnswer
  <2>3. QED
    BY <2>1, <2>2
<1>3. QED
  BY <1>1, <1>2, TypeCorrect, OneAnswerCounts, PTL DEF Spec

-----------------------------------------------------------------------------
(* That somebody has deleted a conversation is not forgotten.              *)
LEMMA DeletedServe ==
  ASSUME NEW w \in Workers, Serve(w)
  PROVE  deleted' = deleted
<1> USE DEF Goto, Finish, Acknowledge, history
<1>1. Requested(w) => deleted' = deleted
  BY DEF Requested
<1>2. RequestLook(w) \/ DMFind(w) \/ DMInsert(w) \/ AcceptUpdate(w) => deleted' = deleted
  BY DEF RequestLook, DMFind, DMInsert, AcceptUpdate
<1>3. RequestUpdate(w) \/ RequestInsert(w) => deleted' = deleted
  BY <1>1 DEF RequestUpdate, RequestInsert
<1>4. BlockAny(w) \/ BlockInsert(w) \/ BlockId(w) => deleted' = deleted
  BY DEF BlockAny, BlockInsert, BlockId
<1>5. QED
  BY <1>2, <1>3, <1>4 DEF Serve

LEMMA DeletedAsk ==
  ASSUME NEW w \in Workers, NEW u \in Users, Ask(w, u)
  PROVE  deleted => deleted'
  BY DEF Ask, Request, Block, Unblock, OpenDM, Accept, Reject, DeleteDM, Arrive

(* What FriendsHaveDM needs of a step: no friendship is accepted by it, or *)
(* the request goes on to the conversation; conversations stay; and the    *)
(* other requests stay where they are.                                     *)
LEMMA HaveDMStep ==
  ASSUME TypeOK, FriendsHaveDM, NEW w \in Workers,
         \A v \in Workers \ {w} : pc'[v] = pc[v],
         HasDM => HasDM', deleted => deleted',
         \/ Opening(w)'
         \/ HasDM'
         \/ ~Opening(w) /\ IsIn({"accepted"})' \subseteq IsIn({"accepted"})
  PROVE  FriendsHaveDM'
<1>1. SUFFICES ASSUME IsIn({"accepted"})' # {}, ~HasDM', ~deleted', ~Opening(w)'
      PROVE  \E v \in Workers : Opening(v)'
  BY DEF FriendsHaveDM
<1>2. IsIn({"accepted"}) # {} /\ ~HasDM /\ ~deleted /\ ~Opening(w)
  BY <1>1
<1>3. PICK v \in Workers : Opening(v)
  BY <1>2 DEF FriendsHaveDM
<1>4. v # w
  BY <1>2, <1>3
<1>5. Opening(v)'
  BY <1>3, <1>4 DEF Opening
<1>6. QED
  BY <1>5

(* A request that has just accepted a friendship goes on.                  *)
LEMMA RequestedOpens ==
  ASSUME TypeOK, NEW w \in Workers, NEW i \in Ids, user[w] \in Users,
         Turn(i, user[w], Wanted(user[w])), Requested(w)
  PROVE  /\ \A v \in Workers \ {w} : pc'[v] = pc[v]
         /\ Opening(w)' \/ IsIn({"accepted"})' \subseteq IsIn({"accepted"})
<1>1. CASE Wanted(user[w]) = "accepted"
  BY <1>1 DEF Requested, Goto, Opening, TypeOK
<1>2. CASE Wanted(user[w]) # "accepted"
  <2>1. IsIn({"accepted"})' \subseteq IsIn({"accepted"})
    BY <1>2 DEF Turn, IsIn, TypeOK
  <2>2. QED
    BY <1>2, <2>1 DEF Requested, Finish, TypeOK
<1>3. QED
  BY <1>1, <1>2

LEMMA HaveDMServe ==
  ASSUME TypeOK, FriendsHaveDM, NEW w \in Workers, Serve(w)
  PROVE  FriendsHaveDM'
<1>0. deleted => deleted'
  BY DeletedServe
<1>1. UNCHANGED member => (HasDM => HasDM')
  BY DEF HasDM
<1>2. CASE RequestLook(w)
  <2>1. /\ \A v \in Workers \ {w} : pc'[v] = pc[v]
        /\ UNCHANGED <<member, status>> /\ ~Opening(w)
    BY <1>2 DEF RequestLook, Goto, Finish, TypeOK, Opening
  <2>2. QED
    BY <1>1, <2>1, <1>0, HaveDMStep DEF IsIn
<1>3. CASE RequestUpdate(w)
  <2>1. user[w] \in Users /\ UNCHANGED member /\ ~Opening(w)
    BY <1>3 DEF RequestUpdate, TypeOK, Opening
  <2>2. ASSUME NEW i \in Ids, Turn(i, user[w], Wanted(user[w])), Requested(w) PROVE FriendsHaveDM'
    BY <1>1, <2>1, <2>2, RequestedOpens, <1>0, HaveDMStep
  <2>3. CASE (Goto(w, "q_insert") \/ Finish(w)) /\ UNCHANGED status
    <3>1. \A v \in Workers \ {w} : pc'[v] = pc[v]
      BY <2>3 DEF Goto, Finish, TypeOK
    <3>2. QED
      BY <1>1, <2>1, <2>3, <3>1, <1>0, HaveDMStep DEF IsIn
  <2>4. QED
    BY <1>3, <2>2, <2>3 DEF RequestUpdate, IsIn
<1>4. CASE RequestInsert(w)
  <2>1. user[w] \in Users /\ UNCHANGED member /\ ~Opening(w) /\ Requested(w)
    BY <1>4 DEF RequestInsert, TypeOK, Opening
  <2>2. PICK i \in Ids : Turn(i, user[w], Wanted(user[w]))
    BY <1>4 DEF RequestInsert, Upsert
  <2>3. QED
    BY <1>1, <2>1, <2>2, RequestedOpens, <1>0, HaveDMStep
<1>5. CASE AcceptUpdate(w)
  <2>1. /\ \A v \in Workers \ {w} : pc'[v] = pc[v]
        /\ UNCHANGED member /\ ~Opening(w)
        /\ Opening(w)' \/ UNCHANGED status
    BY <1>5 DEF AcceptUpdate, Goto, Finish, TypeOK, Opening
  <2>2. QED
    BY <1>1, <2>1, <1>0, HaveDMStep DEF IsIn
<1>6. CASE BlockAny(w)
  <2>1. /\ \A v \in Workers \ {w} : pc'[v] = pc[v]
        /\ UNCHANGED member /\ ~Opening(w)
    BY <1>6 DEF BlockAny, Acknowledge, Goto, Finish, TypeOK, Opening
  <2>2. IsIn({"accepted"})' \subseteq IsIn({"accepted"})
    BY <1>6 DEF BlockAny, Turn, Rows, IsIn, TypeOK
  <2>3. QED
    BY <1>1, <2>1, <2>2, <1>0, HaveDMStep
<1>7. CASE BlockInsert(w)
  <2>1. /\ \A v \in Workers \ {w} : pc'[v] = pc[v]
        /\ UNCHANGED member /\ ~Opening(w)
    BY <1>7 DEF BlockInsert, Acknowledge, Finish, TypeOK, Opening
  <2>2. PICK i \in Ids : Turn(i, user[w], "blocked")
    BY <1>7 DEF BlockInsert, Upsert
  <2>3. IsIn({"accepted"})' \subseteq IsIn({"accepted"})
    BY <2>2 DEF Turn, IsIn, TypeOK
  <2>4. QED
    BY <1>1, <2>1, <2>3, <1>0, HaveDMStep
<1>8. CASE BlockId(w)
  <2>1. /\ \A v \in Workers \ {w} : pc'[v] = pc[v]
        /\ UNCHANGED member /\ ~Opening(w)
    BY <1>8 DEF BlockId, Acknowledge, Finish, TypeOK, Opening
  <2>2. IsIn({"accepted"})' \subseteq IsIn({"accepted"})
    BY <1>8 DEF BlockId, Turn, IsIn, TypeOK
  <2>3. QED
    BY <1>1, <2>1, <2>2, <1>0, HaveDMStep
<1>9. CASE DMFind(w)
  <2>1. /\ \A v \in Workers \ {w} : pc'[v] = pc[v]
        /\ UNCHANGED <<status, member>>
        /\ Opening(w)' \/ HasDM
    BY <1>9 DEF DMFind, Goto, Finish, TypeOK, Opening
  <2>2. QED
    BY <1>1, <2>1, <1>0, HaveDMStep
<1>10. CASE DMInsert(w)
  <2>1. PICK d \in Convs : member' = [member EXCEPT ![d] = Users]
    BY <1>10 DEF DMInsert
  <2>2. HasDM'
    BY <2>1 DEF HasDM, TypeOK
  <2>3. \A v \in Workers \ {w} : pc'[v] = pc[v]
    BY <1>10 DEF DMInsert, Finish, TypeOK
  <2>4. QED
    BY <2>2, <2>3, <1>0, HaveDMStep
<1>11. QED
  BY <1>2, <1>3, <1>4, <1>5, <1>6, <1>7, <1>8, <1>9, <1>10 DEF Serve

LEMMA HaveDMAsk ==
  ASSUME TypeOK, FriendsHaveDM, NEW w \in Workers, NEW u \in Users, Ask(w, u)
  PROVE  FriendsHaveDM'
<1>0. deleted => deleted'
  BY DeletedAsk
<1>1. UNCHANGED member => (HasDM => HasDM')
  BY DEF HasDM
<1>2. ASSUME NEW l, NEW t, NEW i, Arrive(w, l, t, i), pc[w] = "idle", UNCHANGED <<status, member>>
      PROVE  FriendsHaveDM'
  <2>1. (\A v \in Workers \ {w} : pc'[v] = pc[v]) /\ ~Opening(w)
    BY <1>2 DEF Arrive, TypeOK, Opening
  <2>2. QED
    BY <1>1, <1>2, <2>1, <1>0, HaveDMStep DEF IsIn
<1>3. CASE Request(w, u)
  BY <1>2, <1>3 DEF Request, Free
<1>4. CASE Block(w, u)
  BY <1>2, <1>4 DEF Block, Free
<1>5. CASE OpenDM(w, u)
  BY <1>2, <1>5 DEF OpenDM, Free
<1>6. ASSUME NEW i \in Ids, Accept(w, u, i) PROVE FriendsHaveDM'
  BY <1>2, <1>6 DEF Accept, Free
<1>7. CASE Unblock(w, u)
  <2>1. IsIn({"accepted"})' \subseteq IsIn({"accepted"})
    BY <1>7 DEF Unblock, IsIn, TypeOK
  <2>2. UNCHANGED <<pc, member>> /\ pc[w] = "idle"
    BY <1>7 DEF Unblock, Free, request
  <2>3. QED
    BY <1>1, <2>1, <2>2, <1>0, HaveDMStep DEF Opening
<1>8. ASSUME NEW i \in Ids, Reject(w, u, i) PROVE FriendsHaveDM'
  <2>1. IsIn({"accepted"})' \subseteq IsIn({"accepted"})
    BY <1>8 DEF Reject, IsIn, TypeOK
  <2>2. UNCHANGED <<pc, member>> /\ pc[w] = "idle"
    BY <1>8 DEF Reject, Free, request
  <2>3. QED
    BY <1>1, <2>1, <2>2, <1>0, HaveDMStep DEF Opening
<1>9. ASSUME NEW d \in Convs, DeleteDM(w, u, d) PROVE FriendsHaveDM'
  BY <1>9 DEF DeleteDM, FriendsHaveDM
<1>10. QED
  BY <1>3, <1>4, <1>5, <1>6, <1>7, <1>8, <1>9 DEF Ask

(* As long as nobody deletes it friends have a conversation, or a request  *)
(* that is about to open it, whatever requests overlap.                    *)
THEOREM FriendsHaveDMHolds == Spec => []FriendsHaveDM
<1>1. Init => FriendsHaveDM
  BY DEF Init, FriendsHaveDM, IsIn
<1>2. TypeOK /\ FriendsHaveDM /\ [Next]_vars => FriendsHaveDM'
  <2>1. ASSUME TypeOK, FriendsHaveDM, Next PROVE FriendsHaveDM'
    BY <2>1, HaveDMServe, HaveDMAsk DEF Next
  <2>2. ASSUME FriendsHaveDM, UNCHANGED vars PROVE FriendsHaveDM'
    BY <2>2 DEF vars, FriendsHaveDM, IsIn, HasDM, Opening
  <2>3. QED
    BY <2>1, <2>2
<1>3. QED
  BY <1>1, <1>2, TypeCorrect, PTL DEF Spec

-----------------------------------------------------------------------------
(* As long as no two requests have been under way at the same time: one is *)
(* at work at most, there is one row at most, it is the blocked one of the *)
(* last user to be told that they block, one conversation at most is       *)
(* shared, and a request still finds what it has read.                     *)
Alone == \A v, w \in Workers : pc[v] # "idle" /\ pc[w] # "idle" => v = w
OneOf(S) == \A x, y \in S : x = y
Standing == blockers # {} => \E i \in IsIn({"blocked"}) : blockers = {from[i]}
Shared == {d \in Convs : member[d] = Users}

Knows(w) ==
  /\ pc[w] = "q_look" => ~Blocked
  /\ pc[w] = "q_update" => Rows = IsIn({"rejected"})
  /\ pc[w] \in {"q_insert", "b_insert"} => Rows = {}
  /\ pc[w] = "b_id" => at[w] \in Rows
  /\ pc[w] = "dm_insert" => Shared = {}

Orderly ==
  ~overlapped =>
    /\ Alone
    /\ OneOf(Rows)
    /\ Standing
    /\ OneOf(Shared)
    /\ \A w \in Workers : Knows(w)

LEMMA OrderlyInit == Init => Orderly
<1> SUFFICES ASSUME Init PROVE Orderly
  OBVIOUS
<1>1. Rows = {} /\ Shared = {}
  BY FriendAssumption DEF Init, Rows, Shared
<1>2. Alone /\ Standing /\ \A w \in Workers : Knows(w)
  BY DEF Init, Alone, Standing, Knows
<1>3. QED
  BY <1>1, <1>2 DEF Orderly, OneOf

(* The request that is served is the only one, before and after.           *)
LEMMA ServedAlone ==
  ASSUME TypeOK, Orderly, NEW w \in Workers, Serve(w), ~overlapped'
  PROVE  /\ ~overlapped /\ pc[w] # "idle"
         /\ \A v \in Workers \ {w} : pc'[v] = "idle"
<1> USE DEF Goto, Finish, Acknowledge, history
<1>1. pc[w] # "idle"
  BY DEF Serve, RequestLook, RequestUpdate, RequestInsert, AcceptUpdate, BlockAny, BlockInsert,
         BlockId, DMFind, DMInsert
<1>2. overlapped' = overlapped /\ \A v \in Workers \ {w} : pc'[v] = pc[v]
  <2>1. \A l : Goto(w, l) => overlapped' = overlapped /\ \A v \in Workers \ {w} : pc'[v] = pc[v]
    BY DEF TypeOK
  <2>2. Finish(w) => overlapped' = overlapped /\ \A v \in Workers \ {w} : pc'[v] = pc[v]
    BY DEF TypeOK
  <2>3. Goto(w, "dm_find") \/ Goto(w, "q_update") \/ Goto(w, "q_insert") \/ Goto(w, "b_insert")
          \/ Goto(w, "dm_insert") \/ Finish(w)
    BY DEF Serve, RequestLook, RequestUpdate, RequestInsert, Requested, AcceptUpdate, BlockAny,
           BlockInsert, BlockId, DMFind, DMInsert
  <2>4. QED
    BY <2>1, <2>2, <2>3
<1>3. QED
  BY <1>1, <1>2 DEF Orderly, Alone

(* It is enough to look at the request that moves.                         *)
LEMMA OrderlyBy ==
  ASSUME NEW w \in Workers, \A v \in Workers \ {w} : pc'[v] = "idle",
         OneOf(Rows)', Standing', OneOf(Shared)', Knows(w)'
  PROVE  Orderly'
  BY DEF Orderly, Alone, Knows

(* A row that is turned around, or written first, is a row.                *)
LEMMA TurnRows ==
  ASSUME TypeOK, NEW i \in Ids, NEW u \in Users, NEW s \in Status \ {"none"}, Turn(i, u, s)
  PROVE  /\ Rows' = Rows \cup {i}
         /\ i \in IsIn({s})' /\ from'[i] = u
  BY DEF TypeOK, Turn, Rows, IsIn

(* Nobody has been told that they block while the row says otherwise.      *)
LEMMA NobodyBlocks ==
  ASSUME OneOf(Rows), Standing, Rows = {} \/ \E i \in Rows : status[i] # "blocked"
  PROVE  blockers = {}
  BY DEF OneOf, Standing, Rows, IsIn

(* Every step of a request.                                                *)
LEMMA OrderlyServe ==
  ASSUME TypeOK, Orderly, NEW w \in Workers, Serve(w)
  PROVE  Orderly'
<1> SUFFICES ASSUME ~overlapped' PROVE Orderly'
  BY DEF Orderly
<1>1. /\ ~overlapped /\ pc[w] # "idle" /\ user[w] \in Users
      /\ \A v \in Workers \ {w} : pc'[v] = "idle"
  BY ServedAlone DEF TypeOK
<1>2. OneOf(Rows) /\ Standing /\ OneOf(Shared) /\ Knows(w)
  BY <1>1 DEF Orderly
<1>3. UNCHANGED member => Shared' = Shared
  BY DEF Shared
<1>4. UNCHANGED <<status, from, blockers>> => Rows' = Rows /\ Standing' /\ Blocked' = Blocked
  BY <1>2 DEF Rows, Standing, IsIn, Blocked
(* A request that changes no row is left with nothing to know, or knows it. *)
<1>5. ASSUME UNCHANGED <<status, from, blockers, member>>, Knows(w)'
      PROVE  Orderly'
  BY <1>1, <1>2, <1>3, <1>4, <1>5, OrderlyBy DEF OneOf
<1>6. Finish(w) => Knows(w)'
  BY DEF Finish, Knows, TypeOK
<1>7. Requested(w) => Knows(w)'
  BY DEF Requested, Goto, Finish, Knows, TypeOK
(* It may turn the only row around, or write the first one, while nobody    *)
(* has been told that they block.                                          *)
<1>8. ASSUME NEW i \in Ids, NEW s \in Status \ {"none"}, Turn(i, user[w], s), Rows \subseteq {i},
             \/ Requested(w) /\ blockers = {} /\ UNCHANGED <<blockers, member>>
             \/ s = "blocked" /\ Acknowledge(w) /\ UNCHANGED member
      PROVE  Orderly'
  <2>1. Rows' = {i} /\ i \in IsIn({s})' /\ from'[i] = user[w]
    BY <1>1, <1>8, TurnRows
  <2>2. Knows(w)'
    BY <1>6, <1>7, <1>8 DEF Acknowledge
  <2>3. Standing'
    BY <1>8, <2>1 DEF Standing, Acknowledge
  <2>4. QED
    BY <1>1, <1>2, <1>3, <1>8, <2>1, <2>2, <2>3, OrderlyBy DEF OneOf
<1>9. CASE RequestLook(w)
  <2>1. CASE Goto(w, "q_update") /\ (IsIn({"rejected", "blocked"}) # {} \/ Rows = {})
    <3>1. ~Blocked
      BY <1>2, <1>9 DEF RequestLook, Knows
    <3>2. Rows = IsIn({"rejected"})
      BY <1>2, <2>1, <3>1 DEF Rows, IsIn, Blocked, OneOf
    <3>3. Rows' = Rows /\ IsIn({"rejected"})' = IsIn({"rejected"})
      BY <1>9 DEF RequestLook, Rows, IsIn
    <3>4. Knows(w)'
      BY <2>1, <3>2, <3>3 DEF Goto, Knows, TypeOK
    <3>5. QED
      BY <1>5, <1>9, <3>4 DEF RequestLook
  <2>2. CASE Goto(w, "dm_find")
    <3>1. Knows(w)'
      BY <2>2 DEF Goto, Knows, TypeOK
    <3>2. QED
      BY <1>5, <1>9, <3>1 DEF RequestLook
  <2>3. CASE Finish(w)
    BY <1>5, <1>6, <1>9, <2>3 DEF RequestLook
  <2>4. QED
    BY <1>9, <2>1, <2>2, <2>3 DEF RequestLook
<1>10. CASE RequestUpdate(w)
  <2>1. Rows = IsIn({"rejected"})
    BY <1>2, <1>10 DEF RequestUpdate, Knows
  <2>2. blockers = {}
    BY <1>2, <2>1, NobodyBlocks DEF IsIn
  <2>3. CASE IsIn({"pending", "rejected"}) = {} /\ Goto(w, "q_insert") /\ UNCHANGED <<status, from>>
    <3>1. Rows' = {}
      BY <1>10, <2>1, <2>3 DEF Rows, IsIn
    <3>2. Knows(w)'
      BY <2>3, <3>1 DEF Goto, Knows, TypeOK
    <3>3. QED
      BY <1>5, <1>10, <2>3, <3>2 DEF RequestUpdate
  <2>4. ASSUME NEW i \in Ids, IsIn({"pending", "rejected"}) = {i},
               Turn(i, user[w], Wanted(user[w])), Requested(w)
        PROVE  Orderly'
    <3>1. Rows \subseteq {i}
      BY <2>1, <2>4 DEF IsIn
    <3>2. Wanted(user[w]) \in Status \ {"none"}
      BY <1>1, WantedType DEF Status
    <3>3. QED
      BY <1>8, <1>10, <2>2, <2>4, <3>1, <3>2 DEF RequestUpdate
  <2>5. CASE Finish(w) /\ UNCHANGED <<status, from>>
    BY <1>5, <1>6, <1>10, <2>5 DEF RequestUpdate
  <2>6. QED
    BY <1>10, <2>3, <2>4, <2>5 DEF RequestUpdate, IsIn
<1>11. CASE RequestInsert(w)
  <2>1. Rows = {} /\ Requested(w) /\ UNCHANGED <<member, blockers>>
    BY <1>2, <1>11 DEF RequestInsert, Knows
  <2>2. blockers = {}
    BY <1>2, <2>1, NobodyBlocks
  <2>3. PICK i \in Ids : Turn(i, user[w], Wanted(user[w]))
    BY <1>11 DEF RequestInsert, Upsert
  <2>4. Wanted(user[w]) \in Status \ {"none"}
    BY <1>1, WantedType DEF Status
  <2>5. QED
    BY <1>8, <2>1, <2>2, <2>3, <2>4
<1>12. CASE AcceptUpdate(w)
  <2>1. at[w] \in Ids /\ UNCHANGED <<from, member, blockers>>
    BY <1>12 DEF AcceptUpdate, TypeOK
  <2>2. CASE status[at[w]] = "pending" /\ status' = [status EXCEPT ![at[w]] = "accepted"]
             /\ Goto(w, "dm_find")
    <3>1. at[w] \in Rows /\ Rows' = Rows
      BY <2>1, <2>2 DEF Rows, TypeOK
    <3>2. blockers = {}
      BY <1>2, <2>2, <3>1, NobodyBlocks
    <3>3. Knows(w)' /\ Standing'
      BY <2>1, <2>2, <3>2 DEF Goto, Knows, TypeOK, Standing
    <3>4. QED
      BY <1>1, <1>2, <1>3, <2>1, <3>1, <3>3, OrderlyBy DEF OneOf
  <2>3. CASE Finish(w) /\ UNCHANGED status
    BY <1>5, <1>6, <2>1, <2>3
  <2>4. QED
    BY <1>12, <2>2, <2>3 DEF AcceptUpdate
<1>13. CASE BlockAny(w)
  <2>1. CASE Goto(w, "b_insert") /\ UNCHANGED <<status, from, blockers>> /\ \A i \in Rows : Rows # {i}
    <3>1. Rows = {}
      BY <1>2, <2>1 DEF OneOf
    <3>2. Knows(w)'
      BY <1>4, <2>1, <3>1 DEF Goto, Knows, TypeOK
    <3>3. QED
      BY <1>5, <1>13, <2>1, <3>2 DEF BlockAny
  <2>2. ASSUME NEW i \in Ids, Rows = {i}, Turn(i, user[w], "blocked"), Acknowledge(w)
        PROVE  Orderly'
    BY <1>8, <1>13, <2>2 DEF BlockAny, Status
  <2>3. QED
    BY <1>13, <2>1, <2>2 DEF BlockAny, Rows
<1>14. CASE BlockInsert(w)
  <2>1. Rows = {}
    BY <1>2, <1>14 DEF BlockInsert, Knows
  <2>2. PICK i \in Ids : Turn(i, user[w], "blocked")
    BY <1>14 DEF BlockInsert, Upsert
  <2>3. QED
    BY <1>8, <1>14, <2>1, <2>2 DEF BlockInsert, Status
<1>15. CASE BlockId(w)
  <2>1. at[w] \in Rows /\ at[w] \in Ids
    BY <1>2, <1>15 DEF BlockId, Knows, Rows
  <2>2. Rows \subseteq {at[w]} /\ ~Taken(at[w], user[w])
    BY <1>2, <2>1 DEF OneOf, Taken
  <2>3. Turn(at[w], user[w], "blocked") /\ Acknowledge(w) /\ UNCHANGED member
    BY <1>15, <2>2 DEF BlockId
  <2>4. QED
    BY <1>8, <2>1, <2>2, <2>3 DEF Status
<1>16. CASE DMFind(w)
  <2>1. CASE ~HasDM /\ Goto(w, "dm_insert")
    <3>1. Shared' = {}
      BY <1>16, <2>1 DEF DMFind, HasDM, Shared
    <3>2. Knows(w)'
      BY <2>1, <3>1 DEF Goto, Knows, TypeOK
    <3>3. QED
      BY <1>5, <1>16, <3>2 DEF DMFind
  <2>2. CASE Finish(w)
    BY <1>5, <1>6, <1>16, <2>2 DEF DMFind
  <2>3. QED
    BY <1>16, <2>1, <2>2 DEF DMFind
<1>17. CASE DMInsert(w)
  <2>1. Shared = {} /\ Finish(w) /\ UNCHANGED <<status, from, blockers>>
    BY <1>2, <1>17 DEF DMInsert, Knows
  <2>2. PICK d \in Convs : member' = [member EXCEPT ![d] = Users]
    BY <1>17 DEF DMInsert
  <2>3. Shared' = {d}
    BY <2>1, <2>2 DEF Shared, TypeOK
  <2>4. QED
    BY <1>1, <1>2, <1>4, <1>6, <2>1, <2>3, OrderlyBy DEF OneOf
<1>18. QED
  BY <1>9, <1>10, <1>11, <1>12, <1>13, <1>14, <1>15, <1>16, <1>17 DEF Serve

(* A request arrives when nobody is served: it is the only one then.       *)
LEMMA ArrivedAlone ==
  ASSUME TypeOK, Orderly, NEW w \in Workers, NEW u \in Users, Ask(w, u), ~overlapped'
  PROVE  /\ ~overlapped
         /\ \A v \in Workers : pc[v] = "idle"
         /\ \A v \in Workers \ {w} : pc'[v] = "idle"
<1>1. Note
  BY DEF Ask, Request, Block, Unblock, OpenDM, Accept, Reject, DeleteDM, Arrive
<1>2. \A v \in Workers \ {w} : pc'[v] = pc[v]
  BY DEF Ask, Request, Block, Unblock, OpenDM, Accept, Reject, DeleteDM, Arrive, request, TypeOK
<1>3. QED
  BY <1>1, <1>2 DEF Note

LEMMA OrderlyAsk ==
  ASSUME TypeOK, Orderly, NEW w \in Workers, NEW u \in Users, Ask(w, u)
  PROVE  Orderly'
<1> SUFFICES ASSUME ~overlapped' PROVE Orderly'
  BY DEF Orderly
<1>1. /\ ~overlapped
      /\ \A v \in Workers : pc[v] = "idle"
      /\ \A v \in Workers \ {w} : pc'[v] = "idle"
  BY ArrivedAlone
<1>2. OneOf(Rows) /\ Standing /\ OneOf(Shared)
  BY <1>1 DEF Orderly
<1>3. ASSUME UNCHANGED <<status, from, blockers, member>>, Knows(w)'
      PROVE  Orderly'
  <2>1. Rows' = Rows /\ Shared' = Shared /\ Standing'
    BY <1>2, <1>3 DEF Rows, Shared, Standing, IsIn
  <2>2. QED
    BY <1>1, <1>2, <1>3, <2>1, OrderlyBy DEF OneOf
<1>4. CASE Request(w, u)
  <2>1. ~Blocked'
    BY <1>4 DEF Request, Blocked, IsIn
  <2>2. Knows(w)'
    BY <1>4, <2>1 DEF Request, Arrive, Knows, TypeOK
  <2>3. QED
    BY <1>3, <1>4, <2>2 DEF Request
<1>5. CASE Block(w, u)
  <2>1. ASSUME NEW i \in Rows, Arrive(w, "b_id", u, i) PROVE Knows(w)'
    <3>1. i \in Rows' /\ at'[w] = i /\ pc'[w] = "b_id"
      BY <1>5, <2>1 DEF Block, Rows, Arrive, TypeOK
    <3>2. QED
      BY <3>1 DEF Knows
  <2>2. Arrive(w, "b_any", u, None) => Knows(w)'
    BY DEF Arrive, Knows, TypeOK
  <2>3. QED
    BY <1>3, <1>5, <2>1, <2>2 DEF Block
<1>6. CASE Unblock(w, u)
  <2>1. PICK i \in IsIn({"blocked"}) : from[i] = u /\ status' = [status EXCEPT ![i] = "rejected"]
    BY <1>6 DEF Unblock
  <2>2. Rows' = Rows /\ Shared' = Shared /\ i \in Rows
    BY <1>6, <2>1 DEF Unblock, Rows, Shared, IsIn, TypeOK
  <2>3. blockers \subseteq {u}
    BY <1>2, <2>1, <2>2 DEF Standing, OneOf, IsIn, Rows
  <2>4. Standing'
    BY <1>6, <2>3 DEF Unblock, Standing
  <2>5. Knows(w)'
    BY <1>1, <1>6 DEF Unblock, request, Knows
  <2>6. QED
    BY <1>1, <1>2, <2>2, <2>4, <2>5, OrderlyBy DEF OneOf
<1>7. CASE OpenDM(w, u)
  <2>1. Knows(w)'
    BY <1>7 DEF OpenDM, Arrive, Knows, TypeOK
  <2>2. QED
    BY <1>3, <1>7, <2>1 DEF OpenDM
<1>8. ASSUME NEW i \in Ids, Accept(w, u, i) PROVE Orderly'
  <2>1. Knows(w)'
    BY <1>8 DEF Accept, Arrive, Knows, TypeOK
  <2>2. QED
    BY <1>3, <1>8, <2>1 DEF Accept
<1>9. ASSUME NEW i \in Ids, Reject(w, u, i) PROVE Orderly'
  <2>1. i \in Rows /\ status[i] # "blocked"
    BY <1>9 DEF Reject, Rows
  <2>2. blockers = {}
    BY <1>2, <2>1, NobodyBlocks
  <2>3. Rows' = Rows /\ Shared' = Shared
    BY <1>9, <2>1 DEF Reject, Rows, Shared, TypeOK
  <2>4. Standing' /\ Knows(w)'
    BY <1>1, <1>9, <2>2 DEF Reject, Standing, request, Knows
  <2>5. QED
    BY <1>1, <1>2, <2>3, <2>4, OrderlyBy DEF OneOf
<1>10. ASSUME NEW d \in Convs, DeleteDM(w, u, d) PROVE Orderly'
  <2>1. Rows' = Rows /\ Standing'
    BY <1>2, <1>10 DEF DeleteDM, Rows, Standing, IsIn
  <2>2. Shared' \subseteq Shared
    BY <1>10 DEF DeleteDM, Shared, TypeOK
  <2>3. Knows(w)'
    BY <1>1, <1>10 DEF DeleteDM, request, Knows
  <2>4. QED
    BY <1>1, <1>2, <2>1, <2>2, <2>3, OrderlyBy DEF OneOf
<1>11. QED
  BY <1>4, <1>5, <1>6, <1>7, <1>8, <1>9, <1>10 DEF Ask

LEMMA OrderlyStep == TypeOK /\ Orderly /\ [Next]_vars => Orderly'
<1>1. ASSUME TypeOK, Orderly, Next PROVE Orderly'
  BY <1>1, OrderlyServe, OrderlyAsk DEF Next
<1>2. ASSUME Orderly, UNCHANGED vars PROVE Orderly'
  BY <1>2 DEF vars, Orderly, Alone, OneOf, Rows, Standing, IsIn, Shared, Knows, Blocked
<1>3. QED
  BY <1>1, <1>2

(* The inductive invariant of the four theorems below holds.              *)
THEOREM OrderlyHolds == Spec => []Orderly
  BY OrderlyInit, OrderlyStep, TypeCorrect, PTL DEF Spec

(* As long as no requests overlap, two users have one row at most, whoever *)
(* asked, answered, blocked or unblocked whom.                             *)
THEOREM OneRowHolds == Spec => []OneRow
<1>1. Orderly => OneRow
  <2>1. ASSUME OneOf(Rows) PROVE Cardinality(Rows) <= 1
    <3>1. CASE Rows = {}
      BY <3>1, FS_EmptySet
    <3>2. CASE Rows # {}
      <4>1. PICK i : Rows = {i}
        BY <2>1, <3>2 DEF OneOf
      <4>2. QED
        BY <4>1, FS_Singleton
    <3>3. QED
      BY <3>1, <3>2
  <2>2. QED
    BY <2>1 DEF Orderly, OneRow
<1>2. QED
  BY <1>1, OrderlyHolds, PTL

(* As long as no requests overlap, two users share one conversation at     *)
(* most, also after they have deleted it and opened it again.              *)
THEOREM OneSharedHolds == Spec => []OneShared
<1>1. Orderly => OneShared
  BY DEF Orderly, OneOf, Shared, OneShared
<1>2. QED
  BY <1>1, OrderlyHolds, PTL

(* As long as no requests overlap, whoever was last told that they block   *)
(* the other is blocking them, until they lift it.                         *)
THEOREM BlockStandsHolds == Spec => []BlockStands
<1>1. Orderly => BlockStands
  BY DEF Orderly, Standing, BlockStands, Blocked
<1>2. QED
  BY <1>1, OrderlyHolds, PTL

(* A conversation that nobody deletes has both members or is not there.    *)
Whole == ~deleted => \A d \in Convs : member[d] \in {{}, Users}

LEMMA WholeStep == TypeOK /\ Whole /\ [Next]_vars => Whole'
<1> SUFFICES ASSUME TypeOK, Whole, [Next]_vars PROVE Whole'
  OBVIOUS
<1>1. (deleted => deleted') /\ UNCHANGED member => Whole'
  BY DEF Whole
<1>2. ASSUME NEW w \in Workers, Serve(w) PROVE Whole'
  <2>1. deleted' = deleted
    BY <1>2, DeletedServe
  <2>2. CASE DMInsert(w)
    BY <2>1, <2>2 DEF DMInsert, Whole, TypeOK
  <2>3. CASE ~DMInsert(w)
    <3>1. UNCHANGED member
      BY <1>2, <2>3 DEF Serve, RequestLook, RequestUpdate, RequestInsert, AcceptUpdate, BlockAny,
                        BlockInsert, BlockId, DMFind
    <3>2. QED
      BY <1>1, <2>1, <3>1
  <2>4. QED
    BY <2>2, <2>3
<1>3. ASSUME NEW w \in Workers, NEW u \in Users, Ask(w, u) PROVE Whole'
  <2>1. deleted => deleted'
    BY <1>3, DeletedAsk
  <2>2. deleted' \/ UNCHANGED member
    BY <1>3 DEF Ask, Request, Block, Unblock, OpenDM, Accept, Reject, DeleteDM
  <2>3. QED
    BY <1>1, <2>1, <2>2 DEF Whole
<1>4. QED
  BY <1>1, <1>2, <1>3 DEF Next, vars

(* As long as no requests overlap and nobody deletes a conversation, a     *)
(* user has one with the same peer at most.                                *)
THEOREM OneChatHolds == Spec => []OneChat
<1>1. Init => Whole
  BY DEF Init, Whole
<1>2. Orderly /\ Whole => OneChat
  BY DEF Orderly, OneOf, Shared, Whole, OneChat
<1>3. QED
  BY <1>1, <1>2, WholeStep, TypeCorrect, OrderlyHolds, PTL DEF Spec
=============================================================================
