------------------------- MODULE CallSessionProofs -------------------------
(***************************************************************************)
(* Proofs about CallSession for any set of users, devices, calls and       *)
(* concurrent requests: type correctness, the safety invariants, and the   *)
(* refinement of CallLifecycle.                                            *)
(***************************************************************************)
EXTENDS CallSession, TLAPS

-----------------------------------------------------------------------------
(* Type correctness *)

(* Each part of the state keeps its type while it is left alone.           *)
LEMMA KeptTypes ==
  /\ RowsType /\ UNCHANGED rows => RowsType'
  /\ RequestType /\ UNCHANGED request => RequestType'
  /\ OtherType /\ UNCHANGED <<process, told>> => OtherType'
<1>1. RowsType /\ UNCHANGED rows => RowsType'
  BY DEF RowsType, rows
<1>2. RequestType /\ UNCHANGED request => RequestType'
  BY DEF RequestType, request
<1>3. OtherType /\ UNCHANGED <<process, told>> => OtherType'
  BY DEF OtherType, process, told
<1>4. QED
  BY <1>1, <1>2, <1>3

(* The three ways a request's own state changes at a step keep its type.   *)
LEMMA RequestTypes ==
  ASSUME RequestType, NEW w \in Workers
  PROVE  /\ Finish(w) => RequestType'
         /\ \A l \in PC \ {"i_add"} : ~Free(w) /\ Goto(w, l) => RequestType'
         /\ \A l \in PC \ {"i_add"}, u \in Users, d \in Devices, c \in Calls,
              S \in SUBSET Users, old \in SUBSET Calls :
              status[c] \in Status /\ Arrive(w, l, u, d, c, S, old) => RequestType'
<1>1. Finish(w) => RequestType'
  BY DEF RequestType, Finish, PC
<1>2. ASSUME NEW l \in PC \ {"i_add"}, ~Free(w), Goto(w, l) PROVE RequestType'
  BY <1>2 DEF RequestType, Goto, Free, scratch
<1>3. ASSUME NEW l \in PC \ {"i_add"}, NEW u \in Users, NEW d \in Devices, NEW c \in Calls,
             NEW S \in SUBSET Users, NEW old \in SUBSET Calls,
             status[c] \in Status, Arrive(w, l, u, d, c, S, old)
      PROVE  RequestType'
  BY <1>3 DEF RequestType, Arrive, Job
<1>4. QED
  BY <1>1, <1>2, <1>3

LEMMA TypeInit == Init => TypeOK
<1> SUFFICES ASSUME Init PROVE TypeOK
  OBVIOUS
<1>1. RowsType
  BY DEF Init, RowsType, Status, PartStatus, Note
<1>2. RequestType
  BY DEF Init, RequestType, PC
<1>3. OtherType
  BY DEF Init, OtherType, TimerStep
<1>4. QED
  BY <1>1, <1>2, <1>3 DEF TypeOK

LEMMA TypeArrival ==
  ASSUME TypeOK, NEW w \in Workers, Arrival(w)
  PROVE  TypeOK'
<1> USE DEF TypeOK
<1>1. PICK u \in Users, d \in Devices, c \in Calls :
        \/ Answer(w, u, d, c) \/ Decline(w, u, d, c) \/ Hangup(w, u, d, c)
        \/ \E S \in SUBSET Users : Start(w, u, d, c, S) \/ Invite(w, u, d, c, S)
        \/ \E t \in Users : Kick(w, u, d, c, t)
  BY DEF Arrival
<1>2. UNCHANGED <<rows, process, told>>
  BY <1>1 DEF Answer, Decline, Hangup, Start, Invite, Kick
<1>3. \E l \in PC \ {"i_add"}, S \in SUBSET Users, old \in SUBSET Calls :
        Arrive(w, l, u, d, c, S, old)
  BY <1>1 DEF Answer, Decline, Hangup, Start, Invite, Kick, PC
<1>4. RequestType'
  BY <1>3, RequestTypes DEF RowsType
<1>5. QED
  BY <1>2, <1>4, KeptTypes

LEMMA TypeServe ==
  ASSUME TypeOK, NEW w \in Workers, Serve(w)
  PROVE  TypeOK'
<1> USE DEF TypeOK
<1>1. CASE StartReplace(w)
  <2>1. RowsType'
    BY <1>1 DEF StartReplace, RowsType, Transition, Status, Open, Closed
  <2>2. RequestType'
    BY <1>1, RequestTypes DEF StartReplace, At, Free, PC
  <2>3. OtherType'
    BY <1>1 DEF StartReplace, OtherType, process, told, Reason
  <2>4. QED
    BY <2>1, <2>2, <2>3
<1>2. CASE StartScan(w)
  <2>1. RowsType'
    BY <1>2, KeptTypes DEF StartScan
  <2>2. RequestType'
    BY <1>2 DEF StartScan, RequestType, At, PC, Goto, Finish, scratch
  <2>3. OtherType'
    BY <1>2, KeptTypes DEF StartScan
  <2>4. QED
    BY <2>1, <2>2, <2>3
<1>3. CASE StartClear(w)
  <2>1. RowsType'
    BY <1>3 DEF StartClear, RowsType, Transition, Status, Open, Closed
  <2>2. RequestType'
    BY <1>3, RequestTypes DEF StartClear, At, Free, PC
  <2>3. OtherType'
    BY <1>3 DEF StartClear, OtherType, process, told, Reason
  <2>4. QED
    BY <2>1, <2>2, <2>3
<1>4. CASE StartInsert(w)
  <2>1. RowsType'
    BY <1>4 DEF StartInsert, RowsType, RequestType, Job, At, Status, Open, Closed
  <2>2. RequestType'
    BY <1>4, RequestTypes DEF StartInsert, At, Free, PC
  <2>3. OtherType'
    BY <1>4, KeptTypes DEF StartInsert
  <2>4. QED
    BY <2>1, <2>2, <2>3
<1>5. CASE StartHost(w)
  <2>1. RowsType'
    BY <1>5 DEF StartHost, RowsType, Upsert, PartStatus, RequestType, Job, At
  <2>2. RequestType'
    BY <1>5, RequestTypes DEF StartHost, At, Free, PC
  <2>3. OtherType'
    BY <1>5, KeptTypes DEF StartHost
  <2>4. QED
    BY <2>1, <2>2, <2>3
<1>6. CASE StartSeat(w)
  <2>1. RowsType'
    <3>1. PICK u \in todo[w] : Upsert(w, u, "invited")
      BY <1>6 DEF StartSeat
    <3>2. u \in Users /\ job[w] \in Job
      BY <1>6 DEF StartSeat, RequestType, At
    <3>3. QED
      BY <1>6, <3>1, <3>2 DEF StartSeat, Upsert, RowsType, PartStatus, Job
  <2>2. RequestType'
    BY <1>6 DEF StartSeat, RequestType, At, PC, Goto, Finish, scratch
  <2>3. OtherType'
    BY <1>6, KeptTypes DEF StartSeat
  <2>4. QED
    BY <2>1, <2>2, <2>3
<1>7. CASE StartRing(w)
  <2>1. RowsType'
    BY <1>7, KeptTypes DEF StartRing
  <2>2. RequestType'
    BY <1>7, RequestTypes DEF StartRing, At, Free, PC
  <2>3. OtherType'
    BY <1>7 DEF StartRing, OtherType, process, told, TimerStep, RequestType, At, Job
  <2>4. QED
    BY <2>1, <2>2, <2>3
<1>8. CASE AnswerCheck(w)
  <2>1. RowsType'
    BY <1>8, KeptTypes DEF AnswerCheck
  <2>2. RequestType'
    BY <1>8, RequestTypes DEF AnswerCheck, At, Free, PC
  <2>3. OtherType'
    BY <1>8, KeptTypes DEF AnswerCheck
  <2>4. QED
    BY <2>1, <2>2, <2>3
<1>9. CASE AnswerTake(w)
  <2>1. RowsType'
    BY <1>9 DEF AnswerTake, RowsType, RequestType, Job, At, Transition, Status, Open, Closed
  <2>2. RequestType'
    BY <1>9, RequestTypes DEF AnswerTake, At, Free, PC
  <2>3. OtherType'
    BY <1>9, KeptTypes DEF AnswerTake
  <2>4. QED
    BY <2>1, <2>2, <2>3
<1>10. CASE AnswerReload(w)
  <2>1. RowsType'
    BY <1>10, KeptTypes DEF AnswerReload
  <2>2. RequestType'
    BY <1>10, RequestTypes DEF AnswerReload, At, Free, PC
  <2>3. OtherType'
    BY <1>10, KeptTypes DEF AnswerReload
  <2>4. QED
    BY <2>1, <2>2, <2>3
<1>11. CASE AnswerJoin(w)
  <2>1. RowsType'
    BY <1>11 DEF AnswerJoin, RowsType, Upsert, PartStatus, RequestType, Job, At
  <2>2. RequestType'
    BY <1>11, RequestTypes DEF AnswerJoin, At, Free, PC
  <2>3. OtherType'
    BY <1>11 DEF AnswerJoin, OtherType, process, told, RequestType, At, Job
  <2>4. QED
    BY <2>1, <2>2, <2>3
<1>12. CASE DeclineMark(w)
  <2>1. RowsType'
    BY <1>12 DEF DeclineMark, RowsType, Upsert, PartStatus, RequestType, Job, At
  <2>2. RequestType'
    BY <1>12, RequestTypes DEF DeclineMark, At, Free, PC
  <2>3. OtherType'
    BY <1>12, KeptTypes DEF DeclineMark
  <2>4. QED
    BY <2>1, <2>2, <2>3
<1>13. CASE DeclinePending(w)
  <2>1. RowsType'
    BY <1>13, KeptTypes DEF DeclinePending
  <2>2. RequestType'
    BY <1>13, RequestTypes DEF DeclinePending, At, Free, PC
  <2>3. OtherType'
    BY <1>13, KeptTypes DEF DeclinePending
  <2>4. QED
    BY <2>1, <2>2, <2>3
<1>14. CASE DeclineJoined(w)
  <2>1. RowsType'
    BY <1>14, KeptTypes DEF DeclineJoined
  <2>2. RequestType'
    BY <1>14, RequestTypes DEF DeclineJoined, At, Free, PC
  <2>3. OtherType'
    BY <1>14, KeptTypes DEF DeclineJoined
  <2>4. QED
    BY <2>1, <2>2, <2>3
<1>15. CASE DeclineEnd(w)
  <2>1. RowsType'
    BY <1>15 DEF DeclineEnd, RowsType, Transition, Status, Open, Closed
  <2>2. RequestType'
    BY <1>15, RequestTypes DEF DeclineEnd, At, Free, PC
  <2>3. OtherType'
    BY <1>15, KeptTypes DEF DeclineEnd
  <2>4. QED
    BY <2>1, <2>2, <2>3
<1>16. CASE DeclineTell(w)
  <2>1. RowsType'
    BY <1>16 DEF DeclineTell, RowsType, Tell, Note
  <2>2. RequestType'
    BY <1>16, RequestTypes DEF DeclineTell, At, Free, PC
  <2>3. OtherType'
    BY <1>16 DEF DeclineTell, OtherType, process, told, Tell, Reason
  <2>4. QED
    BY <2>1, <2>2, <2>3
<1>17. CASE HangupLeave(w)
  <2>1. RowsType'
    BY <1>17 DEF HangupLeave, RowsType, Upsert, PartStatus, RequestType, Job, At
  <2>2. RequestType'
    BY <1>17, RequestTypes DEF HangupLeave, At, Free, PC
  <2>3. OtherType'
    BY <1>17, KeptTypes DEF HangupLeave
  <2>4. QED
    BY <2>1, <2>2, <2>3
<1>18. CASE HangupEnd(w)
  <2>1. RowsType'
    BY <1>18 DEF HangupEnd, RowsType, Transition, Status, Open, Closed
  <2>2. RequestType'
    BY <1>18, RequestTypes DEF HangupEnd, At, Free, PC
  <2>3. OtherType'
    BY <1>18, KeptTypes DEF HangupEnd
  <2>4. QED
    BY <2>1, <2>2, <2>3
<1>19. CASE HangupTell(w)
  <2>1. RowsType'
    BY <1>19 DEF HangupTell, RowsType, Tell, Note
  <2>2. RequestType'
    BY <1>19, RequestTypes DEF HangupTell, At, Free, PC
  <2>3. OtherType'
    BY <1>19 DEF HangupTell, OtherType, process, told, Tell, Reason
  <2>4. QED
    BY <2>1, <2>2, <2>3
<1>20. CASE InviteMine(w)
  <2>1. RowsType'
    BY <1>20, KeptTypes DEF InviteMine
  <2>2. RequestType'
    BY <1>20, RequestTypes DEF InviteMine, At, Free, PC
  <2>3. OtherType'
    BY <1>20, KeptTypes DEF InviteMine
  <2>4. QED
    BY <2>1, <2>2, <2>3
<1>21. CASE InviteCheck(w)
  <2>1. RowsType'
    BY <1>21, KeptTypes DEF InviteCheck
  <2>2. RequestType'
    <3>1. CASE Finish(w)
      BY <3>1, RequestTypes
    <3>2. ASSUME NEW u \in todo[w], todo' = [todo EXCEPT ![w] = @ \ {u}],
                 UNCHANGED <<pc, job, alive, at, done, stale>>
          PROVE  RequestType'
      BY <3>2 DEF RequestType
    <3>3. ASSUME NEW u \in todo[w], todo' = [todo EXCEPT ![w] = @ \ {u}],
                 at' = [at EXCEPT ![w] = u], pc' = [pc EXCEPT ![w] = "i_add"],
                 pc[w] = "i_check", UNCHANGED <<job, alive, done, stale>>
          PROVE  RequestType'
      <4>1. u \in Users /\ job[w] \in Job
        BY <3>3 DEF RequestType
      <4>2. QED
        BY <3>3, <4>1 DEF RequestType, PC
    <3>4. QED
      BY <1>21, <3>1, <3>2, <3>3 DEF InviteCheck, At
  <2>3. OtherType'
    BY <1>21, KeptTypes DEF InviteCheck
  <2>4. QED
    BY <2>1, <2>2, <2>3
<1>22. CASE InviteAdd(w)
  <2>1. RowsType'
    BY <1>22 DEF InviteAdd, RowsType, Upsert, PartStatus, RequestType, Job, At
  <2>2. RequestType'
    BY <1>22 DEF InviteAdd, RequestType, At, PC, Goto, Finish, scratch
  <2>3. OtherType'
    BY <1>22, KeptTypes DEF InviteAdd
  <2>4. QED
    BY <2>1, <2>2, <2>3
<1>23. CASE InviteRing(w)
  <2>1. RowsType'
    BY <1>23, KeptTypes DEF InviteRing
  <2>2. RequestType'
    BY <1>23, RequestTypes DEF InviteRing, At, Free, PC
  <2>3. OtherType'
    BY <1>23 DEF InviteRing, OtherType, process, told, RequestType, At, Job
  <2>4. QED
    BY <2>1, <2>2, <2>3
<1>24. CASE KickMark(w)
  <2>1. RowsType'
    <3>1. PICK u \in todo[w] : Upsert(w, u, "kicked")
      BY <1>24 DEF KickMark
    <3>2. u \in Users /\ job[w] \in Job
      BY <1>24 DEF KickMark, RequestType, At
    <3>3. QED
      BY <1>24, <3>1, <3>2 DEF KickMark, Upsert, RowsType, PartStatus, Job
  <2>2. RequestType'
    BY <1>24, RequestTypes DEF KickMark, At, Free, PC
  <2>3. OtherType'
    BY <1>24, KeptTypes DEF KickMark
  <2>4. QED
    BY <2>1, <2>2, <2>3
<1>25. QED
  BY <1>1, <1>2, <1>3, <1>4, <1>5, <1>6, <1>7, <1>8, <1>9, <1>10, <1>11, <1>12, <1>13, <1>14, <1>15, <1>16, <1>17, <1>18, <1>19, <1>20, <1>21, <1>22, <1>23, <1>24 DEF Serve

LEMMA TypeStep == TypeOK /\ [Next]_vars => TypeOK'
<1> SUFFICES ASSUME TypeOK, [Next]_vars PROVE TypeOK'
  OBVIOUS
<1> USE DEF TypeOK
<1>1. ASSUME NEW w \in Workers, Disconnect(w) PROVE TypeOK'
  <2>1. RequestType'
    BY <1>1 DEF Disconnect, RequestType, scratch
  <2>2. QED
    BY <1>1, <2>1, KeptTypes DEF Disconnect
<1>2. ASSUME NEW c \in Calls, RingTimer(c) PROVE TypeOK'
  <2>1. RowsType'
    BY <1>2 DEF RingTimer, TimerFire, TimerExpire, TimerTell, RowsType, Status, Closed, Note, rows
  <2>2. RequestType'
    BY <1>2, KeptTypes DEF RingTimer, TimerFire, TimerExpire, TimerTell, request
  <2>3. OtherType'
    BY <1>2 DEF RingTimer, TimerFire, TimerExpire, TimerTell, OtherType, TimerStep, Reason, told
  <2>4. QED
    BY <2>1, <2>2, <2>3
<1>3. CASE Restart
  <2>1. RequestType'
    BY <1>3 DEF Restart, RequestType, PC
  <2>2. OtherType'
    BY <1>3 DEF Restart, OtherType, TimerStep, told
  <2>3. QED
    BY <1>3, <2>1, <2>2, KeptTypes DEF Restart
<1>4. CASE UNCHANGED vars
  BY <1>4, KeptTypes DEF vars, rows, request, process, told
<1>5. QED
  BY <1>1, <1>2, <1>3, <1>4, TypeArrival, TypeServe DEF Next

(* The type invariant of the call server: whatever interleaves, a row, a   *)
(* request and what was told to clients stay in their ranges.              *)
THEOREM TypeCorrect == Spec => []TypeOK
<1>1. QED
  BY TypeInit, TypeStep, PTL DEF Spec

-----------------------------------------------------------------------------
(* The inductive invariant *)

(* What UnansweredOutcome, SingleAnswer, AnnouncedEndIsTrue and CallAgrees *)
(* say of one call.                                                        *)
Sound(c) ==
  /\ status[c] = "none" <=> host[c] = None
  /\ timer[c] = "tell" => status[c] = "missed"
  /\ status[c] = "active" => answerer[c] # None
  /\ status[c] \in {"none", "ringing", "missed", "declined"} =>
       /\ answerer[c] = None
       /\ granted[c] = {}
       /\ \A u \in Users : part[c][u] = "joined" => u = host[c]
  /\ ~IsGroup => \A g \in granted[c] : g[1] # host[c] /\ g[2] = answerer[c]
  /\ "missed" \in announced[c] \/ note[c] = "missed" => status[c] = "missed"
  /\ "ended" \in announced[c] => status[c] \in Closed

IInv ==
  /\ TypeOK
  /\ Reserved
  /\ \A c \in Calls : Sound(c)
  /\ \A w \in Workers : Agrees(w)

(* How the row of a call may move in one step: forward only, its initiator *)
(* fixed once it exists and its answering device fixed once it was         *)
(* connected.                                                              *)
Forward(c) ==
  /\ \/ status'[c] = status[c]
     \/ status[c] = "none" /\ status'[c] = "ringing"
     \/ status[c] = "ringing" /\ status'[c] \in {"active", "ended", "declined", "missed"}
     \/ status[c] = "active" /\ status'[c] = "ended"
  /\ status[c] # "none" => host'[c] = host[c]
  /\ status[c] # "ringing" => answerer'[c] = answerer[c]

(* Moving forward never invalidates what another request relies on, unless *)
(* it creates the row of a call that request had reserved.                 *)
LEMMA OthersAgree ==
  ASSUME TypeOK, NEW v \in Workers, Agrees(v),
         pc'[v] = pc[v], job'[v] = job[v], alive'[v] = alive[v],
         ~Free(v) => Forward(job[v].call) /\ (pc[v] \in Early => status'[job[v].call] = "none")
  PROVE  Agrees(v)'
<1>1. CASE Free(v)
  BY <1>1 DEF Agrees, Free
<1>2. CASE ~Free(v)
  <2> DEFINE c == job[v].call
  <2>1. Forward(c) /\ (pc[v] \in Early => status'[c] = "none")
    BY <1>2
  <2>2. pc[v] \in Early <=> status'[c] = "none"
    BY <1>2, <2>1 DEF Agrees, Forward
  <2>3. pc[v] = "s_host" => job[v].user = host'[c]
    BY <1>2, <2>1 DEF Agrees, Forward, Early
  <2>4. pc[v] \in {"a_part", "a_take", "a_reload", "a_join"} => job[v].user # host'[c]
    BY <1>2, <2>1 DEF Agrees, Forward, Early
  <2>5. status[c] \in {"active", "ended"} => status'[c] \in {"active", "ended"} /\ answerer'[c] = answerer[c]
    BY <2>1 DEF Forward
  <2>6. status[c] \in Closed => status'[c] \in Closed
    BY <2>1 DEF Forward, Closed
  <2>7. QED
    BY <1>2, <2>2, <2>3, <2>4, <2>5, <2>6 DEF Agrees, Free
<1>3. QED
  BY <1>1, <1>2

LEMMA InductiveInit == Init => IInv
<1> SUFFICES ASSUME Init PROVE IInv
  OBVIOUS
<1>1. TypeOK
  BY TypeInit
<1>2. Reserved /\ \A w \in Workers : Agrees(w)
  BY DEF Init, Reserved, Agrees, Free, Early
<1>3. \A c \in Calls : Sound(c)
  BY DEF Init, Sound
<1>4. QED
  BY <1>1, <1>2, <1>3 DEF IInv

(* A step of worker w that leaves the other requests alone and reserves no *)
(* new call id.                                                            *)
LEMMA ServeKeeps ==
  ASSUME IInv, TypeOK', NEW w \in Workers, ~Free(w),
         \A v \in Workers \ {w} : pc'[v] = pc[v] /\ job'[v] = job[v] /\ alive'[v] = alive[v],
         pc'[w] # "idle" => job'[w] = job[w],
         pc'[w] \in Early => pc[w] \in Early,
         \A c \in Calls : Forward(c),
         \A c \in Calls : status[c] = "none" /\ status'[c] # "none" => pc[w] \in Early /\ c = job[w].call,
         \A c \in Calls : Sound(c)',
         Agrees(w)'
  PROVE  IInv'
<1>1. ASSUME NEW v \in Workers PROVE Agrees(v)'
  <2>1. CASE v = w
    BY <2>1
  <2>2. CASE v # w
    <3>1. ~Free(v) => job[v].call \in Calls
      BY DEF IInv, TypeOK, RequestType, Free, Job
    <3>2. ~Free(v) /\ pc[v] \in Early => status'[job[v].call] = "none"
      BY <2>2, <3>1 DEF IInv, Agrees, Reserved
    <3>3. QED
      BY <2>2, <3>1, <3>2, OthersAgree DEF IInv
  <2>3. QED
    BY <2>1, <2>2
<1>2. Reserved'
  BY DEF IInv, Reserved, Free, Early
<1>3. QED
  BY <1>1, <1>2 DEF IInv

LEMMA InductiveServe ==
  ASSUME IInv, TypeOK', NEW w \in Workers, Serve(w)
  PROVE  IInv'
<1> DEFINE k == job[w].call
<1>0. ~Free(w) /\ job[w] \in Job /\ k \in Calls /\ Agrees(w)
  BY DEF IInv, TypeOK, RequestType, Job, Serve, Free, At, StartReplace, StartScan, StartClear, StartInsert, StartHost, StartSeat, StartRing, AnswerCheck, AnswerTake, AnswerReload, AnswerJoin, DeclineMark, DeclinePending, DeclineJoined, DeclineEnd, DeclineTell, HangupLeave, HangupEnd, HangupTell, InviteMine, InviteCheck, InviteAdd, InviteRing, KickMark
<1>1. CASE StartReplace(w)
  <2>1. /\ \A v \in Workers \ {w} : pc'[v] = pc[v] /\ job'[v] = job[v] /\ alive'[v] = alive[v]
        /\ pc'[w] # "idle" => job'[w] = job[w]
        /\ pc'[w] \in Early => pc[w] \in Early
    BY <1>0, <1>1 DEF IInv, TypeOK, RequestType, Early, StartReplace, At, Goto, scratch
  <2>2. \A c \in Calls : /\ Forward(c)
                         /\ status[c] = "none" /\ status'[c] # "none" => pc[w] \in Early /\ c = k
    BY <1>0, <1>1 DEF IInv, TypeOK, RowsType, Forward, Agrees, Early, Open, At, Transition, StartReplace
  <2>3. \A c \in Calls : Sound(c)'
    BY <1>0, <1>1 DEF IInv, TypeOK, RowsType, OtherType, Sound, Agrees, Early, Job, Open, Closed, process, told, At, Transition, StartReplace
  <2>4. Agrees(w)'
    BY <1>0, <1>1 DEF IInv, TypeOK, RequestType, RowsType, Sound, Agrees, Early, Free, Job, Open, Closed, rows, StartReplace, At, Transition, Goto, scratch
  <2>5. QED
    BY <1>0, <2>1, <2>2, <2>3, <2>4, ServeKeeps
<1>2. CASE StartScan(w)
  <2>1. /\ \A v \in Workers \ {w} : pc'[v] = pc[v] /\ job'[v] = job[v] /\ alive'[v] = alive[v]
        /\ pc'[w] # "idle" => job'[w] = job[w]
        /\ pc'[w] \in Early => pc[w] \in Early
    BY <1>0, <1>2 DEF IInv, TypeOK, RequestType, Early, StartScan, At, scratch
  <2>2. \A c \in Calls : /\ Forward(c)
                         /\ status[c] = "none" /\ status'[c] # "none" => pc[w] \in Early /\ c = k
    BY <1>2 DEF StartScan, Forward, rows
  <2>3. \A c \in Calls : Sound(c)'
    BY <1>2 DEF StartScan, IInv, Sound, rows, process, told
  <2>4. Agrees(w)'
    BY <1>0, <1>2 DEF IInv, TypeOK, RequestType, RowsType, Sound, Agrees, Early, Free, Job, Open, Closed, rows, StartScan, At, scratch
  <2>5. QED
    BY <1>0, <2>1, <2>2, <2>3, <2>4, ServeKeeps
<1>3. CASE StartClear(w)
  <2>1. /\ \A v \in Workers \ {w} : pc'[v] = pc[v] /\ job'[v] = job[v] /\ alive'[v] = alive[v]
        /\ pc'[w] # "idle" => job'[w] = job[w]
        /\ pc'[w] \in Early => pc[w] \in Early
    BY <1>0, <1>3 DEF IInv, TypeOK, RequestType, Early, StartClear, At, Goto, scratch
  <2>2. \A c \in Calls : /\ Forward(c)
                         /\ status[c] = "none" /\ status'[c] # "none" => pc[w] \in Early /\ c = k
    BY <1>0, <1>3 DEF IInv, TypeOK, RowsType, Forward, Agrees, Early, Open, At, Transition, StartClear
  <2>3. \A c \in Calls : Sound(c)'
    BY <1>0, <1>3 DEF IInv, TypeOK, RowsType, OtherType, Sound, Agrees, Early, Job, Open, Closed, process, told, At, Transition, StartClear
  <2>4. Agrees(w)'
    BY <1>0, <1>3 DEF IInv, TypeOK, RequestType, RowsType, Sound, Agrees, Early, Free, Job, Open, Closed, rows, StartClear, At, Transition, Goto, scratch
  <2>5. QED
    BY <1>0, <2>1, <2>2, <2>3, <2>4, ServeKeeps
<1>4. CASE StartInsert(w)
  <2>1. /\ \A v \in Workers \ {w} : pc'[v] = pc[v] /\ job'[v] = job[v] /\ alive'[v] = alive[v]
        /\ pc'[w] # "idle" => job'[w] = job[w]
        /\ pc'[w] \in Early => pc[w] \in Early
    BY <1>0, <1>4 DEF IInv, TypeOK, RequestType, Early, StartInsert, At, Goto, Finish, scratch
  <2>2. \A c \in Calls : /\ Forward(c)
                         /\ status[c] = "none" /\ status'[c] # "none" => pc[w] \in Early /\ c = k
    BY <1>0, <1>4 DEF IInv, TypeOK, RowsType, Forward, Agrees, Early, Open, At, StartInsert
  <2>3. \A c \in Calls : Sound(c)'
    <3>1. CASE ~alive[w]
      BY <1>4, <3>1 DEF StartInsert, IInv, Sound, process, told
    <3>2. CASE alive[w]
      <4>1. status[k] = "none" /\ host[k] = None /\ timer[k] # "tell"
        BY <1>0, <1>4 DEF StartInsert, At, IInv, Sound, Agrees, Early
      <4>2. /\ status' = [status EXCEPT ![k] = "ringing"]
            /\ host' = [host EXCEPT ![k] = job[w].user]
            /\ UNCHANGED <<answerer, part, note, timer, announced, granted>>
        BY <1>4, <3>2 DEF StartInsert, process, told
      <4>3. ASSUME NEW c \in Calls, c = k PROVE Sound(c)'
        <5>1. Sound(c) /\ status'[c] = "ringing" /\ host'[c] # None
          BY <1>0, <4>2, <4>3, CallAssumption DEF IInv, TypeOK, RowsType, Job
        <5>2. \A u \in Users : part[c][u] # "joined"
          BY <4>1, <4>3, <5>1, CallAssumption DEF Sound
        <5>3. QED
          BY <4>1, <4>2, <4>3, <5>1, <5>2 DEF Sound, Closed
      <4>4. ASSUME NEW c \in Calls \ {k} PROVE Sound(c)'
        BY <4>2 DEF IInv, Sound, TypeOK, RowsType
      <4>5. QED
        BY <4>3, <4>4
    <3>3. QED
      BY <3>1, <3>2
  <2>4. Agrees(w)'
    BY <1>0, <1>4 DEF IInv, TypeOK, RequestType, RowsType, Sound, Agrees, Early, Free, Job, Open, Closed, rows, StartInsert, At, Goto, Finish, scratch
  <2>5. QED
    BY <1>0, <2>1, <2>2, <2>3, <2>4, ServeKeeps
<1>5. CASE StartHost(w)
  <2>1. /\ \A v \in Workers \ {w} : pc'[v] = pc[v] /\ job'[v] = job[v] /\ alive'[v] = alive[v]
        /\ pc'[w] # "idle" => job'[w] = job[w]
        /\ pc'[w] \in Early => pc[w] \in Early
    BY <1>0, <1>5 DEF IInv, TypeOK, RequestType, Early, StartHost, At, Goto, scratch
  <2>2. \A c \in Calls : /\ Forward(c)
                         /\ status[c] = "none" /\ status'[c] # "none" => pc[w] \in Early /\ c = k
    BY <1>5 DEF StartHost, Forward, rows
  <2>3. \A c \in Calls : Sound(c)'
    BY <1>0, <1>5 DEF IInv, TypeOK, RowsType, OtherType, Sound, Agrees, Early, Job, Open, Closed, process, told, At, Upsert, StartHost
  <2>4. Agrees(w)'
    BY <1>0, <1>5 DEF IInv, TypeOK, RequestType, RowsType, Sound, Agrees, Early, Free, Job, Open, Closed, rows, StartHost, At, Goto, scratch
  <2>5. QED
    BY <1>0, <2>1, <2>2, <2>3, <2>4, ServeKeeps
<1>6. CASE StartSeat(w)
  <2>1. /\ \A v \in Workers \ {w} : pc'[v] = pc[v] /\ job'[v] = job[v] /\ alive'[v] = alive[v]
        /\ pc'[w] # "idle" => job'[w] = job[w]
        /\ pc'[w] \in Early => pc[w] \in Early
    BY <1>0, <1>6 DEF IInv, TypeOK, RequestType, Early, StartSeat, At, scratch
  <2>2. \A c \in Calls : /\ Forward(c)
                         /\ status[c] = "none" /\ status'[c] # "none" => pc[w] \in Early /\ c = k
    BY <1>6 DEF StartSeat, Forward, rows
  <2>3. \A c \in Calls : Sound(c)'
    BY <1>0, <1>6 DEF IInv, TypeOK, RowsType, OtherType, Sound, Agrees, Early, Job, Open, Closed, process, told, At, Upsert, StartSeat
  <2>4. Agrees(w)'
    BY <1>0, <1>6 DEF IInv, TypeOK, RequestType, RowsType, Sound, Agrees, Early, Free, Job, Open, Closed, rows, StartSeat, At, scratch
  <2>5. QED
    BY <1>0, <2>1, <2>2, <2>3, <2>4, ServeKeeps
<1>7. CASE StartRing(w)
  <2>1. /\ \A v \in Workers \ {w} : pc'[v] = pc[v] /\ job'[v] = job[v] /\ alive'[v] = alive[v]
        /\ pc'[w] # "idle" => job'[w] = job[w]
        /\ pc'[w] \in Early => pc[w] \in Early
    BY <1>0, <1>7 DEF IInv, TypeOK, RequestType, Early, StartRing, At, Finish, scratch
  <2>2. \A c \in Calls : /\ Forward(c)
                         /\ status[c] = "none" /\ status'[c] # "none" => pc[w] \in Early /\ c = k
    BY <1>7 DEF StartRing, Forward, rows
  <2>3. \A c \in Calls : Sound(c)'
    <3>1. ASSUME NEW c \in Calls PROVE timer'[c] = "tell" => timer[c] = "tell"
      BY <1>7 DEF StartRing, IInv, TypeOK, OtherType
    <3>2. UNCHANGED <<rows, announced, granted>>
      BY <1>7 DEF StartRing
    <3>3. QED
      BY <3>1, <3>2 DEF IInv, Sound, rows
  <2>4. Agrees(w)'
    BY <1>0, <1>7 DEF IInv, TypeOK, RequestType, RowsType, Sound, Agrees, Early, Free, Job, Open, Closed, rows, StartRing, At, Finish, scratch
  <2>5. QED
    BY <1>0, <2>1, <2>2, <2>3, <2>4, ServeKeeps
<1>8. CASE AnswerCheck(w)
  <2>1. /\ \A v \in Workers \ {w} : pc'[v] = pc[v] /\ job'[v] = job[v] /\ alive'[v] = alive[v]
        /\ pc'[w] # "idle" => job'[w] = job[w]
        /\ pc'[w] \in Early => pc[w] \in Early
    BY <1>0, <1>8 DEF IInv, TypeOK, RequestType, Early, AnswerCheck, At, Goto, Finish, scratch
  <2>2. \A c \in Calls : /\ Forward(c)
                         /\ status[c] = "none" /\ status'[c] # "none" => pc[w] \in Early /\ c = k
    BY <1>8 DEF AnswerCheck, Forward, rows
  <2>3. \A c \in Calls : Sound(c)'
    BY <1>8 DEF AnswerCheck, IInv, Sound, rows, process, told
  <2>4. Agrees(w)'
    BY <1>0, <1>8 DEF IInv, TypeOK, RequestType, RowsType, Sound, Agrees, Early, Free, Job, Open, Closed, rows, AnswerCheck, At, Goto, Finish, scratch
  <2>5. QED
    BY <1>0, <2>1, <2>2, <2>3, <2>4, ServeKeeps
<1>9. CASE AnswerTake(w)
  <2>1. /\ \A v \in Workers \ {w} : pc'[v] = pc[v] /\ job'[v] = job[v] /\ alive'[v] = alive[v]
        /\ pc'[w] # "idle" => job'[w] = job[w]
        /\ pc'[w] \in Early => pc[w] \in Early
    BY <1>0, <1>9 DEF IInv, TypeOK, RequestType, Early, AnswerTake, At, Goto, Finish, scratch
  <2>2. \A c \in Calls : /\ Forward(c)
                         /\ status[c] = "none" /\ status'[c] # "none" => pc[w] \in Early /\ c = k
    BY <1>0, <1>9 DEF IInv, TypeOK, RowsType, Forward, Agrees, Early, Open, At, Transition, AnswerTake
  <2>3. \A c \in Calls : Sound(c)'
    <3>1. CASE ~(alive[w] /\ status[k] = "ringing")
      <4>1. \A c \in Calls : status'[c] = status[c]
        BY <3>1, <1>9 DEF AnswerTake, Transition
      <4>2. QED
        BY <3>1, <4>1, <1>9 DEF AnswerTake, IInv, Sound, process, told
    <3>2. CASE alive[w] /\ status[k] = "ringing"
      <4>1. \A c \in Calls : status'[c] = IF c = k THEN "active" ELSE status[c]
        BY <3>2, <1>9 DEF AnswerTake, Transition
      <4>2. /\ answerer' = [answerer EXCEPT ![k] = job[w].dev]
            /\ UNCHANGED <<host, part, note, timer, announced, granted>>
        BY <3>2, <1>9 DEF AnswerTake, process, told
      <4>3. job[w].dev # None
        BY <1>0, CallAssumption DEF Job
      <4>4. ASSUME NEW c \in Calls, c = k PROVE Sound(c)'
        <5>1. Sound(c) /\ status'[c] = "active" /\ answerer'[c] # None
          BY <3>2, <4>1, <4>2, <4>3, <4>4 DEF IInv, TypeOK, RowsType
        <5>2. QED
          BY <3>2, <4>2, <4>4, <5>1 DEF Sound, Closed
      <4>5. ASSUME NEW c \in Calls \ {k} PROVE Sound(c)'
        BY <4>1, <4>2 DEF IInv, Sound, TypeOK, RowsType
      <4>6. QED
        BY <4>4, <4>5
    <3>3. QED
      BY <3>1, <3>2
  <2>4. Agrees(w)'
    BY <1>0, <1>9 DEF IInv, TypeOK, RequestType, RowsType, Sound, Agrees, Early, Free, Job, Open, Closed, rows, AnswerTake, At, Transition, Goto, Finish, scratch
  <2>5. QED
    BY <1>0, <2>1, <2>2, <2>3, <2>4, ServeKeeps
<1>10. CASE AnswerReload(w)
  <2>1. /\ \A v \in Workers \ {w} : pc'[v] = pc[v] /\ job'[v] = job[v] /\ alive'[v] = alive[v]
        /\ pc'[w] # "idle" => job'[w] = job[w]
        /\ pc'[w] \in Early => pc[w] \in Early
    BY <1>0, <1>10 DEF IInv, TypeOK, RequestType, Early, AnswerReload, At, Goto, Finish, scratch
  <2>2. \A c \in Calls : /\ Forward(c)
                         /\ status[c] = "none" /\ status'[c] # "none" => pc[w] \in Early /\ c = k
    BY <1>10 DEF AnswerReload, Forward, rows
  <2>3. \A c \in Calls : Sound(c)'
    BY <1>10 DEF AnswerReload, IInv, Sound, rows, process, told
  <2>4. Agrees(w)'
    BY <1>0, <1>10 DEF IInv, TypeOK, RequestType, RowsType, Sound, Agrees, Early, Free, Job, Open, Closed, rows, AnswerReload, At, Goto, Finish, scratch
  <2>5. QED
    BY <1>0, <2>1, <2>2, <2>3, <2>4, ServeKeeps
<1>11. CASE AnswerJoin(w)
  <2>1. /\ \A v \in Workers \ {w} : pc'[v] = pc[v] /\ job'[v] = job[v] /\ alive'[v] = alive[v]
        /\ pc'[w] # "idle" => job'[w] = job[w]
        /\ pc'[w] \in Early => pc[w] \in Early
    BY <1>0, <1>11 DEF IInv, TypeOK, RequestType, Early, AnswerJoin, At, Finish, scratch
  <2>2. \A c \in Calls : /\ Forward(c)
                         /\ status[c] = "none" /\ status'[c] # "none" => pc[w] \in Early /\ c = k
    BY <1>11 DEF AnswerJoin, Forward, rows
  <2>3. \A c \in Calls : Sound(c)'
    BY <1>0, <1>11 DEF IInv, TypeOK, RowsType, OtherType, Sound, Agrees, Early, Job, Open, Closed, process, told, At, Upsert, AnswerJoin
  <2>4. Agrees(w)'
    BY <1>0, <1>11 DEF IInv, TypeOK, RequestType, RowsType, Sound, Agrees, Early, Free, Job, Open, Closed, rows, AnswerJoin, At, Finish, scratch
  <2>5. QED
    BY <1>0, <2>1, <2>2, <2>3, <2>4, ServeKeeps
<1>12. CASE DeclineMark(w)
  <2>1. /\ \A v \in Workers \ {w} : pc'[v] = pc[v] /\ job'[v] = job[v] /\ alive'[v] = alive[v]
        /\ pc'[w] # "idle" => job'[w] = job[w]
        /\ pc'[w] \in Early => pc[w] \in Early
    BY <1>0, <1>12 DEF IInv, TypeOK, RequestType, Early, DeclineMark, At, Goto, scratch
  <2>2. \A c \in Calls : /\ Forward(c)
                         /\ status[c] = "none" /\ status'[c] # "none" => pc[w] \in Early /\ c = k
    BY <1>12 DEF DeclineMark, Forward, rows
  <2>3. \A c \in Calls : Sound(c)'
    BY <1>0, <1>12 DEF IInv, TypeOK, RowsType, OtherType, Sound, Agrees, Early, Job, Open, Closed, process, told, At, Upsert, DeclineMark
  <2>4. Agrees(w)'
    BY <1>0, <1>12 DEF IInv, TypeOK, RequestType, RowsType, Sound, Agrees, Early, Free, Job, Open, Closed, rows, DeclineMark, At, Goto, scratch
  <2>5. QED
    BY <1>0, <2>1, <2>2, <2>3, <2>4, ServeKeeps
<1>13. CASE DeclinePending(w)
  <2>1. /\ \A v \in Workers \ {w} : pc'[v] = pc[v] /\ job'[v] = job[v] /\ alive'[v] = alive[v]
        /\ pc'[w] # "idle" => job'[w] = job[w]
        /\ pc'[w] \in Early => pc[w] \in Early
    BY <1>0, <1>13 DEF IInv, TypeOK, RequestType, Early, DeclinePending, At, Goto, Finish, scratch
  <2>2. \A c \in Calls : /\ Forward(c)
                         /\ status[c] = "none" /\ status'[c] # "none" => pc[w] \in Early /\ c = k
    BY <1>13 DEF DeclinePending, Forward, rows
  <2>3. \A c \in Calls : Sound(c)'
    BY <1>13 DEF DeclinePending, IInv, Sound, rows, process, told
  <2>4. Agrees(w)'
    BY <1>0, <1>13 DEF IInv, TypeOK, RequestType, RowsType, Sound, Agrees, Early, Free, Job, Open, Closed, rows, DeclinePending, At, Goto, Finish, scratch
  <2>5. QED
    BY <1>0, <2>1, <2>2, <2>3, <2>4, ServeKeeps
<1>14. CASE DeclineJoined(w)
  <2>1. /\ \A v \in Workers \ {w} : pc'[v] = pc[v] /\ job'[v] = job[v] /\ alive'[v] = alive[v]
        /\ pc'[w] # "idle" => job'[w] = job[w]
        /\ pc'[w] \in Early => pc[w] \in Early
    BY <1>0, <1>14 DEF IInv, TypeOK, RequestType, Early, DeclineJoined, At, Goto, Finish, scratch
  <2>2. \A c \in Calls : /\ Forward(c)
                         /\ status[c] = "none" /\ status'[c] # "none" => pc[w] \in Early /\ c = k
    BY <1>14 DEF DeclineJoined, Forward, rows
  <2>3. \A c \in Calls : Sound(c)'
    BY <1>14 DEF DeclineJoined, IInv, Sound, rows, process, told
  <2>4. Agrees(w)'
    BY <1>0, <1>14 DEF IInv, TypeOK, RequestType, RowsType, Sound, Agrees, Early, Free, Job, Open, Closed, rows, DeclineJoined, At, Goto, Finish, scratch
  <2>5. QED
    BY <1>0, <2>1, <2>2, <2>3, <2>4, ServeKeeps
<1>15. CASE DeclineEnd(w)
  <2>1. /\ \A v \in Workers \ {w} : pc'[v] = pc[v] /\ job'[v] = job[v] /\ alive'[v] = alive[v]
        /\ pc'[w] # "idle" => job'[w] = job[w]
        /\ pc'[w] \in Early => pc[w] \in Early
    BY <1>0, <1>15 DEF IInv, TypeOK, RequestType, Early, DeclineEnd, At, Goto, scratch
  <2>2. \A c \in Calls : /\ Forward(c)
                         /\ status[c] = "none" /\ status'[c] # "none" => pc[w] \in Early /\ c = k
    BY <1>0, <1>15 DEF IInv, TypeOK, RowsType, Forward, Agrees, Early, Open, At, Transition, DeclineEnd
  <2>3. \A c \in Calls : Sound(c)'
    BY <1>0, <1>15 DEF IInv, TypeOK, RowsType, OtherType, Sound, Agrees, Early, Job, Open, Closed, process, told, At, Transition, DeclineEnd
  <2>4. Agrees(w)'
    BY <1>0, <1>15 DEF IInv, TypeOK, RequestType, RowsType, Sound, Agrees, Early, Free, Job, Open, Closed, rows, DeclineEnd, At, Transition, Goto, scratch
  <2>5. QED
    BY <1>0, <2>1, <2>2, <2>3, <2>4, ServeKeeps
<1>16. CASE DeclineTell(w)
  <2>1. /\ \A v \in Workers \ {w} : pc'[v] = pc[v] /\ job'[v] = job[v] /\ alive'[v] = alive[v]
        /\ pc'[w] # "idle" => job'[w] = job[w]
        /\ pc'[w] \in Early => pc[w] \in Early
    BY <1>0, <1>16 DEF IInv, TypeOK, RequestType, Early, DeclineTell, At, Finish, scratch
  <2>2. \A c \in Calls : /\ Forward(c)
                         /\ status[c] = "none" /\ status'[c] # "none" => pc[w] \in Early /\ c = k
    BY <1>16 DEF DeclineTell, Forward, rows
  <2>3. \A c \in Calls : Sound(c)'
    BY <1>0, <1>16 DEF IInv, TypeOK, RowsType, OtherType, Sound, Agrees, Early, Job, Open, Closed, process, told, At, Tell, DeclineTell
  <2>4. Agrees(w)'
    BY <1>0, <1>16 DEF IInv, TypeOK, RequestType, RowsType, Sound, Agrees, Early, Free, Job, Open, Closed, rows, DeclineTell, At, Finish, scratch
  <2>5. QED
    BY <1>0, <2>1, <2>2, <2>3, <2>4, ServeKeeps
<1>17. CASE HangupLeave(w)
  <2>1. /\ \A v \in Workers \ {w} : pc'[v] = pc[v] /\ job'[v] = job[v] /\ alive'[v] = alive[v]
        /\ pc'[w] # "idle" => job'[w] = job[w]
        /\ pc'[w] \in Early => pc[w] \in Early
    BY <1>0, <1>17 DEF IInv, TypeOK, RequestType, Early, HangupLeave, At, Finish, scratch
  <2>2. \A c \in Calls : /\ Forward(c)
                         /\ status[c] = "none" /\ status'[c] # "none" => pc[w] \in Early /\ c = k
    BY <1>17 DEF HangupLeave, Forward, rows
  <2>3. \A c \in Calls : Sound(c)'
    BY <1>0, <1>17 DEF IInv, TypeOK, RowsType, OtherType, Sound, Agrees, Early, Job, Open, Closed, process, told, At, Upsert, HangupLeave
  <2>4. Agrees(w)'
    BY <1>0, <1>17 DEF IInv, TypeOK, RequestType, RowsType, Sound, Agrees, Early, Free, Job, Open, Closed, rows, HangupLeave, At, Finish, scratch
  <2>5. QED
    BY <1>0, <2>1, <2>2, <2>3, <2>4, ServeKeeps
<1>18. CASE HangupEnd(w)
  <2>1. /\ \A v \in Workers \ {w} : pc'[v] = pc[v] /\ job'[v] = job[v] /\ alive'[v] = alive[v]
        /\ pc'[w] # "idle" => job'[w] = job[w]
        /\ pc'[w] \in Early => pc[w] \in Early
    BY <1>0, <1>18 DEF IInv, TypeOK, RequestType, Early, HangupEnd, At, Goto, scratch
  <2>2. \A c \in Calls : /\ Forward(c)
                         /\ status[c] = "none" /\ status'[c] # "none" => pc[w] \in Early /\ c = k
    BY <1>0, <1>18 DEF IInv, TypeOK, RowsType, Forward, Agrees, Early, Open, At, Transition, HangupEnd
  <2>3. \A c \in Calls : Sound(c)'
    BY <1>0, <1>18 DEF IInv, TypeOK, RowsType, OtherType, Sound, Agrees, Early, Job, Open, Closed, process, told, At, Transition, HangupEnd
  <2>4. Agrees(w)'
    <3>1. alive[w] => status'[k] \in Closed
      <4>1. status[k] \in Open \cup Closed
        BY <1>0, <1>18 DEF IInv, TypeOK, RowsType, Status, Agrees, HangupEnd, At, Early
      <4>2. QED
        BY <1>0, <1>18, <4>1 DEF HangupEnd, Transition, Open, Closed
    <3>2. job'[w] = job[w] /\ alive'[w] = alive[w] /\ pc'[w] = "h_tell"
      BY <1>0, <1>18 DEF HangupEnd, Goto, IInv, TypeOK, RequestType
    <3>3. status[k] # "none" /\ status'[k] # "none"
      BY <1>0, <1>18, <2>2 DEF Agrees, HangupEnd, At, Early, Forward
    <3>4. QED
      BY <3>1, <3>2, <3>3 DEF Agrees, Early, Free
  <2>5. QED
    BY <1>0, <2>1, <2>2, <2>3, <2>4, ServeKeeps
<1>19. CASE HangupTell(w)
  <2>1. /\ \A v \in Workers \ {w} : pc'[v] = pc[v] /\ job'[v] = job[v] /\ alive'[v] = alive[v]
        /\ pc'[w] # "idle" => job'[w] = job[w]
        /\ pc'[w] \in Early => pc[w] \in Early
    BY <1>0, <1>19 DEF IInv, TypeOK, RequestType, Early, HangupTell, At, Finish, scratch
  <2>2. \A c \in Calls : /\ Forward(c)
                         /\ status[c] = "none" /\ status'[c] # "none" => pc[w] \in Early /\ c = k
    BY <1>19 DEF HangupTell, Forward, rows
  <2>3. \A c \in Calls : Sound(c)'
    BY <1>0, <1>19 DEF IInv, TypeOK, RowsType, OtherType, Sound, Agrees, Early, Job, Open, Closed, process, told, At, Tell, HangupTell
  <2>4. Agrees(w)'
    BY <1>0, <1>19 DEF IInv, TypeOK, RequestType, RowsType, Sound, Agrees, Early, Free, Job, Open, Closed, rows, HangupTell, At, Finish, scratch
  <2>5. QED
    BY <1>0, <2>1, <2>2, <2>3, <2>4, ServeKeeps
<1>20. CASE InviteMine(w)
  <2>1. /\ \A v \in Workers \ {w} : pc'[v] = pc[v] /\ job'[v] = job[v] /\ alive'[v] = alive[v]
        /\ pc'[w] # "idle" => job'[w] = job[w]
        /\ pc'[w] \in Early => pc[w] \in Early
    BY <1>0, <1>20 DEF IInv, TypeOK, RequestType, Early, InviteMine, At, Goto, Finish, scratch
  <2>2. \A c \in Calls : /\ Forward(c)
                         /\ status[c] = "none" /\ status'[c] # "none" => pc[w] \in Early /\ c = k
    BY <1>20 DEF InviteMine, Forward, rows
  <2>3. \A c \in Calls : Sound(c)'
    BY <1>20 DEF InviteMine, IInv, Sound, rows, process, told
  <2>4. Agrees(w)'
    BY <1>0, <1>20 DEF IInv, TypeOK, RequestType, RowsType, Sound, Agrees, Early, Free, Job, Open, Closed, rows, InviteMine, At, Goto, Finish, scratch
  <2>5. QED
    BY <1>0, <2>1, <2>2, <2>3, <2>4, ServeKeeps
<1>21. CASE InviteCheck(w)
  <2>1. /\ \A v \in Workers \ {w} : pc'[v] = pc[v] /\ job'[v] = job[v] /\ alive'[v] = alive[v]
        /\ pc'[w] # "idle" => job'[w] = job[w]
        /\ pc'[w] \in Early => pc[w] \in Early
    BY <1>0, <1>21 DEF IInv, TypeOK, RequestType, Early, InviteCheck, At, Finish, scratch
  <2>2. \A c \in Calls : /\ Forward(c)
                         /\ status[c] = "none" /\ status'[c] # "none" => pc[w] \in Early /\ c = k
    BY <1>21 DEF InviteCheck, Forward, rows
  <2>3. \A c \in Calls : Sound(c)'
    BY <1>21 DEF InviteCheck, IInv, Sound, rows, process, told
  <2>4. Agrees(w)'
    BY <1>0, <1>21 DEF IInv, TypeOK, RequestType, RowsType, Sound, Agrees, Early, Free, Job, Open, Closed, rows, InviteCheck, At, Finish, scratch
  <2>5. QED
    BY <1>0, <2>1, <2>2, <2>3, <2>4, ServeKeeps
<1>22. CASE InviteAdd(w)
  <2>1. /\ \A v \in Workers \ {w} : pc'[v] = pc[v] /\ job'[v] = job[v] /\ alive'[v] = alive[v]
        /\ pc'[w] # "idle" => job'[w] = job[w]
        /\ pc'[w] \in Early => pc[w] \in Early
    BY <1>0, <1>22 DEF IInv, TypeOK, RequestType, Early, InviteAdd, At, scratch
  <2>2. \A c \in Calls : /\ Forward(c)
                         /\ status[c] = "none" /\ status'[c] # "none" => pc[w] \in Early /\ c = k
    BY <1>22 DEF InviteAdd, Forward, rows
  <2>3. \A c \in Calls : Sound(c)'
    BY <1>0, <1>22 DEF IInv, TypeOK, RowsType, OtherType, Sound, Agrees, Early, Job, Open, Closed, process, told, At, Upsert, InviteAdd
  <2>4. Agrees(w)'
    BY <1>0, <1>22 DEF IInv, TypeOK, RequestType, RowsType, Sound, Agrees, Early, Free, Job, Open, Closed, rows, InviteAdd, At, scratch
  <2>5. QED
    BY <1>0, <2>1, <2>2, <2>3, <2>4, ServeKeeps
<1>23. CASE InviteRing(w)
  <2>1. /\ \A v \in Workers \ {w} : pc'[v] = pc[v] /\ job'[v] = job[v] /\ alive'[v] = alive[v]
        /\ pc'[w] # "idle" => job'[w] = job[w]
        /\ pc'[w] \in Early => pc[w] \in Early
    BY <1>0, <1>23 DEF IInv, TypeOK, RequestType, Early, InviteRing, At, Finish, scratch
  <2>2. \A c \in Calls : /\ Forward(c)
                         /\ status[c] = "none" /\ status'[c] # "none" => pc[w] \in Early /\ c = k
    BY <1>23 DEF InviteRing, Forward, rows
  <2>3. \A c \in Calls : Sound(c)'
    BY <1>23 DEF InviteRing, IInv, Sound, rows, process
  <2>4. Agrees(w)'
    BY <1>0, <1>23 DEF IInv, TypeOK, RequestType, RowsType, Sound, Agrees, Early, Free, Job, Open, Closed, rows, InviteRing, At, Finish, scratch
  <2>5. QED
    BY <1>0, <2>1, <2>2, <2>3, <2>4, ServeKeeps
<1>24. CASE KickMark(w)
  <2>1. /\ \A v \in Workers \ {w} : pc'[v] = pc[v] /\ job'[v] = job[v] /\ alive'[v] = alive[v]
        /\ pc'[w] # "idle" => job'[w] = job[w]
        /\ pc'[w] \in Early => pc[w] \in Early
    BY <1>0, <1>24 DEF IInv, TypeOK, RequestType, Early, KickMark, At, Finish, scratch
  <2>2. \A c \in Calls : /\ Forward(c)
                         /\ status[c] = "none" /\ status'[c] # "none" => pc[w] \in Early /\ c = k
    BY <1>24 DEF KickMark, Forward, rows
  <2>3. \A c \in Calls : Sound(c)'
    BY <1>0, <1>24 DEF IInv, TypeOK, RowsType, OtherType, Sound, Agrees, Early, Job, Open, Closed, process, told, At, Upsert, KickMark
  <2>4. Agrees(w)'
    BY <1>0, <1>24 DEF IInv, TypeOK, RequestType, RowsType, Sound, Agrees, Early, Free, Job, Open, Closed, rows, KickMark, At, Finish, scratch
  <2>5. QED
    BY <1>0, <2>1, <2>2, <2>3, <2>4, ServeKeeps
<1>25. QED
  BY <1>1, <1>2, <1>3, <1>4, <1>5, <1>6, <1>7, <1>8, <1>9, <1>10, <1>11, <1>12, <1>13, <1>14, <1>15, <1>16, <1>17, <1>18, <1>19, <1>20, <1>21, <1>22, <1>23, <1>24 DEF Serve

(* A new request: it touches no row, and what it has just read is true.    *)
LEMMA InductiveArrival ==
  ASSUME IInv, TypeOK', NEW w \in Workers, Arrival(w)
  PROVE  IInv'
<1> DEFINE New(l, u, d, c) ==
      /\ pc' = [pc EXCEPT ![w] = l]
      /\ job' = [job EXCEPT ![w] = [user |-> u, dev |-> d, call |-> c, seen |-> status[c]]]
      /\ alive' = alive
      /\ Free(w) /\ UNCHANGED <<rows, process, told>>
      /\ \/ l \in Early /\ Fresh(c)
         \/ /\ l \in {"a_part", "d_mark", "h_leave", "h_end", "i_mine", "k_mark"}
            /\ status[c] \in Open
            /\ l = "a_part" => /\ u # host[c]
                               /\ status[c] # "ringing" => IsGroup /\ status[c] = "active"
<1>1. PICK u \in Users, d \in Devices, c \in Calls, l \in PC : New(l, u, d, c)
  <2>1. PICK u \in Users, d \in Devices, c \in Calls :
          \/ Answer(w, u, d, c) \/ Decline(w, u, d, c) \/ Hangup(w, u, d, c)
          \/ \E S \in SUBSET Users : Start(w, u, d, c, S) \/ Invite(w, u, d, c, S)
          \/ \E t \in Users : Kick(w, u, d, c, t)
    BY DEF Arrival
  <2>2. CASE Answer(w, u, d, c)
    <3>1. New("a_part", u, d, c)
      BY <2>2 DEF Answer, Open, Arrive
    <3>2. QED
      BY <3>1 DEF PC
  <2>3. CASE Decline(w, u, d, c)
    <3>1. New("d_mark", u, d, c)
      BY <2>3 DEF Decline, Arrive
    <3>2. QED
      BY <3>1 DEF PC
  <2>4. CASE Hangup(w, u, d, c)
    <3>1. New("h_leave", u, d, c) \/ New("h_end", u, d, c)
      BY <2>4 DEF Hangup, Arrive
    <3>2. QED
      BY <3>1 DEF PC
  <2>5. CASE \E S \in SUBSET Users : Invite(w, u, d, c, S)
    <3>1. New("i_mine", u, d, c)
      BY <2>5 DEF Invite, Arrive
    <3>2. QED
      BY <3>1 DEF PC
  <2>6. CASE \E t \in Users : Kick(w, u, d, c, t)
    <3>1. New("k_mark", u, d, c)
      BY <2>6 DEF Kick, Arrive
    <3>2. QED
      BY <3>1 DEF PC
  <2>7. CASE \E S \in SUBSET Users : Start(w, u, d, c, S)
    <3>1. New("s_scan", u, d, c) \/ New("s_replace", u, d, c)
      BY <2>7 DEF Start, Arrive, Early
    <3>2. QED
      BY <3>1 DEF PC
  <2>8. QED
    BY <2>1, <2>2, <2>3, <2>4, <2>5, <2>6, <2>7
<1>2. Free(w) /\ UNCHANGED <<rows, process, told>>
  BY <1>1
<1>3. /\ pc'[w] = l /\ job'[w] = [user |-> u, dev |-> d, call |-> c, seen |-> status[c]]
      /\ \A v \in Workers \ {w} : pc'[v] = pc[v] /\ job'[v] = job[v]
      /\ alive' = alive
  BY <1>1 DEF IInv, TypeOK, RequestType
<1>4. \A x \in Calls : Sound(x)'
  BY <1>2 DEF IInv, Sound, rows, process, told
<1>5. ASSUME NEW v \in Workers PROVE Agrees(v)'
  <2>1. CASE v = w
    <3>1. UNCHANGED <<status, host>>
      BY <1>2 DEF rows
    <3>2. l \in Early <=> status[c] = "none"
      BY <1>1 DEF Early, Open, Fresh
    <3>3. l \notin {"s_host", "a_take", "a_reload", "a_join", "h_tell"}
      BY <1>1 DEF Early
    <3>4. l = "a_part" => /\ u # host[c]
                          /\ status[c] # "ringing" => IsGroup /\ status[c] = "active"
      BY <1>1 DEF Early
    <3>5. QED
      BY <1>3, <2>1, <3>1, <3>2, <3>3, <3>4 DEF Agrees
  <2>2. CASE v # w
    BY <1>2, <1>3, <2>2 DEF IInv, Agrees, Free, rows
  <2>3. QED
    BY <2>1, <2>2
<1>6. Reserved'
  <2> SUFFICES ASSUME NEW v1 \in Workers, NEW v2 \in Workers,
                      v1 # v2, pc'[v1] \in Early, pc'[v2] # "idle"
               PROVE  job'[v1].call # job'[v2].call
    BY DEF Reserved, Free
  <2>1. CASE v1 # w /\ v2 # w
    BY <1>3, <2>1 DEF IInv, Reserved, Free
  <2>2. CASE v1 = w
    BY <1>1, <1>3, <2>2 DEF Fresh, Free, Early
  <2>3. CASE v2 = w
    <3>1. CASE status[c] = "none"
      BY <1>1, <1>3, <2>3, <3>1 DEF Fresh, Free, Early, Open
    <3>2. CASE status[c] # "none"
      BY <1>3, <2>3, <3>2 DEF IInv, Agrees, Free, Early
    <3>3. QED
      BY <3>1, <3>2
  <2>4. QED
    BY <2>1, <2>2, <2>3
<1>7. QED
  BY <1>4, <1>5, <1>6 DEF IInv

LEMMA InductiveDisconnect ==
  ASSUME IInv, TypeOK', NEW w \in Workers, Disconnect(w)
  PROVE  IInv'
<1>1. /\ UNCHANGED <<rows, process, told, pc, job>>
      /\ \A v \in Workers : alive'[v] => alive[v]
  BY DEF Disconnect, IInv, TypeOK, RequestType
<1>2. \A c \in Calls : Sound(c)'
  BY <1>1 DEF IInv, Sound, rows, process, told
<1>3. Reserved'
  BY <1>1 DEF IInv, Reserved, Free
<1>4. \A v \in Workers : Agrees(v)'
  BY <1>1 DEF IInv, Agrees, Free, rows
<1>5. QED
  BY <1>2, <1>3, <1>4 DEF IInv

LEMMA InductiveTimer ==
  ASSUME IInv, TypeOK', NEW k \in Calls, RingTimer(k)
  PROVE  IInv'
<1>1. UNCHANGED <<pc, job, alive, host, answerer, part, granted>>
  BY DEF RingTimer, TimerFire, TimerExpire, TimerTell, request, rows, told
<1>2. \A c \in Calls : Forward(c) /\ (status[c] = "none" => status'[c] = "none")
  BY <1>1 DEF RingTimer, TimerFire, TimerExpire, TimerTell, rows, Forward, IInv, TypeOK, RowsType
<1>3. ASSUME NEW c \in Calls PROVE Sound(c)'
  <2>1. CASE TimerFire(k)
    <3>1. timer'[c] = "tell" => timer[c] = "tell"
      BY <2>1 DEF TimerFire, IInv, TypeOK, OtherType
    <3>2. UNCHANGED <<rows, told>>
      BY <2>1 DEF TimerFire
    <3>3. QED
      BY <3>1, <3>2 DEF IInv, Sound, rows, told
  <2>2. CASE TimerExpire(k)
    <3>1. CASE c = k /\ status[k] = "ringing"
      <4>1. status'[c] = "missed" /\ UNCHANGED <<host, answerer, part, note, announced, granted>>
        BY <2>2, <3>1 DEF TimerExpire, IInv, TypeOK, RowsType, told
      <4>2. Sound(c)
        BY DEF IInv
      <4>3. QED
        BY <3>1, <4>1, <4>2 DEF Sound, Closed
    <3>2. CASE ~(c = k /\ status[k] = "ringing")
      <4>1. /\ status'[c] = status[c] /\ (timer'[c] = "tell" => timer[c] = "tell")
            /\ UNCHANGED <<host, answerer, part, note, announced, granted>>
        BY <2>2, <3>2 DEF TimerExpire, IInv, TypeOK, RowsType, OtherType, told
      <4>2. Sound(c)
        BY DEF IInv
      <4>3. QED
        BY <4>1, <4>2 DEF Sound
    <3>3. QED
      BY <3>1, <3>2
  <2>3. CASE TimerTell(k)
    <3>1. status[k] = "missed"
      BY <2>3 DEF TimerTell, IInv, Sound
    <3>2. UNCHANGED <<status, host, answerer, part, granted>>
      BY <2>3 DEF TimerTell
    <3>3. /\ timer'[c] = "tell" => timer[c] = "tell"
          /\ note'[c] = note[c] \/ c = k
          /\ announced'[c] \ {"missed"} = announced[c] \ {"missed"}
          /\ "missed" \in announced'[c] => "missed" \in announced[c] \/ c = k
      BY <2>3 DEF TimerTell, IInv, TypeOK, RowsType, OtherType
    <3>4. Sound(c)
      BY DEF IInv
    <3>5. QED
      BY <3>1, <3>2, <3>3, <3>4 DEF Sound
  <2>4. QED
    BY <2>1, <2>2, <2>3 DEF RingTimer
<1>4. Reserved'
  BY <1>1 DEF IInv, Reserved, Free
<1>5. ASSUME NEW v \in Workers PROVE Agrees(v)'
  <2>1. ~Free(v) => job[v].call \in Calls
    BY DEF IInv, TypeOK, RequestType, Free, Job
  <2>2. ~Free(v) => Forward(job[v].call) /\ (pc[v] \in Early => status'[job[v].call] = "none")
    BY <1>2, <2>1 DEF IInv, Agrees
  <2>3. QED
    BY <1>1, <2>2, OthersAgree DEF IInv
<1>6. QED
  BY <1>3, <1>4, <1>5 DEF IInv

LEMMA InductiveRestart ==
  ASSUME IInv, TypeOK', Restart
  PROVE  IInv'
<1>1. UNCHANGED <<rows, told>> /\ timer' = [c \in Calls |-> "off"]
  BY DEF Restart
<1>2. \A w \in Workers : Free(w)'
  BY DEF Restart, Free
<1>3. \A c \in Calls : Sound(c)'
  BY <1>1 DEF IInv, Sound, rows, told
<1>4. Reserved' /\ \A w \in Workers : Agrees(w)'
  BY <1>2 DEF Reserved, Agrees, Free, Early
<1>5. QED
  BY <1>3, <1>4 DEF IInv

LEMMA InductiveStep == IInv /\ [Next]_vars => IInv'
<1> SUFFICES ASSUME IInv, [Next]_vars PROVE IInv'
  OBVIOUS
<1>1. TypeOK'
  BY TypeStep DEF IInv
<1>2. CASE Next
  BY <1>1, <1>2, InductiveArrival, InductiveServe, InductiveDisconnect, InductiveTimer,
     InductiveRestart DEF Next
<1>3. CASE UNCHANGED vars
  <2>1. UNCHANGED <<rows, told, process, pc, job, alive>>
    BY <1>3 DEF vars, rows, told
  <2>2. \A c \in Calls : Sound(c)'
    BY <2>1 DEF IInv, Sound, rows, told, process
  <2>3. Reserved'
    BY <2>1 DEF IInv, Reserved, Free
  <2>4. \A w \in Workers : Agrees(w)'
    BY <2>1 DEF IInv, Agrees, Free, rows
  <2>5. QED
    BY <1>1, <2>2, <2>3, <2>4 DEF IInv
<1>4. QED
  BY <1>2, <1>3

LEMMA Inductive == Spec => []IInv
<1>1. Init => IInv
  BY InductiveInit
<1>2. IInv /\ [Next]_vars => IInv'
  BY InductiveStep
<1>3. QED
  BY <1>1, <1>2, PTL DEF Spec

-----------------------------------------------------------------------------
(* The safety properties *)

(* However requests about the same call interleave, are cut off midway or  *)
(* are forgotten by a restart, what one of them read earlier still implies *)
(* what it relies on at its next step.                                     *)
THEOREM ReadsStayUsable == Spec => []RequestsAgree
<1>1. IInv => RequestsAgree
  BY DEF IInv, RequestsAgree, CallAgrees, Sound
<1>2. QED
  BY <1>1, Inductive, PTL

(* A call recorded as ringing, missed or declined was answered by nobody,  *)
(* in every interleaving of answers, declines, hang-ups and the ring timer.*)
THEOREM UnansweredHolds == Spec => []UnansweredOutcome
<1>1. IInv => UnansweredOutcome
  BY DEF IInv, UnansweredOutcome, Sound
<1>2. QED
  BY <1>1, Inductive, PTL

(* At most one device of a direct conversation wins handleAnswerCall.      *)
THEOREM SingleAnswerHolds == Spec => []SingleAnswer
<1>1. IInv => SingleAnswer
  BY DEF IInv, SingleAnswer, Sound
<1>2. QED
  BY <1>1, Inductive, PTL

(* Members are told "missed" only of missed calls, and "ended" only of     *)
(* calls that are closed.                                                  *)
THEOREM AnnouncedEndHolds == Spec => []AnnouncedEndIsTrue
<1>1. IInv => AnnouncedEndIsTrue
  BY DEF IInv, AnnouncedEndIsTrue, Sound
<1>2. QED
  BY <1>1, Inductive, PTL

-----------------------------------------------------------------------------
(* The handlers implement CallLifecycle *)

view == <<status, granted>>

(* A conditional UPDATE closes the calls it matches, or none.              *)
LEMMA TransitionCloses ==
  ASSUME TypeOK, NEW w \in Workers, NEW S \in SUBSET Calls, NEW from \in SUBSET Open, NEW how \in Closed,
         how = "ended" \/ from \subseteq {"ringing"},
         Transition(w, S, from, how), granted' = granted
  PROVE  [Life!Next]_view
<1> DEFINE hit == {c \in Calls : alive[w] /\ c \in S /\ status[c] \in from}
<1>1. status' = [c \in Calls |-> IF c \in hit THEN how ELSE status[c]]
  BY DEF Transition
<1>2. CASE hit = {}
  <2>1. status' = status
    BY <1>1, <1>2 DEF TypeOK, RowsType
  <2>2. QED
    BY <2>1 DEF view
<1>3. CASE hit # {}
  <2>1. hit \in SUBSET Calls /\ \A c \in hit : status[c] \in Open
    OBVIOUS
  <2>2. how = "ended" \/ \A c \in hit : status[c] = "ringing"
    OBVIOUS
  <2>3. Life!Close(hit)
    BY <1>1, <1>3, <2>1, <2>2 DEF Life!Close, Life!Open, Life!Closed, Open, Closed
  <2>4. QED
    BY <2>1, <2>3 DEF Life!Next
<1>4. QED
  BY <1>2, <1>3

LEMMA ServeImplements ==
  ASSUME IInv, NEW w \in Workers, Serve(w)
  PROVE  [Life!Next]_view
<1> DEFINE k == job[w].call
<1>0. ~Free(w) /\ job[w] \in Job /\ k \in Calls /\ Agrees(w)
  BY DEF IInv, TypeOK, RequestType, Job, Serve, Free, At, StartReplace, StartScan, StartClear, StartInsert, StartHost, StartSeat, StartRing, AnswerCheck, AnswerTake, AnswerReload, AnswerJoin, DeclineMark, DeclinePending, DeclineJoined, DeclineEnd, DeclineTell, HangupLeave, HangupEnd, HangupTell, InviteMine, InviteCheck, InviteAdd, InviteRing, KickMark
<1>1. CASE StartReplace(w)
  <2>1. stale[w] \in SUBSET Calls /\ {"active"} \in SUBSET Open /\ "ended" \in Closed
    BY DEF IInv, TypeOK, RequestType, Open, Closed
  <2>2. Transition(w, stale[w], {"active"}, "ended") /\ granted' = granted
    BY <1>1 DEF StartReplace
  <2>3. QED
    BY <2>1, <2>2, TransitionCloses DEF IInv
<1>2. CASE StartClear(w)
  <2>1. Calls \in SUBSET Calls /\ {"ringing"} \in SUBSET Open /\ "ended" \in Closed
    BY DEF Open, Closed
  <2>2. Transition(w, Calls, {"ringing"}, "ended") /\ granted' = granted
    BY <1>2 DEF StartClear
  <2>3. QED
    BY <2>1, <2>2, TransitionCloses DEF IInv
<1>3. CASE DeclineEnd(w)
  <2>1. {k} \in SUBSET Calls /\ {"ringing"} \in SUBSET Open /\ "declined" \in Closed
    BY <1>0 DEF Open, Closed
  <2>2. Transition(w, {k}, {"ringing"}, "declined") /\ granted' = granted
    BY <1>3 DEF DeclineEnd, told
  <2>3. QED
    BY <2>1, <2>2, TransitionCloses DEF IInv
<1>4. CASE HangupEnd(w)
  <2>1. {k} \in SUBSET Calls /\ Open \in SUBSET Open /\ "ended" \in Closed
    BY <1>0 DEF Closed
  <2>2. Transition(w, {k}, Open, "ended") /\ granted' = granted
    BY <1>4 DEF HangupEnd, told
  <2>3. QED
    BY <2>1, <2>2, TransitionCloses DEF IInv
<1>5. CASE StartInsert(w)
  <2>1. CASE alive[w]
    <3>1. status[k] = "none"
      BY <1>0, <1>5 DEF StartInsert, At, Agrees, Early
    <3>2. Life!Ring(k)
      BY <1>5, <2>1, <3>1 DEF StartInsert, told, Life!Ring
    <3>3. QED
      BY <1>0, <3>2 DEF Life!Next
  <2>2. CASE ~alive[w]
    BY <1>5, <2>2 DEF StartInsert, told, view
  <2>3. QED
    BY <2>1, <2>2
<1>6. CASE AnswerTake(w)
  <2>1. CASE alive[w] /\ status[k] = "ringing"
    <3>1. status' = [status EXCEPT ![k] = "active"]
      BY <1>6, <2>1 DEF AnswerTake, Transition, IInv, TypeOK, RowsType
    <3>2. Life!Connect(k)
      BY <1>6, <2>1, <3>1 DEF AnswerTake, told, Life!Connect
    <3>3. QED
      BY <1>0, <3>2 DEF Life!Next
  <2>2. CASE ~(alive[w] /\ status[k] = "ringing")
    <3>1. status' = status
      BY <1>6, <2>2 DEF AnswerTake, Transition, IInv, TypeOK, RowsType
    <3>2. QED
      BY <1>6, <3>1 DEF AnswerTake, told, view
  <2>3. QED
    BY <2>1, <2>2
<1>7. CASE AnswerJoin(w)
  <2> DEFINE g == <<job[w].user, job[w].dev>>
  <2>1. g \in Users \X Devices
    BY <1>0 DEF Job
  <2>2. status[k] \in {"active", "ended"}
    BY <1>0, <1>7 DEF AnswerJoin, At, Agrees
  <2>3. IsGroup \/ granted[k] \subseteq {g}
    <3> SUFFICES ASSUME ~IsGroup, NEW h \in granted[k] PROVE h = g
      OBVIOUS
    <3>1. h \in Users \X Devices
      BY <1>0 DEF IInv, TypeOK, OtherType
    <3>2. h[1] # host[k] /\ h[2] = answerer[k]
      BY <1>0 DEF IInv, Sound
    <3>3. job[w].user # host[k] /\ job[w].dev = answerer[k]
      BY <1>0, <1>7 DEF AnswerJoin, At, Agrees
    <3>4. host[k] \in Users
      BY <1>0, <2>2 DEF IInv, Sound, TypeOK, RowsType
    <3>5. h[1] = job[w].user
      BY <1>0, <3>1, <3>2, <3>3, <3>4, CallAssumption DEF Job
    <3>6. QED
      BY <3>1, <3>2, <3>3, <3>5
  <2>4. Life!Admit(k, g)
    BY <1>7, <2>2, <2>3 DEF AnswerJoin, Life!Admit
  <2>5. QED
    BY <1>0, <2>1, <2>4 DEF Life!Next
<1>8. CASE StartScan(w)
  BY <1>8 DEF StartScan, rows, told, view
<1>9. CASE StartHost(w)
  BY <1>9 DEF StartHost, rows, told, view
<1>10. CASE StartSeat(w)
  BY <1>10 DEF StartSeat, rows, told, view
<1>11. CASE StartRing(w)
  BY <1>11 DEF StartRing, rows, told, view
<1>12. CASE AnswerCheck(w)
  BY <1>12 DEF AnswerCheck, rows, told, view
<1>13. CASE AnswerReload(w)
  BY <1>13 DEF AnswerReload, rows, told, view
<1>14. CASE DeclineMark(w)
  BY <1>14 DEF DeclineMark, rows, told, view
<1>15. CASE DeclinePending(w)
  BY <1>15 DEF DeclinePending, rows, told, view
<1>16. CASE DeclineJoined(w)
  BY <1>16 DEF DeclineJoined, rows, told, view
<1>17. CASE DeclineTell(w)
  BY <1>17 DEF DeclineTell, rows, told, view
<1>18. CASE HangupLeave(w)
  BY <1>18 DEF HangupLeave, rows, told, view
<1>19. CASE HangupTell(w)
  BY <1>19 DEF HangupTell, rows, told, view
<1>20. CASE InviteMine(w)
  BY <1>20 DEF InviteMine, rows, told, view
<1>21. CASE InviteCheck(w)
  BY <1>21 DEF InviteCheck, rows, told, view
<1>22. CASE InviteAdd(w)
  BY <1>22 DEF InviteAdd, rows, told, view
<1>23. CASE InviteRing(w)
  BY <1>23 DEF InviteRing, rows, told, view
<1>24. CASE KickMark(w)
  BY <1>24 DEF KickMark, rows, told, view
<1>25. QED
  BY <1>1, <1>2, <1>3, <1>4, <1>5, <1>6, <1>7, <1>8, <1>9, <1>10, <1>11, <1>12, <1>13, <1>14, <1>15, <1>16, <1>17, <1>18, <1>19, <1>20, <1>21, <1>22, <1>23, <1>24 DEF Serve

LEMMA ArrivalImplements ==
  ASSUME NEW w \in Workers, Arrival(w)
  PROVE  UNCHANGED view
<1>1. PICK u \in Users, d \in Devices, c \in Calls :
        \/ Answer(w, u, d, c) \/ Decline(w, u, d, c) \/ Hangup(w, u, d, c)
        \/ \E S \in SUBSET Users : Start(w, u, d, c, S) \/ Invite(w, u, d, c, S)
        \/ \E t \in Users : Kick(w, u, d, c, t)
  BY DEF Arrival
<1>2. UNCHANGED rows /\ UNCHANGED told
  BY <1>1 DEF Answer, Decline, Hangup, Start, Invite, Kick
<1>3. QED
  BY <1>2 DEF rows, told, view

LEMMA TimerImplements ==
  ASSUME IInv, NEW k \in Calls, RingTimer(k)
  PROVE  [Life!Next]_view
<1>1. CASE TimerFire(k) \/ TimerTell(k)
  BY <1>1 DEF TimerFire, TimerTell, rows, told, view
<1>2. CASE TimerExpire(k)
  <2>1. CASE status[k] = "ringing"
    <3>1. /\ status' = [c \in Calls |-> IF c \in {k} THEN "missed" ELSE status[c]]
          /\ granted' = granted
      BY <1>2, <2>1 DEF TimerExpire, told, IInv, TypeOK, RowsType
    <3>2. Life!Close({k})
      BY <2>1, <3>1 DEF Life!Close, Life!Open, Life!Closed
    <3>3. QED
      BY <3>2 DEF Life!Next
  <2>2. CASE status[k] # "ringing"
    BY <1>2, <2>2 DEF TimerExpire, told, view
  <2>3. QED
    BY <2>1, <2>2
<1>3. QED
  BY <1>1, <1>2 DEF RingTimer

(* Seen from outside, the interleaved statements of the handlers are the   *)
(* lifecycle clients rely on: connected at most once, admitted only after  *)
(* that, and closed for good.                                              *)
THEOREM LifecycleImplemented == Spec => ImplementsLifecycle
<1>1. Init => Life!Init
  BY DEF Init, Life!Init
<1>2. IInv /\ [Next]_vars => [Life!Next]_view
  <2> SUFFICES ASSUME IInv, [Next]_vars PROVE [Life!Next]_view
    OBVIOUS
  <2>1. ASSUME NEW w \in Workers, Arrival(w) PROVE UNCHANGED view
    BY <2>1, ArrivalImplements
  <2>2. ASSUME NEW w \in Workers, Disconnect(w) PROVE UNCHANGED view
    BY <2>2 DEF Disconnect, rows, told, view
  <2>3. CASE Restart
    BY <2>3 DEF Restart, rows, told, view
  <2>4. CASE UNCHANGED vars
    BY <2>4 DEF vars, view
  <2>5. QED
    BY <2>1, <2>2, <2>3, <2>4, ServeImplements, TimerImplements DEF Next
<1>3. Init /\ [][Next]_vars /\ []IInv => Life!Init /\ [][Life!Next]_view
  BY <1>1, <1>2, PTL
<1>4. QED
  BY <1>3, Inductive DEF Spec, ImplementsLifecycle, Life!Spec, view

-----------------------------------------------------------------------------
(* One open call *)

(* While a request of handleStartCall is on its way to its INSERT, no other *)
(* one is, and no answer is about to connect a call.                       *)
StartsApart ==
  \A v, w \in Workers : v # w /\ pc[v] \in Early => pc[w] \notin Early \cup {"a_take"}

(* What a start relies on at each step before its INSERT: the call in      *)
(* progress is the one it ends, then nothing is active, then nothing is    *)
(* open.  A start whose context is cancelled inserts nothing.              *)
Replaces(w) ==
  alive[w] =>
    /\ pc[w] = "s_replace" => \A c \in Calls : status[c] = "active" => c \in stale[w]
    /\ pc[w] \in {"s_scan", "s_clear"} => \A c \in Calls : status[c] # "active"
    /\ pc[w] = "s_insert" => \A c \in Calls : status[c] \notin Open

OneCall == OneOpenCall /\ \A w \in Workers : Replaces(w)

(* A step that opens and connects no call disturbs no start.               *)
LEMMA OneCallKept ==
  ASSUME OneCall, NEW S \in SUBSET Workers,
         \A c \in Calls : /\ status'[c] \in Open => status[c] \in Open
                          /\ status'[c] = "active" => status[c] = "active",
         \A v \in Workers \ S : pc'[v] \in Early =>
            pc'[v] = pc[v] /\ stale'[v] = stale[v] /\ (alive'[v] => alive[v]),
         \A v \in S : Replaces(v)'
  PROVE  OneCall'
<1>1. OneOpenCall'
  BY DEF OneCall, OneOpenCall
<1>2. ASSUME NEW v \in Workers \ S PROVE Replaces(v)'
  <2>1. Replaces(v)
    BY DEF OneCall
  <2>2. CASE pc'[v] \in Early
    <3>1. pc'[v] = pc[v] /\ stale'[v] = stale[v] /\ (alive'[v] => alive[v])
      BY <2>2
    <3>2. QED
      BY <2>1, <3>1 DEF Replaces
  <2>3. CASE pc'[v] \notin Early
    BY <2>3 DEF Replaces, Early
  <2>4. QED
    BY <2>2, <2>3
<1>3. QED
  BY <1>1, <1>2 DEF OneCall

LEMMA OneCallServe ==
  ASSUME IInv, StartsApart, OneCall, NEW w \in Workers, Serve(w)
  PROVE  OneCall'
<1> DEFINE k == job[w].call
           Narrows == \A c \in Calls : /\ status'[c] \in Open => status[c] \in Open
                                       /\ status'[c] = "active" => status[c] = "active"
           Others == \A v \in Workers \ {w} :
                       pc'[v] = pc[v] /\ stale'[v] = stale[v] /\ alive'[v] = alive[v]
<1>1. /\ status \in [Calls -> Status]
      /\ pc \in [Workers -> PC] /\ alive \in [Workers -> BOOLEAN]
      /\ stale \in [Workers -> SUBSET Calls]
      /\ pc[w] # "idle" => k \in Calls
  BY DEF IInv, TypeOK, RowsType, RequestType, Job
<1>2. Replaces(w)
  BY DEF OneCall
<1>3. ASSUME Narrows, Others, Replaces(w)' PROVE OneCall'
  <2>1. {w} \in SUBSET Workers /\ \A v \in {w} : Replaces(v)'
    BY <1>3
  <2>2. QED
    BY <1>3, <2>1, OneCallKept
<1>4. CASE StartReplace(w)
  <2>1. Narrows /\ Others
    BY <1>1, <1>4 DEF StartReplace, Transition, Goto, scratch, Open
  <2>2. Replaces(w)'
    BY <1>1, <1>2, <1>4 DEF StartReplace, At, Transition, Goto, scratch, Replaces
  <2>3. QED
    BY <1>3, <2>1, <2>2
<1>5. CASE StartScan(w)
  <2>1. Narrows /\ Others
    BY <1>1, <1>5 DEF StartScan, rows
  <2>2. Replaces(w)'
    <3> SUFFICES ASSUME alive[w]
                 PROVE  Replaces(w)'
      BY <1>5 DEF StartScan, Replaces
    <3>1. \A c \in Calls : status'[c] = status[c] /\ status[c] # "active"
      BY <1>2, <1>5 DEF StartScan, At, Replaces, rows
    <3>2. \/ pc'[w] = "s_insert" /\ \A c \in Calls : status[c] # "ringing"
          \/ pc'[w] = "s_clear"
      BY <1>1, <1>5 DEF StartScan
    <3>3. QED
      BY <3>1, <3>2 DEF Replaces, Open
  <2>3. QED
    BY <1>3, <2>1, <2>2
<1>6. CASE StartClear(w)
  <2>1. Narrows /\ Others
    BY <1>1, <1>6 DEF StartClear, Transition, Goto, scratch, Open
  <2>2. Replaces(w)'
    BY <1>1, <1>2, <1>6 DEF StartClear, At, Transition, Goto, scratch, Replaces, Open
  <2>3. QED
    BY <1>3, <2>1, <2>2
<1>7. CASE StartInsert(w)
  <2>1. CASE alive[w]
    <3>1. \A c \in Calls : status[c] \notin Open
      BY <1>2, <1>7, <2>1 DEF StartInsert, At, Replaces
    <3>2. \A c \in Calls : status'[c] \in Open => c = k
      BY <1>1, <1>7, <2>1, <3>1 DEF StartInsert, At, Open
    <3>3. OneOpenCall'
      BY <3>2 DEF OneOpenCall
    <3>4. \A v \in Workers : pc'[v] \notin Early
      BY <1>1, <1>7, <2>1 DEF StartInsert, At, Goto, StartsApart, Early
    <3>5. \A v \in Workers : Replaces(v)'
      BY <3>4 DEF Replaces, Early
    <3>6. QED
      BY <3>3, <3>5 DEF OneCall
  <2>2. CASE ~alive[w]
    <3>1. Narrows /\ Others
      BY <1>1, <1>7, <2>2 DEF StartInsert, Finish
    <3>2. Replaces(w)'
      BY <1>1, <1>7, <2>2 DEF StartInsert, Finish, Replaces
    <3>3. QED
      BY <1>3, <3>1, <3>2
  <2>3. QED
    BY <2>1, <2>2
<1>8. CASE AnswerTake(w)
  <2>1. \A c \in Calls : status'[c] \in Open => status[c] \in Open
    BY <1>1, <1>8 DEF AnswerTake, Transition, Open
  <2>2. OneOpenCall'
    BY <2>1 DEF OneCall, OneOpenCall
  <2>3. \A v \in Workers \ {w} : pc[v] \notin Early /\ pc'[v] = pc[v]
    BY <1>1, <1>8 DEF AnswerTake, At, StartsApart, Goto, Finish
  <2>4. pc'[w] \notin Early
    BY <1>1, <1>8 DEF AnswerTake, Goto, Finish, Early
  <2>5. \A v \in Workers : Replaces(v)'
    BY <2>3, <2>4 DEF Replaces, Early
  <2>6. QED
    BY <2>2, <2>5 DEF OneCall
<1>9. CASE DeclineEnd(w) \/ HangupEnd(w)
  <2>1. Narrows /\ Others /\ pc'[w] \notin Early
    BY <1>1, <1>9 DEF DeclineEnd, HangupEnd, Transition, Goto, scratch, Open, Early
  <2>2. Replaces(w)'
    BY <2>1 DEF Replaces, Early
  <2>3. QED
    BY <1>3, <2>1, <2>2
<1>10. ASSUME UNCHANGED status, Others, pc'[w] \notin Early PROVE OneCall'
  <2>1. Narrows
    BY <1>10
  <2>2. Replaces(w)'
    BY <1>10 DEF Replaces, Early
  <2>3. QED
    BY <1>3, <1>10, <2>1, <2>2
<1>11. CASE StartHost(w) \/ StartSeat(w) \/ StartRing(w)
  <2>1. UNCHANGED status /\ Others /\ pc'[w] \notin Early
    BY <1>1, <1>11 DEF StartHost, StartSeat, StartRing, Goto, Finish, scratch, rows, Early
  <2>2. QED
    BY <1>10, <2>1
<1>12. CASE AnswerCheck(w) \/ AnswerReload(w) \/ AnswerJoin(w)
  <2>1. UNCHANGED status /\ Others /\ pc'[w] \notin Early
    BY <1>1, <1>12 DEF AnswerCheck, AnswerReload, AnswerJoin, Goto, Finish, scratch, rows, Early
  <2>2. QED
    BY <1>10, <2>1
<1>13. CASE DeclineMark(w) \/ DeclinePending(w) \/ DeclineJoined(w) \/ DeclineTell(w)
  <2>1. UNCHANGED status /\ Others /\ pc'[w] \notin Early
    BY <1>1, <1>13 DEF DeclineMark, DeclinePending, DeclineJoined, DeclineTell, Goto, Finish,
                       scratch, rows, Early
  <2>2. QED
    BY <1>10, <2>1
<1>14. CASE HangupLeave(w) \/ HangupTell(w) \/ KickMark(w)
  <2>1. UNCHANGED status /\ Others /\ pc'[w] \notin Early
    BY <1>1, <1>14 DEF HangupLeave, HangupTell, KickMark, Finish, rows, Early
  <2>2. QED
    BY <1>10, <2>1
<1>15. CASE InviteMine(w) \/ InviteCheck(w) \/ InviteAdd(w) \/ InviteRing(w)
  <2>1. UNCHANGED status /\ Others /\ pc'[w] \notin Early
    BY <1>1, <1>15 DEF InviteMine, InviteCheck, InviteAdd, InviteRing, At, Goto, Finish,
                       scratch, rows, Early
  <2>2. QED
    BY <1>10, <2>1
<1>16. QED
  BY <1>4, <1>5, <1>6, <1>7, <1>8, <1>9, <1>11, <1>12, <1>13, <1>14, <1>15 DEF Serve

(* A start is admitted when nothing is active, or remembers the one active *)
(* call as the one to replace.                                             *)
LEMMA OneCallArrival ==
  ASSUME IInv, OneCall, NEW w \in Workers, Arrival(w)
  PROVE  OneCall'
<1>1. PICK u \in Users, d \in Devices, c \in Calls :
        \/ Answer(w, u, d, c) \/ Decline(w, u, d, c) \/ Hangup(w, u, d, c)
        \/ \E S \in SUBSET Users : Start(w, u, d, c, S) \/ Invite(w, u, d, c, S)
        \/ \E t \in Users : Kick(w, u, d, c, t)
  BY DEF Arrival
<1>2. /\ pc \in [Workers -> PC] /\ alive \in [Workers -> BOOLEAN]
      /\ stale \in [Workers -> SUBSET Calls]
  BY DEF IInv, TypeOK, RequestType
<1>3. /\ UNCHANGED status
      /\ \A v \in Workers \ {w} : pc'[v] = pc[v] /\ stale'[v] = stale[v] /\ alive'[v] = alive[v]
  BY <1>1, <1>2 DEF Answer, Decline, Hangup, Start, Invite, Kick, Arrive, rows
<1>4. Replaces(w)'
  <2>1. CASE pc'[w] \notin Early
    BY <2>1 DEF Replaces, Early
  <2>2. CASE pc'[w] \in Early
    <3>1. PICK S \in SUBSET Users : Start(w, u, d, c, S)
      BY <1>1, <1>2, <2>2 DEF Answer, Decline, Hangup, Invite, Kick, Arrive, Early
    <3>2. CASE Arrive(w, "s_scan", u, d, c, S, {}) /\ \A a \in Calls : status[a] # "active"
      BY <1>2, <1>3, <3>2 DEF Arrive, Replaces
    <3>3. ASSUME NEW a \in Calls, status[a] = "active", Arrive(w, "s_replace", u, d, c, S, {a})
          PROVE  Replaces(w)'
      <4>1. \A b \in Calls : status[b] = "active" => b = a
        BY <3>3 DEF OneCall, OneOpenCall, Open
      <4>2. pc'[w] = "s_replace" /\ stale'[w] = {a}
        BY <1>2, <3>3 DEF Arrive
      <4>3. QED
        BY <1>3, <4>1, <4>2 DEF Replaces
    <3>4. QED
      BY <3>1, <3>2, <3>3 DEF Start
  <2>3. QED
    BY <2>1, <2>2
<1>5. {w} \in SUBSET Workers /\ \A v \in {w} : Replaces(v)'
  BY <1>4
<1>6. QED
  BY <1>3, <1>5, OneCallKept

LEMMA OneCallStep == IInv /\ StartsApart /\ OneCall /\ [Next]_vars => OneCall'
<1> SUFFICES ASSUME IInv, StartsApart, OneCall, [Next]_vars PROVE OneCall'
  OBVIOUS
<1>0. /\ status \in [Calls -> Status] /\ pc \in [Workers -> PC]
      /\ alive \in [Workers -> BOOLEAN]
  BY DEF IInv, TypeOK, RowsType, RequestType
<1>1. ASSUME \A c \in Calls : /\ status'[c] \in Open => status[c] \in Open
                              /\ status'[c] = "active" => status[c] = "active",
             \A v \in Workers : pc'[v] \in Early =>
               pc'[v] = pc[v] /\ stale'[v] = stale[v] /\ (alive'[v] => alive[v])
      PROVE  OneCall'
  <2>1. {} \in SUBSET Workers
    OBVIOUS
  <2>2. QED
    BY <1>1, <2>1, OneCallKept
<1>2. ASSUME NEW w \in Workers, Disconnect(w) PROVE OneCall'
  <2>1. UNCHANGED <<status, pc, stale>> /\ \A v \in Workers : alive'[v] => alive[v]
    BY <1>0, <1>2 DEF Disconnect, rows, scratch
  <2>2. QED
    BY <1>1, <2>1
<1>3. ASSUME NEW c \in Calls, RingTimer(c) PROVE OneCall'
  <2>1. UNCHANGED <<pc, stale, alive>>
    BY <1>3 DEF RingTimer, TimerFire, TimerExpire, TimerTell, request
  <2>2. \A b \in Calls : /\ status'[b] \in Open => status[b] \in Open
                         /\ status'[b] = "active" => status[b] = "active"
    BY <1>0, <1>3 DEF RingTimer, TimerFire, TimerExpire, TimerTell, rows, Open
  <2>3. QED
    BY <1>1, <2>1, <2>2
<1>4. CASE Restart
  <2>1. UNCHANGED status /\ \A v \in Workers : pc'[v] \notin Early
    BY <1>4 DEF Restart, rows, Early
  <2>2. QED
    BY <1>1, <2>1
<1>5. CASE UNCHANGED vars
  <2>1. UNCHANGED <<status, pc, stale, alive>>
    BY <1>5 DEF vars
  <2>2. QED
    BY <1>1, <2>1
<1>6. QED
  BY <1>2, <1>3, <1>4, <1>5, OneCallServe, OneCallArrival DEF Next

(* A conversation never has two open calls, whatever is cut off midway or  *)
(* lost in a restart, and however answers, declines, hang-ups, invitations *)
(* and timers overlap, as long as a start of a call overlaps neither       *)
(* another start nor the UPDATE of an answer: no other race can defeat     *)
(* what handleStartCall does before its INSERT.                            *)
THEOREM OneOpenCallHolds == Spec /\ []StartsApart => []OneOpenCall
<1>1. Init => OneCall
  BY DEF Init, OneCall, OneOpenCall, Replaces, Open
<1>2. OneCall => OneOpenCall
  BY DEF OneCall
<1>3. QED
  BY <1>1, <1>2, OneCallStep, Inductive, PTL DEF Spec
=============================================================================
