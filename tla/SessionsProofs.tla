-------------------------- MODULE SessionsProofs --------------------------
(***************************************************************************)
(* Proofs about Sessions: type correctness, and where a sign-out that the  *)
(* server has acknowledged holds, for any number of sessions, processes,   *)
(* simultaneous requests, cancelled contexts, restarts and failures of     *)
(* Redis; and what holds when there is one request at a time.              *)
(***************************************************************************)
EXTENDS Sessions, FiniteSetTheorems, TLAPS

(* The initial state has the types.                                        *)
LEMMA TypeInit == Init => TypeOK
<1>1. Init => TableType
  BY DEF Init, TableType
<1>2. Init => MarkType
  BY DEF Init, MarkType
<1>3. Init => RequestType
  BY DEF Init, RequestType, PC
<1>4. Init => SubjectType
  BY DEF Init, SubjectType
<1>5. QED
  BY <1>1, <1>2, <1>3, <1>4 DEF TypeOK

(* Every step keeps the types.                                             *)
LEMMA TypeStep == TypeOK /\ [Next]_vars => TypeOK'
<1>1. SUFFICES ASSUME TypeOK, [Next]_vars PROVE TypeOK'
  OBVIOUS
<1> USE SessionAssumption
<1>2. ASSUME NEW w \in Workers, NEW t \in Types, Login(w, t) PROVE TypeOK'
  <2>1. TableType'
    BY <1>1, <1>2 DEF TypeOK, TableType, table, Login, Free, Arrive, At
  <2>2. MarkType'
    BY <1>1, <1>2 DEF TypeOK, MarkType, marks, socket, Login, Free, Arrive, At
  <2>3. RequestType'
    BY <1>1, <1>2 DEF TypeOK, RequestType, PC, req, Login, Free, Arrive, At
  <2>4. SubjectType'
    BY <1>1, <1>2 DEF TypeOK, SubjectType, RequestType, PC, req, Login, Free, Arrive, At
  <2>5. QED
    BY <2>1, <2>2, <2>3, <2>4 DEF TypeOK
<1>3. ASSUME NEW w \in Workers, NEW s \in SIDs, Refresh(w, s) PROVE TypeOK'
  <2>1. TableType'
    BY <1>1, <1>3 DEF TypeOK, TableType, table, Refresh, Free, Arrive, At
  <2>2. MarkType'
    BY <1>1, <1>3 DEF TypeOK, MarkType, marks, socket, Refresh, Free, Arrive, At
  <2>3. RequestType'
    BY <1>1, <1>3 DEF TypeOK, RequestType, PC, req, Refresh, Free, Arrive, At
  <2>4. SubjectType'
    BY <1>1, <1>3 DEF TypeOK, SubjectType, RequestType, PC, req, Refresh, Free, Arrive, At
  <2>5. QED
    BY <2>1, <2>2, <2>3, <2>4 DEF TypeOK
<1>4. ASSUME NEW w \in Workers, NEW s \in SIDs, Logout(w, s) PROVE TypeOK'
  <2>1. TableType'
    BY <1>1, <1>4 DEF TypeOK, TableType, table, Logout, Free, Arrive, At
  <2>2. MarkType'
    BY <1>1, <1>4 DEF TypeOK, MarkType, marks, socket, Logout, Free, Arrive, At
  <2>3. RequestType'
    BY <1>1, <1>4 DEF TypeOK, RequestType, PC, req, Logout, Free, Arrive, At
  <2>4. SubjectType'
    BY <1>1, <1>4 DEF TypeOK, SubjectType, RequestType, PC, req, Logout, Free, Arrive, At
  <2>5. QED
    BY <2>1, <2>2, <2>3, <2>4 DEF TypeOK
<1>5. ASSUME NEW w \in Workers, NEW s \in SIDs, RevokeOne(w, s) PROVE TypeOK'
  <2>1. TableType'
    BY <1>1, <1>5 DEF TypeOK, TableType, table, RevokeOne, Free, At
  <2>2. MarkType'
    BY <1>1, <1>5 DEF TypeOK, MarkType, marks, socket, RevokeOne, Free, At
  <2>3. RequestType'
    BY <1>1, <1>5 DEF TypeOK, RequestType, PC, req, RevokeOne, Free, At
  <2>4. SubjectType'
    BY <1>1, <1>5 DEF TypeOK, SubjectType, RequestType, PC, req, RevokeOne, Free, At
  <2>5. QED
    BY <2>1, <2>2, <2>3, <2>4 DEF TypeOK
<1>6. ASSUME NEW w \in Workers, NEW s \in SIDs, Connect(w, s) PROVE TypeOK'
  <2>1. TableType'
    BY <1>1, <1>6 DEF TypeOK, TableType, table, Connect, Free, Arrive, At
  <2>2. MarkType'
    BY <1>1, <1>6 DEF TypeOK, MarkType, marks, socket, Connect, Free, Arrive, At
  <2>3. RequestType'
    BY <1>1, <1>6 DEF TypeOK, RequestType, PC, req, Connect, Free, Arrive, At
  <2>4. SubjectType'
    BY <1>1, <1>6 DEF TypeOK, SubjectType, RequestType, PC, req, Connect, Free, Arrive, At
  <2>5. QED
    BY <2>1, <2>2, <2>3, <2>4 DEF TypeOK
<1>7. ASSUME NEW w \in Workers, NEW s \in SIDs, ConnectRefused(w, s) PROVE TypeOK'
  <2>1. TableType'
    BY <1>1, <1>7 DEF TypeOK, TableType, table, ConnectRefused, Free, At
  <2>2. MarkType'
    BY <1>1, <1>7 DEF TypeOK, MarkType, marks, socket, ConnectRefused, Free, At, Mark, Stored
  <2>3. RequestType'
    BY <1>1, <1>7 DEF TypeOK, RequestType, PC, req, ConnectRefused, Free, At
  <2>4. SubjectType'
    BY <1>1, <1>7 DEF TypeOK, SubjectType, RequestType, PC, req, ConnectRefused, Free, At
  <2>5. QED
    BY <2>1, <2>2, <2>3, <2>4 DEF TypeOK
<1>8. ASSUME NEW w \in Workers, NEW s \in SIDs, Refuse(w, s) PROVE TypeOK'
  <2>1. TableType'
    BY <1>1, <1>8 DEF TypeOK, TableType, table, Refuse, At
  <2>2. MarkType'
    BY <1>1, <1>8 DEF TypeOK, MarkType, marks, socket, Refuse, At
  <2>3. RequestType'
    BY <1>1, <1>8 DEF TypeOK, RequestType, PC, req, Refuse, At
  <2>4. SubjectType'
    BY <1>1, <1>8 DEF TypeOK, SubjectType, RequestType, PC, req, Refuse, At
  <2>5. QED
    BY <2>1, <2>2, <2>3, <2>4 DEF TypeOK
<1>9. ASSUME NEW w \in Workers, Ban(w) PROVE TypeOK'
  <2>1. TableType'
    BY <1>1, <1>9 DEF TypeOK, TableType, table, Ban, Free, Arrive, At
  <2>2. MarkType'
    BY <1>1, <1>9 DEF TypeOK, MarkType, marks, socket, Ban, Free, Arrive, At
  <2>3. RequestType'
    BY <1>1, <1>9 DEF TypeOK, RequestType, PC, req, Ban, Free, Arrive, At
  <2>4. SubjectType'
    BY <1>1, <1>9 DEF TypeOK, SubjectType, RequestType, PC, req, Ban, Free, Arrive, At
  <2>5. QED
    BY <2>1, <2>2, <2>3, <2>4 DEF TypeOK
<1>10. ASSUME NEW w \in Workers, Unban(w) PROVE TypeOK'
  <2>1. TableType'
    BY <1>1, <1>10 DEF TypeOK, TableType, table, Unban, Free, At
  <2>2. MarkType'
    BY <1>1, <1>10 DEF TypeOK, MarkType, marks, socket, Unban, Free, At
  <2>3. RequestType'
    BY <1>1, <1>10 DEF TypeOK, RequestType, PC, req, Unban, Free, At
  <2>4. SubjectType'
    BY <1>1, <1>10 DEF TypeOK, SubjectType, RequestType, PC, req, Unban, Free, At
  <2>5. QED
    BY <2>1, <2>2, <2>3, <2>4 DEF TypeOK
<1>11. ASSUME NEW w \in Workers, ResetPassword(w) PROVE TypeOK'
  <2>1. TableType'
    BY <1>1, <1>11 DEF TypeOK, TableType, table, ResetPassword, Free, Arrive, At
  <2>2. MarkType'
    BY <1>1, <1>11 DEF TypeOK, MarkType, marks, socket, ResetPassword, Free, Arrive, At
  <2>3. RequestType'
    BY <1>1, <1>11 DEF TypeOK, RequestType, PC, req, ResetPassword, Free, Arrive, At
  <2>4. SubjectType'
    BY <1>1, <1>11 DEF TypeOK, SubjectType, RequestType, PC, req, ResetPassword, Free, Arrive, At
  <2>5. QED
    BY <2>1, <2>2, <2>3, <2>4 DEF TypeOK
<1>12. ASSUME NEW w \in Workers, LoginSelect(w) PROVE TypeOK'
  <2>1. TableType'
    BY <1>1, <1>12 DEF TypeOK, TableType, table, LoginSelect, At, Live
  <2>2. MarkType'
    BY <1>1, <1>12 DEF TypeOK, MarkType, marks, socket, LoginSelect, At
  <2>3. RequestType'
    BY <1>1, <1>12 DEF TypeOK, RequestType, PC, req, LoginSelect, At, Live
  <2>4. SubjectType'
    BY <1>1, <1>12 DEF TypeOK, SubjectType, RequestType, PC, req, LoginSelect, At
  <2>5. QED
    BY <2>1, <2>2, <2>3, <2>4 DEF TypeOK
<1>13. ASSUME NEW w \in Workers, LoginUpdate(w) PROVE TypeOK'
  <2>1. TableType'
    BY <1>1, <1>13 DEF TypeOK, TableType, table, LoginUpdate, At, Revoke, Goto
  <2>2. MarkType'
    BY <1>1, <1>13 DEF TypeOK, MarkType, marks, socket, LoginUpdate, At, Goto
  <2>3. RequestType'
    BY <1>1, <1>13 DEF TypeOK, RequestType, PC, req, LoginUpdate, At, Goto
  <2>4. SubjectType'
    BY <1>1, <1>13 DEF TypeOK, SubjectType, RequestType, PC, req, LoginUpdate, At, Goto
  <2>5. QED
    BY <2>1, <2>2, <2>3, <2>4 DEF TypeOK
<1>14. ASSUME NEW w \in Workers, LoginKick(w) PROVE TypeOK'
  <2>1. TableType'
    BY <1>1, <1>14 DEF TypeOK, TableType, table, LoginKick, At, KickRevoked, Goto
  <2>2. MarkType'
    BY <1>1, <1>14 DEF TypeOK, MarkType, RequestType, marks, socket, LoginKick, At, KickRevoked, Kick, Mark, Stored, Reached, Goto
  <2>3. RequestType'
    BY <1>1, <1>14 DEF TypeOK, RequestType, PC, req, LoginKick, At, KickRevoked, Goto
  <2>4. SubjectType'
    BY <1>1, <1>14 DEF TypeOK, SubjectType, RequestType, PC, req, LoginKick, At, KickRevoked, Goto
  <2>5. QED
    BY <2>1, <2>2, <2>3, <2>4 DEF TypeOK
<1>15. ASSUME NEW w \in Workers, LoginInsert(w) PROVE TypeOK'
  <2>1. TableType'
    BY <1>1, <1>15 DEF TypeOK, TableType, RequestType, SubjectType, table, LoginInsert, At, Issue, Finish
  <2>2. MarkType'
    BY <1>1, <1>15 DEF TypeOK, MarkType, RequestType, marks, socket, LoginInsert, At, Finish
  <2>3. RequestType'
    BY <1>1, <1>15 DEF TypeOK, RequestType, PC, req, LoginInsert, At, Finish
  <2>4. SubjectType'
    BY <1>1, <1>15 DEF TypeOK, SubjectType, RequestType, PC, req, LoginInsert, At, Finish
  <2>5. QED
    BY <2>1, <2>2, <2>3, <2>4 DEF TypeOK
<1>16. ASSUME NEW w \in Workers, RefreshReuse(w) PROVE TypeOK'
  <2>1. TableType'
    BY <1>1, <1>16 DEF TypeOK, TableType, table, RefreshReuse, At, Revoke, Finish
  <2>2. MarkType'
    BY <1>1, <1>16 DEF TypeOK, MarkType, marks, socket, RefreshReuse, At, Finish
  <2>3. RequestType'
    BY <1>1, <1>16 DEF TypeOK, RequestType, PC, req, RefreshReuse, At, Finish
  <2>4. SubjectType'
    BY <1>1, <1>16 DEF TypeOK, SubjectType, RequestType, PC, req, RefreshReuse, At, Finish
  <2>5. QED
    BY <2>1, <2>2, <2>3, <2>4 DEF TypeOK
<1>17. ASSUME NEW w \in Workers, RefreshUser(w) PROVE TypeOK'
  <2>1. TableType'
    BY <1>1, <1>17 DEF TypeOK, TableType, table, RefreshUser, At, Finish, Goto
  <2>2. MarkType'
    BY <1>1, <1>17 DEF TypeOK, MarkType, marks, socket, RefreshUser, At, Finish, Goto
  <2>3. RequestType'
    BY <1>1, <1>17 DEF TypeOK, RequestType, PC, req, RefreshUser, At, Finish, Goto
  <2>4. SubjectType'
    BY <1>1, <1>17 DEF TypeOK, SubjectType, RequestType, PC, req, RefreshUser, At, Finish, Goto
  <2>5. QED
    BY <2>1, <2>2, <2>3, <2>4 DEF TypeOK
<1>18. ASSUME NEW w \in Workers, RefreshInsert(w) PROVE TypeOK'
  <2>1. TableType'
    BY <1>1, <1>18 DEF TypeOK, TableType, RequestType, SubjectType, table, RefreshInsert, At, Issue, Goto, Finish
  <2>2. MarkType'
    BY <1>1, <1>18 DEF TypeOK, MarkType, marks, socket, RefreshInsert, At, Goto, Finish
  <2>3. RequestType'
    BY <1>1, <1>18 DEF TypeOK, RequestType, PC, req, RefreshInsert, At, Goto, Finish
  <2>4. SubjectType'
    BY <1>1, <1>18 DEF TypeOK, SubjectType, RequestType, PC, req, RefreshInsert, At, Goto, Finish
  <2>5. QED
    BY <2>1, <2>2, <2>3, <2>4 DEF TypeOK
<1>19. ASSUME NEW w \in Workers, RefreshRetire(w) PROVE TypeOK'
  <2>1. TableType'
    BY <1>1, <1>19 DEF TypeOK, TableType, table, RefreshRetire, At, Revoke, Finish
  <2>2. MarkType'
    BY <1>1, <1>19 DEF TypeOK, MarkType, marks, socket, RefreshRetire, At, Finish
  <2>3. RequestType'
    BY <1>1, <1>19 DEF TypeOK, RequestType, PC, req, RefreshRetire, At, Finish
  <2>4. SubjectType'
    BY <1>1, <1>19 DEF TypeOK, SubjectType, RequestType, PC, req, RefreshRetire, At, Finish
  <2>5. QED
    BY <2>1, <2>2, <2>3, <2>4 DEF TypeOK
<1>20. ASSUME NEW w \in Workers, LogoutUpdate(w) PROVE TypeOK'
  <2>1. TableType'
    BY <1>1, <1>20 DEF TypeOK, TableType, table, LogoutUpdate, At, Revoke
  <2>2. MarkType'
    BY <1>1, <1>20 DEF TypeOK, MarkType, marks, socket, LogoutUpdate, At
  <2>3. RequestType'
    BY <1>1, <1>20 DEF TypeOK, RequestType, PC, SubjectType, At, req, LogoutUpdate
  <2>4. SubjectType'
    BY <1>1, <1>20 DEF TypeOK, SubjectType, RequestType, PC, req, LogoutUpdate, At
  <2>5. QED
    BY <2>1, <2>2, <2>3, <2>4 DEF TypeOK
<1>21. ASSUME NEW w \in Workers, KickAndReply(w) PROVE TypeOK'
  <2>1. TableType'
    BY <1>1, <1>21 DEF TypeOK, TableType, table, KickAndReply, At, KickRevoked, Finish
  <2>2. MarkType'
    BY <1>1, <1>21 DEF TypeOK, MarkType, RequestType, marks, socket, KickAndReply, At, KickRevoked, Kick, Mark, Stored, Reached, Finish
  <2>3. RequestType'
    BY <1>1, <1>21 DEF TypeOK, RequestType, PC, req, KickAndReply, At, KickRevoked, Finish
  <2>4. SubjectType'
    BY <1>1, <1>21 DEF TypeOK, SubjectType, RequestType, PC, req, KickAndReply, At, KickRevoked, Finish
  <2>5. QED
    BY <2>1, <2>2, <2>3, <2>4 DEF TypeOK
<1>22. ASSUME NEW w \in Workers, RevokeAllSelect(w) PROVE TypeOK'
  <2>1. TableType'
    BY <1>1, <1>22 DEF TypeOK, TableType, table, RevokeAllSelect, At, Live
  <2>2. MarkType'
    BY <1>1, <1>22 DEF TypeOK, MarkType, marks, socket, RevokeAllSelect, At
  <2>3. RequestType'
    BY <1>1, <1>22 DEF TypeOK, RequestType, PC, req, RevokeAllSelect, At, Live
  <2>4. SubjectType'
    BY <1>1, <1>22 DEF TypeOK, SubjectType, RequestType, PC, req, RevokeAllSelect, At
  <2>5. QED
    BY <2>1, <2>2, <2>3, <2>4 DEF TypeOK
<1>23. ASSUME NEW w \in Workers, RevokeAllUpdate(w) PROVE TypeOK'
  <2>1. TableType'
    BY <1>1, <1>23 DEF TypeOK, TableType, table, RevokeAllUpdate, At, Revoke, Goto
  <2>2. MarkType'
    BY <1>1, <1>23 DEF TypeOK, MarkType, marks, socket, RevokeAllUpdate, At, Goto
  <2>3. RequestType'
    BY <1>1, <1>23 DEF TypeOK, RequestType, PC, req, RevokeAllUpdate, At, Goto
  <2>4. SubjectType'
    BY <1>1, <1>23 DEF TypeOK, SubjectType, RequestType, PC, req, RevokeAllUpdate, At, Goto
  <2>5. QED
    BY <2>1, <2>2, <2>3, <2>4 DEF TypeOK
<1>24. ASSUME NEW w \in Workers, Register(w) PROVE TypeOK'
  <2>1. TableType'
    BY <1>1, <1>24 DEF TypeOK, TableType, table, Register, At, Finish
  <2>2. MarkType'
    BY <1>1, <1>24 DEF TypeOK, MarkType, RequestType, SubjectType, marks, socket, Register, At, Finish
  <2>3. RequestType'
    BY <1>1, <1>24 DEF TypeOK, RequestType, PC, req, Register, At, Finish
  <2>4. SubjectType'
    BY <1>1, <1>24 DEF TypeOK, SubjectType, RequestType, PC, req, Register, At, Finish
  <2>5. QED
    BY <2>1, <2>2, <2>3, <2>4 DEF TypeOK
<1>25. ASSUME NEW w \in Workers, Cancel(w) PROVE TypeOK'
  <2>1. TableType'
    BY <1>1, <1>25 DEF TypeOK, TableType, table, Cancel, At
  <2>2. MarkType'
    BY <1>1, <1>25 DEF TypeOK, MarkType, marks, socket, Cancel, At
  <2>3. RequestType'
    BY <1>1, <1>25 DEF TypeOK, RequestType, PC, req, Cancel, At
  <2>4. SubjectType'
    BY <1>1, <1>25 DEF TypeOK, SubjectType, RequestType, PC, req, Cancel, At
  <2>5. QED
    BY <2>1, <2>2, <2>3, <2>4 DEF TypeOK
<1>26. ASSUME NEW p \in Procs, NEW s \in SIDs, Disconnect(p, s) PROVE TypeOK'
  <2>1. TableType'
    BY <1>1, <1>26 DEF TypeOK, TableType, table, Disconnect
  <2>2. MarkType'
    BY <1>1, <1>26 DEF TypeOK, MarkType, marks, socket, Disconnect
  <2>3. RequestType'
    BY <1>1, <1>26 DEF TypeOK, RequestType, PC, req, Disconnect
  <2>4. SubjectType'
    BY <1>1, <1>26 DEF TypeOK, SubjectType, RequestType, PC, req, Disconnect
  <2>5. QED
    BY <2>1, <2>2, <2>3, <2>4 DEF TypeOK
<1>27. ASSUME NEW p \in Procs, NEW s \in SIDs, DeliverKick(p, s) PROVE TypeOK'
  <2>1. TableType'
    BY <1>1, <1>27 DEF TypeOK, TableType, table, DeliverKick
  <2>2. MarkType'
    BY <1>1, <1>27 DEF TypeOK, MarkType, marks, socket, DeliverKick
  <2>3. RequestType'
    BY <1>1, <1>27 DEF TypeOK, RequestType, PC, req, DeliverKick
  <2>4. SubjectType'
    BY <1>1, <1>27 DEF TypeOK, SubjectType, RequestType, PC, req, DeliverKick
  <2>5. QED
    BY <2>1, <2>2, <2>3, <2>4 DEF TypeOK
<1>28. ASSUME NEW p \in Procs, Restart(p) PROVE TypeOK'
  <2>1. TableType'
    BY <1>1, <1>28 DEF TypeOK, TableType, table, Restart
  <2>2. MarkType'
    BY <1>1, <1>28 DEF TypeOK, MarkType, marks, socket, Restart
  <2>3. RequestType'
    BY <1>1, <1>28 DEF TypeOK, RequestType, PC, req, Restart
  <2>4. SubjectType'
    BY <1>1, <1>28 DEF TypeOK, SubjectType, RequestType, PC, req, Restart
  <2>5. QED
    BY <2>1, <2>2, <2>3, <2>4 DEF TypeOK
<1>29. CASE UNCHANGED vars
  BY <1>1, <1>29 DEF TypeOK, TableType, MarkType, RequestType, SubjectType, PC, vars
<1>30. QED
  BY <1>1, <1>2, <1>3, <1>4, <1>5, <1>6, <1>7, <1>8, <1>9, <1>10, <1>11, <1>12, <1>13, <1>14, <1>15, <1>16, <1>17, <1>18, <1>19, <1>20, <1>21, <1>22, <1>23, <1>24, <1>25, <1>26, <1>27, <1>28, <1>29 DEF Next, Arrival, Serve

(* Type correctness of the session handlers: every variable keeps its      *)
(* type.                                                                   *)
THEOREM TypeCorrect == Spec => []TypeOK
<1>1. Init => TypeOK
  BY TypeInit
<1>2. TypeOK /\ [Next]_vars => TypeOK'
  BY TypeStep
<1>3. QED
  BY <1>1, <1>2, PTL DEF Spec

-----------------------------------------------------------------------------
(* What a login relies on holds at first: nothing is acknowledged.         *)
LEMMA MarkedInit == Init => MarkedBeforeReply
  BY DEF Init, MarkedBeforeReply, Marked, At

(* Every step keeps it.  Only KickRevoked puts a request in the state from *)
(* which its sessions are acknowledged, and it has marked them in the      *)
(* memory of its process, and in Redis unless they are recorded as lost.   *)
LEMMA MarkedStep == TypeOK /\ MarkedBeforeReply /\ [Next]_vars => MarkedBeforeReply'
<1>1. SUFFICES ASSUME TypeOK, MarkedBeforeReply, [Next]_vars PROVE MarkedBeforeReply'
  OBVIOUS
<1> USE SessionAssumption
<1>2. ASSUME NEW w \in Workers, NEW t \in Types, Login(w, t) PROVE MarkedBeforeReply'
  BY <1>1, <1>2 DEF TypeOK, MarkType, RequestType, MarkedBeforeReply, Marked, PC, At, table, marks, socket, req, Login, Free, Arrive
<1>3. ASSUME NEW w \in Workers, NEW s \in SIDs, Refresh(w, s) PROVE MarkedBeforeReply'
  BY <1>1, <1>3 DEF TypeOK, MarkType, RequestType, MarkedBeforeReply, Marked, PC, At, table, marks, socket, req, Refresh, Free, Arrive
<1>4. ASSUME NEW w \in Workers, NEW s \in SIDs, Logout(w, s) PROVE MarkedBeforeReply'
  BY <1>1, <1>4 DEF TypeOK, MarkType, RequestType, MarkedBeforeReply, Marked, PC, At, table, marks, socket, req, Logout, Free, Arrive
<1>5. ASSUME NEW w \in Workers, NEW s \in SIDs, RevokeOne(w, s) PROVE MarkedBeforeReply'
  BY <1>1, <1>5 DEF TypeOK, MarkType, RequestType, MarkedBeforeReply, Marked, PC, At, table, marks, socket, req, RevokeOne, Free
<1>6. ASSUME NEW w \in Workers, NEW s \in SIDs, Connect(w, s) PROVE MarkedBeforeReply'
  BY <1>1, <1>6 DEF TypeOK, MarkType, RequestType, MarkedBeforeReply, Marked, PC, At, table, marks, socket, req, Connect, Free, Arrive
<1>7. ASSUME NEW w \in Workers, NEW s \in SIDs, ConnectRefused(w, s) PROVE MarkedBeforeReply'
  BY <1>1, <1>7 DEF TypeOK, MarkType, RequestType, MarkedBeforeReply, Marked, PC, At, table, marks, socket, req, ConnectRefused, Free, Mark, Stored
<1>8. ASSUME NEW w \in Workers, NEW s \in SIDs, Refuse(w, s) PROVE MarkedBeforeReply'
  BY <1>1, <1>8 DEF TypeOK, MarkType, RequestType, MarkedBeforeReply, Marked, PC, At, table, marks, socket, req, Refuse
<1>9. ASSUME NEW w \in Workers, Ban(w) PROVE MarkedBeforeReply'
  BY <1>1, <1>9 DEF TypeOK, MarkType, RequestType, MarkedBeforeReply, Marked, PC, At, table, marks, socket, req, Ban, Free, Arrive
<1>10. ASSUME NEW w \in Workers, Unban(w) PROVE MarkedBeforeReply'
  BY <1>1, <1>10 DEF TypeOK, MarkType, RequestType, MarkedBeforeReply, Marked, PC, At, table, marks, socket, req, Unban, Free
<1>11. ASSUME NEW w \in Workers, ResetPassword(w) PROVE MarkedBeforeReply'
  BY <1>1, <1>11 DEF TypeOK, MarkType, RequestType, MarkedBeforeReply, Marked, PC, At, table, marks, socket, req, ResetPassword, Free, Arrive
<1>12. ASSUME NEW w \in Workers, LoginSelect(w) PROVE MarkedBeforeReply'
  BY <1>1, <1>12 DEF TypeOK, MarkType, RequestType, MarkedBeforeReply, Marked, PC, At, table, marks, socket, req, LoginSelect, Live
<1>13. ASSUME NEW w \in Workers, LoginUpdate(w) PROVE MarkedBeforeReply'
  BY <1>1, <1>13 DEF TypeOK, MarkType, RequestType, MarkedBeforeReply, Marked, PC, At, table, marks, socket, req, LoginUpdate, Revoke, Goto
<1>14. ASSUME NEW w \in Workers, LoginKick(w) PROVE MarkedBeforeReply'
  BY <1>1, <1>14 DEF TypeOK, MarkType, RequestType, MarkedBeforeReply, Marked, PC, At, table, marks, socket, req, LoginKick, KickRevoked, Kick, Mark, Stored, Reached, Goto
<1>15. ASSUME NEW w \in Workers, LoginInsert(w) PROVE MarkedBeforeReply'
  BY <1>1, <1>15 DEF TypeOK, MarkType, RequestType, MarkedBeforeReply, Marked, PC, At, table, marks, socket, req, LoginInsert, Issue, Finish
<1>16. ASSUME NEW w \in Workers, RefreshReuse(w) PROVE MarkedBeforeReply'
  BY <1>1, <1>16 DEF TypeOK, MarkType, RequestType, MarkedBeforeReply, Marked, PC, At, table, marks, socket, req, RefreshReuse, Revoke, Finish
<1>17. ASSUME NEW w \in Workers, RefreshUser(w) PROVE MarkedBeforeReply'
  BY <1>1, <1>17 DEF TypeOK, MarkType, RequestType, MarkedBeforeReply, Marked, PC, At, table, marks, socket, req, RefreshUser, Finish, Goto
<1>18. ASSUME NEW w \in Workers, RefreshInsert(w) PROVE MarkedBeforeReply'
  BY <1>1, <1>18 DEF TypeOK, MarkType, RequestType, MarkedBeforeReply, Marked, PC, At, table, marks, socket, req, RefreshInsert, Issue, Goto, Finish
<1>19. ASSUME NEW w \in Workers, RefreshRetire(w) PROVE MarkedBeforeReply'
  BY <1>1, <1>19 DEF TypeOK, MarkType, RequestType, MarkedBeforeReply, Marked, PC, At, table, marks, socket, req, RefreshRetire, Revoke, Finish
<1>20. ASSUME NEW w \in Workers, LogoutUpdate(w) PROVE MarkedBeforeReply'
  BY <1>1, <1>20 DEF TypeOK, MarkType, RequestType, MarkedBeforeReply, Marked, PC, At, table, marks, socket, req, LogoutUpdate, Revoke
<1>21. ASSUME NEW w \in Workers, KickAndReply(w) PROVE MarkedBeforeReply'
  BY <1>1, <1>21 DEF TypeOK, MarkType, RequestType, MarkedBeforeReply, Marked, PC, At, table, marks, socket, req, KickAndReply, KickRevoked, Kick, Mark, Stored, Reached, Finish
<1>22. ASSUME NEW w \in Workers, RevokeAllSelect(w) PROVE MarkedBeforeReply'
  BY <1>1, <1>22 DEF TypeOK, MarkType, RequestType, MarkedBeforeReply, Marked, PC, At, table, marks, socket, req, RevokeAllSelect, Live
<1>23. ASSUME NEW w \in Workers, RevokeAllUpdate(w) PROVE MarkedBeforeReply'
  BY <1>1, <1>23 DEF TypeOK, MarkType, RequestType, MarkedBeforeReply, Marked, PC, At, table, marks, socket, req, RevokeAllUpdate, Revoke, Goto
<1>24. ASSUME NEW w \in Workers, Register(w) PROVE MarkedBeforeReply'
  BY <1>1, <1>24 DEF TypeOK, MarkType, RequestType, MarkedBeforeReply, Marked, PC, At, table, marks, socket, req, Register, Finish
<1>25. ASSUME NEW w \in Workers, Cancel(w) PROVE MarkedBeforeReply'
  BY <1>1, <1>25 DEF TypeOK, MarkType, RequestType, MarkedBeforeReply, Marked, PC, At, table, marks, socket, req, Cancel
<1>26. ASSUME NEW p \in Procs, NEW s \in SIDs, Disconnect(p, s) PROVE MarkedBeforeReply'
  BY <1>1, <1>26 DEF TypeOK, MarkType, RequestType, MarkedBeforeReply, Marked, PC, At, table, marks, socket, req, Disconnect
<1>27. ASSUME NEW p \in Procs, NEW s \in SIDs, DeliverKick(p, s) PROVE MarkedBeforeReply'
  BY <1>1, <1>27 DEF TypeOK, MarkType, RequestType, MarkedBeforeReply, Marked, PC, At, table, marks, socket, req, DeliverKick
<1>28. ASSUME NEW p \in Procs, Restart(p) PROVE MarkedBeforeReply'
  BY <1>1, <1>28 DEF TypeOK, MarkType, RequestType, MarkedBeforeReply, Marked, PC, At, table, marks, socket, req, Restart
<1>29. CASE UNCHANGED vars
  BY <1>1, <1>29 DEF TypeOK, MarkType, RequestType, MarkedBeforeReply, Marked, PC, At, vars
<1>30. QED
  BY <1>1, <1>2, <1>3, <1>4, <1>5, <1>6, <1>7, <1>8, <1>9, <1>10, <1>11, <1>12, <1>13, <1>14, <1>15, <1>16, <1>17, <1>18, <1>19, <1>20, <1>21, <1>22, <1>23, <1>24, <1>25, <1>26, <1>27, <1>28, <1>29 DEF Next, Arrival, Serve

(* The sessions that a login reports as replaced, and those of any other   *)
(* acknowledged sign-out, are marked before the reply: in Redis unless it  *)
(* has not stored the mark, and in the memory of the process as long as no *)
(* process restarts.                                                       *)
THEOREM MarkedFirst == Spec => []MarkedBeforeReply
<1>1. Init => MarkedBeforeReply
  BY MarkedInit
<1>2. TypeOK /\ MarkedBeforeReply /\ [Next]_vars => MarkedBeforeReply'
  BY MarkedStep
<1>3. QED
  BY <1>1, <1>2, TypeCorrect, PTL DEF Spec

(* A session whose end has been acknowledged (logout, revocation, ban,     *)
(* replacement by a login) is refused from then on: by every process that  *)
(* can read Redis, restarts included, unless Redis has not stored its      *)
(* mark; and, whatever Redis does, by the process that acknowledged it, as *)
(* long as no process restarts.                                            *)
THEOREM SignOutHolds == Spec => []AcknowledgedStaysOut
<1>1. MarkedBeforeReply => AcknowledgedStaysOut
  BY DEF MarkedBeforeReply, Marked, AcknowledgedStaysOut, StaysOut, Accepts
<1>2. QED
  BY <1>1, MarkedFirst, PTL

-----------------------------------------------------------------------------
(* One request at a time, without cancelled contexts and restarts.  What   *)
(* holds between requests is kept through them by what each of them relies *)
(* on, one part for each property.                                         *)
Calm == Serial /\ ~Cancels /\ MaxRestarts = 0

(* No request is cut off, and there is one at a time.                      *)
Alone ==
  /\ \A w \in Workers : alive[w]
  /\ \A v, w \in Workers : ~At(v, "idle") /\ ~At(w, "idle") => v = w

(* Two live sessions of a type are the one a refresh is about to retire    *)
(* and its successor; a login has made room for its session.               *)
Pairs ==
  /\ \A w \in Workers : pc[w] \in {"r_user", "r_insert", "r_retire"} => row[sid[w]] = "live"
  /\ \A w \in Workers : pc[w] \in {"l_kick", "l_insert"} =>
       \A s \in SIDs : row[s] = "live" => type[s] # dtype[w]
  /\ \A s, t \in SIDs : row[s] = "live" /\ row[t] = "live" /\ type[s] = type[t] =>
       s = t \/ \E w \in Workers : At(w, "r_retire") /\ sid[w] \in {s, t}

(* A session with an heir is revoked, or about to be retired.              *)
Once ==
  \A s \in SIDs : heirs[s] # {} =>
    /\ \E t \in SIDs : heirs[s] = {t}
    /\ row[s] = "revoked" \/ \E w \in Workers : At(w, "r_retire") /\ sid[w] = s

(* A socket of a session that p has signed out is on another process, and  *)
(* about to be closed unless the kick has not reached that process; and so *)
(* are those of the sessions a request has kicked before it replies.       *)
Doomed(p, s) ==
  \A q \in Procs : <<q, s>> \in ws => q # p /\ <<q, s>> \in bus \cup missed
Cut ==
  /\ \A p \in Procs, s \in SIDs : <<p, s>> \in acked => row[s] = "revoked" /\ Doomed(p, s)
  /\ \A w \in Workers :
       /\ At(w, "w_register") => row[sid[w]] = "live"
       /\ At(w, "o_update") => row[sid[w]] # "none"
       /\ pc[w] \in {"l_update", "b_update"} => \A s \in ids[w] : row[s] # "none"
       /\ At(w, "l_update") => \A s \in ids[w] : type[s] = dtype[w]
       /\ pc[w] \in {"l_kick", "l_insert", "kick"} => \A s \in ids[w] : row[s] = "revoked"
       /\ At(w, "l_insert") => \A s \in ids[w] : Doomed(Home[w], s)

(* A ban ends the sessions there are, and nothing under way adds one.      *)
Out ==
  /\ banned => Live = {} \/ \E w \in Workers : pc[w] \in {"b_select", "b_update"}
  /\ \A w \in Workers :
       pc[w] \in {"l_select", "l_update", "l_kick", "l_insert", "r_insert", "r_retire"} => ~banned

(* No request begins before the one under way has ended.                   *)
LEMMA AloneStep ==
  ASSUME Calm, TypeOK, Alone, [Next]_vars
  PROVE  Alone'
<1>1. ASSUME NEW w \in Workers, NEW t \in Types, Login(w, t) PROVE Alone'
  BY <1>1 DEF Calm, TypeOK, Alone, RequestType, PC, At, table, marks, socket, req, Login, Free,
     Arrive
<1>2. ASSUME NEW w \in Workers, NEW s \in SIDs, Refresh(w, s) PROVE Alone'
  BY <1>2 DEF Calm, TypeOK, Alone, RequestType, PC, At, table, marks, socket, req, Refresh, Free,
     Arrive
<1>3. ASSUME NEW w \in Workers, NEW s \in SIDs, Logout(w, s) PROVE Alone'
  BY <1>3 DEF Calm, TypeOK, Alone, RequestType, PC, At, table, marks, socket, req, Logout, Free,
     Arrive
<1>4. ASSUME NEW w \in Workers, NEW s \in SIDs, RevokeOne(w, s) PROVE Alone'
  BY <1>4 DEF Calm, TypeOK, Alone, RequestType, PC, At, table, marks, socket, req, RevokeOne,
     Free
<1>5. ASSUME NEW w \in Workers, NEW s \in SIDs, Connect(w, s) PROVE Alone'
  BY <1>5 DEF Calm, TypeOK, Alone, RequestType, PC, At, table, marks, socket, req, Connect, Free,
     Arrive
<1>6. ASSUME NEW w \in Workers, NEW s \in SIDs, ConnectRefused(w, s) PROVE Alone'
  BY <1>6 DEF Calm, TypeOK, Alone, RequestType, PC, At, table, marks, socket, req,
     ConnectRefused, Free, Mark, Stored
<1>7. ASSUME NEW w \in Workers, NEW s \in SIDs, Refuse(w, s) PROVE Alone'
  BY <1>7 DEF Calm, TypeOK, Alone, RequestType, PC, At, table, marks, socket, req, Refuse
<1>8. ASSUME NEW w \in Workers, Ban(w) PROVE Alone'
  BY <1>8 DEF Calm, TypeOK, Alone, RequestType, PC, At, table, marks, socket, req, Ban, Free,
     Arrive
<1>9. ASSUME NEW w \in Workers, Unban(w) PROVE Alone'
  BY <1>9 DEF Calm, TypeOK, Alone, RequestType, PC, At, table, marks, socket, req, Unban, Free
<1>10. ASSUME NEW w \in Workers, ResetPassword(w) PROVE Alone'
  BY <1>10 DEF Calm, TypeOK, Alone, RequestType, PC, At, table, marks, socket, req,
     ResetPassword, Free, Arrive
<1>11. ASSUME NEW w \in Workers, LoginSelect(w) PROVE Alone'
  BY <1>11 DEF Calm, TypeOK, Alone, RequestType, PC, At, table, marks, socket, req, LoginSelect,
     Live
<1>12. ASSUME NEW w \in Workers, LoginUpdate(w) PROVE Alone'
  BY <1>12 DEF Calm, TypeOK, Alone, RequestType, PC, At, table, marks, socket, req, LoginUpdate,
     Revoke, Goto
<1>13. ASSUME NEW w \in Workers, LoginKick(w) PROVE Alone'
  BY <1>13 DEF Calm, TypeOK, Alone, RequestType, PC, At, table, marks, socket, req, LoginKick,
     KickRevoked, Kick, Mark, Stored, Reached, Goto
<1>14. ASSUME NEW w \in Workers, LoginInsert(w) PROVE Alone'
  BY <1>14 DEF Calm, TypeOK, Alone, RequestType, PC, At, table, marks, socket, req, LoginInsert,
     Issue, Finish
<1>15. ASSUME NEW w \in Workers, RefreshReuse(w) PROVE Alone'
  BY <1>15 DEF Calm, TypeOK, Alone, RequestType, PC, At, table, marks, socket, req, RefreshReuse,
     Revoke, Finish
<1>16. ASSUME NEW w \in Workers, RefreshUser(w) PROVE Alone'
  BY <1>16 DEF Calm, TypeOK, Alone, RequestType, PC, At, table, marks, socket, req, RefreshUser,
     Finish, Goto
<1>17. ASSUME NEW w \in Workers, RefreshInsert(w) PROVE Alone'
  BY <1>17 DEF Calm, TypeOK, Alone, RequestType, PC, At, table, marks, socket, req,
     RefreshInsert, Issue, Goto, Finish
<1>18. ASSUME NEW w \in Workers, RefreshRetire(w) PROVE Alone'
  BY <1>18 DEF Calm, TypeOK, Alone, RequestType, PC, At, table, marks, socket, req,
     RefreshRetire, Revoke, Finish
<1>19. ASSUME NEW w \in Workers, LogoutUpdate(w) PROVE Alone'
  BY <1>19 DEF Calm, TypeOK, Alone, RequestType, PC, At, table, marks, socket, req, LogoutUpdate,
     Revoke
<1>20. ASSUME NEW w \in Workers, KickAndReply(w) PROVE Alone'
  BY <1>20 DEF Calm, TypeOK, Alone, RequestType, PC, At, table, marks, socket, req, KickAndReply,
     KickRevoked, Kick, Mark, Stored, Reached, Finish
<1>21. ASSUME NEW w \in Workers, RevokeAllSelect(w) PROVE Alone'
  BY <1>21 DEF Calm, TypeOK, Alone, RequestType, PC, At, table, marks, socket, req,
     RevokeAllSelect, Live
<1>22. ASSUME NEW w \in Workers, RevokeAllUpdate(w) PROVE Alone'
  BY <1>22 DEF Calm, TypeOK, Alone, RequestType, PC, At, table, marks, socket, req,
     RevokeAllUpdate, Revoke, Goto
<1>23. ASSUME NEW w \in Workers, Register(w) PROVE Alone'
  BY <1>23 DEF Calm, TypeOK, Alone, RequestType, PC, At, table, marks, socket, req, Register,
     Finish
<1>24. ASSUME NEW p \in Procs, NEW s \in SIDs, Disconnect(p, s) PROVE Alone'
  BY <1>24 DEF Calm, TypeOK, Alone, RequestType, PC, At, table, marks, socket, req, Disconnect
<1>25. ASSUME NEW p \in Procs, NEW s \in SIDs, DeliverKick(p, s) PROVE Alone'
  BY <1>25 DEF Calm, TypeOK, Alone, RequestType, PC, At, table, marks, socket, req, DeliverKick
<1>26. ASSUME NEW w \in Workers, Cancel(w) PROVE Alone'
  BY <1>26 DEF Cancel, Calm
<1>27. ASSUME NEW p \in Procs, Restart(p) PROVE Alone'
  BY <1>27 DEF Restart, Calm, TypeOK, MarkType
<1>28. CASE UNCHANGED vars
  BY <1>28 DEF Alone, At, vars
<1>29. QED
  BY <1>1, <1>2, <1>3, <1>4, <1>5, <1>6, <1>7, <1>8, <1>9, <1>10, <1>11, <1>12, <1>13, <1>14,
     <1>15, <1>16, <1>17, <1>18, <1>19, <1>20, <1>21, <1>22, <1>23, <1>24, <1>25, <1>26, <1>27,
     <1>28 DEF Next, Arrival, Serve

(* Only a refresh and a login add a session.                               *)
LEMMA PairsStep ==
  ASSUME Calm, TypeOK, Alone, Pairs, [Next]_vars
  PROVE  Pairs'
<1>1. ASSUME NEW w \in Workers, NEW t \in Types, Login(w, t) PROVE Pairs'
  BY <1>1 DEF Calm, TypeOK, Alone, Pairs, TableType, RequestType, SubjectType, PC, At, table,
     marks, socket, req, Login, Free, Arrive
<1>2. ASSUME NEW w \in Workers, NEW s \in SIDs, Refresh(w, s) PROVE Pairs'
  BY <1>2 DEF Calm, TypeOK, Alone, Pairs, TableType, RequestType, SubjectType, PC, At, table,
     marks, socket, req, Refresh, Free, Arrive
<1>3. ASSUME NEW w \in Workers, NEW s \in SIDs, Logout(w, s) PROVE Pairs'
  BY <1>3 DEF Calm, TypeOK, Alone, Pairs, TableType, RequestType, SubjectType, PC, At, table,
     marks, socket, req, Logout, Free, Arrive
<1>4. ASSUME NEW w \in Workers, NEW s \in SIDs, RevokeOne(w, s) PROVE Pairs'
  BY <1>4 DEF Calm, TypeOK, Alone, Pairs, TableType, RequestType, SubjectType, PC, At, table,
     marks, socket, req, RevokeOne, Free
<1>5. ASSUME NEW w \in Workers, NEW s \in SIDs, Connect(w, s) PROVE Pairs'
  BY <1>5 DEF Calm, TypeOK, Alone, Pairs, TableType, RequestType, SubjectType, PC, At, table,
     marks, socket, req, Connect, Free, Arrive
<1>6. ASSUME NEW w \in Workers, NEW s \in SIDs, ConnectRefused(w, s) PROVE Pairs'
  BY <1>6 DEF Calm, TypeOK, Alone, Pairs, TableType, RequestType, SubjectType, PC, At, table,
     marks, socket, req, ConnectRefused, Free, Mark, Stored
<1>7. ASSUME NEW w \in Workers, NEW s \in SIDs, Refuse(w, s) PROVE Pairs'
  BY <1>7 DEF Calm, TypeOK, Alone, Pairs, TableType, RequestType, SubjectType, PC, At, table,
     marks, socket, req, Refuse
<1>8. ASSUME NEW w \in Workers, Ban(w) PROVE Pairs'
  BY <1>8 DEF Calm, TypeOK, Alone, Pairs, TableType, RequestType, SubjectType, PC, At, table,
     marks, socket, req, Ban, Free, Arrive
<1>9. ASSUME NEW w \in Workers, Unban(w) PROVE Pairs'
  BY <1>9 DEF Calm, TypeOK, Alone, Pairs, TableType, RequestType, SubjectType, PC, At, table,
     marks, socket, req, Unban, Free
<1>10. ASSUME NEW w \in Workers, ResetPassword(w) PROVE Pairs'
  BY <1>10 DEF Calm, TypeOK, Alone, Pairs, TableType, RequestType, SubjectType, PC, At, table,
     marks, socket, req, ResetPassword, Free, Arrive
<1>11. ASSUME NEW w \in Workers, LoginSelect(w) PROVE Pairs'
  BY <1>11 DEF Calm, TypeOK, Alone, Pairs, TableType, RequestType, SubjectType, PC, At, table,
     marks, socket, req, LoginSelect, Live
<1>12. ASSUME NEW w \in Workers, LoginUpdate(w) PROVE Pairs'
  BY <1>12 DEF Calm, TypeOK, Alone, Pairs, TableType, RequestType, SubjectType, PC, At, table,
     marks, socket, req, LoginUpdate, Revoke, Goto
<1>13. ASSUME NEW w \in Workers, LoginKick(w) PROVE Pairs'
  BY <1>13 DEF Calm, TypeOK, Alone, Pairs, TableType, RequestType, SubjectType, PC, At, table,
     marks, socket, req, LoginKick, KickRevoked, Kick, Mark, Stored, Reached, Goto
<1>14. ASSUME NEW w \in Workers, LoginInsert(w) PROVE Pairs'
  BY <1>14 DEF Calm, TypeOK, Alone, Pairs, TableType, RequestType, SubjectType, PC, At, table,
     marks, socket, req, LoginInsert, Issue, Finish
<1>15. ASSUME NEW w \in Workers, RefreshReuse(w) PROVE Pairs'
  BY <1>15 DEF Calm, TypeOK, Alone, Pairs, TableType, RequestType, SubjectType, PC, At, table,
     marks, socket, req, RefreshReuse, Revoke, Finish
<1>16. ASSUME NEW w \in Workers, RefreshUser(w) PROVE Pairs'
  BY <1>16 DEF Calm, TypeOK, Alone, Pairs, TableType, RequestType, SubjectType, PC, At, table,
     marks, socket, req, RefreshUser, Finish, Goto
<1>17. ASSUME NEW w \in Workers, RefreshInsert(w) PROVE Pairs'
  BY <1>17 DEF Calm, TypeOK, Alone, Pairs, TableType, RequestType, SubjectType, PC, At, table,
     marks, socket, req, RefreshInsert, Issue, Goto, Finish
<1>18. ASSUME NEW w \in Workers, RefreshRetire(w) PROVE Pairs'
  BY <1>18 DEF Calm, TypeOK, Alone, Pairs, TableType, RequestType, SubjectType, PC, At, table,
     marks, socket, req, RefreshRetire, Revoke, Finish
<1>19. ASSUME NEW w \in Workers, LogoutUpdate(w) PROVE Pairs'
  BY <1>19 DEF Calm, TypeOK, Alone, Pairs, TableType, RequestType, SubjectType, PC, At, table,
     marks, socket, req, LogoutUpdate, Revoke
<1>20. ASSUME NEW w \in Workers, KickAndReply(w) PROVE Pairs'
  BY <1>20 DEF Calm, TypeOK, Alone, Pairs, TableType, RequestType, SubjectType, PC, At, table,
     marks, socket, req, KickAndReply, KickRevoked, Kick, Mark, Stored, Reached, Finish
<1>21. ASSUME NEW w \in Workers, RevokeAllSelect(w) PROVE Pairs'
  BY <1>21 DEF Calm, TypeOK, Alone, Pairs, TableType, RequestType, SubjectType, PC, At, table,
     marks, socket, req, RevokeAllSelect, Live
<1>22. ASSUME NEW w \in Workers, RevokeAllUpdate(w) PROVE Pairs'
  BY <1>22 DEF Calm, TypeOK, Alone, Pairs, TableType, RequestType, SubjectType, PC, At, table,
     marks, socket, req, RevokeAllUpdate, Revoke, Goto
<1>23. ASSUME NEW w \in Workers, Register(w) PROVE Pairs'
  BY <1>23 DEF Calm, TypeOK, Alone, Pairs, TableType, RequestType, SubjectType, PC, At, table,
     marks, socket, req, Register, Finish
<1>24. ASSUME NEW p \in Procs, NEW s \in SIDs, Disconnect(p, s) PROVE Pairs'
  BY <1>24 DEF Calm, TypeOK, Alone, Pairs, TableType, RequestType, SubjectType, PC, At, table,
     marks, socket, req, Disconnect
<1>25. ASSUME NEW p \in Procs, NEW s \in SIDs, DeliverKick(p, s) PROVE Pairs'
  BY <1>25 DEF Calm, TypeOK, Alone, Pairs, TableType, RequestType, SubjectType, PC, At, table,
     marks, socket, req, DeliverKick
<1>26. ASSUME NEW w \in Workers, Cancel(w) PROVE Pairs'
  BY <1>26 DEF Cancel, Calm
<1>27. ASSUME NEW p \in Procs, Restart(p) PROVE Pairs'
  BY <1>27 DEF Restart, Calm, TypeOK, MarkType
<1>28. CASE UNCHANGED vars
  BY <1>28 DEF Alone, Pairs, At, vars
<1>29. QED
  BY <1>1, <1>2, <1>3, <1>4, <1>5, <1>6, <1>7, <1>8, <1>9, <1>10, <1>11, <1>12, <1>13, <1>14,
     <1>15, <1>16, <1>17, <1>18, <1>19, <1>20, <1>21, <1>22, <1>23, <1>24, <1>25, <1>26, <1>27,
     <1>28 DEF Next, Arrival, Serve

(* Only a refresh adds an heir.                                            *)
LEMMA OnceStep ==
  ASSUME Calm, TypeOK, Alone, Pairs, Once, [Next]_vars
  PROVE  Once'
<1>1. ASSUME NEW w \in Workers, NEW t \in Types, Login(w, t) PROVE Once'
  BY <1>1 DEF Calm, TypeOK, Alone, Pairs, Once, TableType, RequestType, SubjectType, PC, At,
     table, marks, socket, req, Login, Free, Arrive
<1>2. ASSUME NEW w \in Workers, NEW s \in SIDs, Refresh(w, s) PROVE Once'
  BY <1>2 DEF Calm, TypeOK, Alone, Pairs, Once, TableType, RequestType, SubjectType, PC, At,
     table, marks, socket, req, Refresh, Free, Arrive
<1>3. ASSUME NEW w \in Workers, NEW s \in SIDs, Logout(w, s) PROVE Once'
  BY <1>3 DEF Calm, TypeOK, Alone, Pairs, Once, TableType, RequestType, SubjectType, PC, At,
     table, marks, socket, req, Logout, Free, Arrive
<1>4. ASSUME NEW w \in Workers, NEW s \in SIDs, RevokeOne(w, s) PROVE Once'
  BY <1>4 DEF Calm, TypeOK, Alone, Pairs, Once, TableType, RequestType, SubjectType, PC, At,
     table, marks, socket, req, RevokeOne, Free
<1>5. ASSUME NEW w \in Workers, NEW s \in SIDs, Connect(w, s) PROVE Once'
  BY <1>5 DEF Calm, TypeOK, Alone, Pairs, Once, TableType, RequestType, SubjectType, PC, At,
     table, marks, socket, req, Connect, Free, Arrive
<1>6. ASSUME NEW w \in Workers, NEW s \in SIDs, ConnectRefused(w, s) PROVE Once'
  BY <1>6 DEF Calm, TypeOK, Alone, Pairs, Once, TableType, RequestType, SubjectType, PC, At,
     table, marks, socket, req, ConnectRefused, Free, Mark, Stored
<1>7. ASSUME NEW w \in Workers, NEW s \in SIDs, Refuse(w, s) PROVE Once'
  BY <1>7 DEF Calm, TypeOK, Alone, Pairs, Once, TableType, RequestType, SubjectType, PC, At,
     table, marks, socket, req, Refuse
<1>8. ASSUME NEW w \in Workers, Ban(w) PROVE Once'
  BY <1>8 DEF Calm, TypeOK, Alone, Pairs, Once, TableType, RequestType, SubjectType, PC, At,
     table, marks, socket, req, Ban, Free, Arrive
<1>9. ASSUME NEW w \in Workers, Unban(w) PROVE Once'
  BY <1>9 DEF Calm, TypeOK, Alone, Pairs, Once, TableType, RequestType, SubjectType, PC, At,
     table, marks, socket, req, Unban, Free
<1>10. ASSUME NEW w \in Workers, ResetPassword(w) PROVE Once'
  BY <1>10 DEF Calm, TypeOK, Alone, Pairs, Once, TableType, RequestType, SubjectType, PC, At,
     table, marks, socket, req, ResetPassword, Free, Arrive
<1>11. ASSUME NEW w \in Workers, LoginSelect(w) PROVE Once'
  BY <1>11 DEF Calm, TypeOK, Alone, Pairs, Once, TableType, RequestType, SubjectType, PC, At,
     table, marks, socket, req, LoginSelect, Live
<1>12. ASSUME NEW w \in Workers, LoginUpdate(w) PROVE Once'
  BY <1>12 DEF Calm, TypeOK, Alone, Pairs, Once, TableType, RequestType, SubjectType, PC, At,
     table, marks, socket, req, LoginUpdate, Revoke, Goto
<1>13. ASSUME NEW w \in Workers, LoginKick(w) PROVE Once'
  BY <1>13 DEF Calm, TypeOK, Alone, Pairs, Once, TableType, RequestType, SubjectType, PC, At,
     table, marks, socket, req, LoginKick, KickRevoked, Kick, Mark, Stored, Reached, Goto
<1>14. ASSUME NEW w \in Workers, LoginInsert(w) PROVE Once'
  BY <1>14 DEF Calm, TypeOK, Alone, Pairs, Once, TableType, RequestType, SubjectType, PC, At,
     table, marks, socket, req, LoginInsert, Issue, Finish
<1>15. ASSUME NEW w \in Workers, RefreshReuse(w) PROVE Once'
  BY <1>15 DEF Calm, TypeOK, Alone, Pairs, Once, TableType, RequestType, SubjectType, PC, At,
     table, marks, socket, req, RefreshReuse, Revoke, Finish
<1>16. ASSUME NEW w \in Workers, RefreshUser(w) PROVE Once'
  BY <1>16 DEF Calm, TypeOK, Alone, Pairs, Once, TableType, RequestType, SubjectType, PC, At,
     table, marks, socket, req, RefreshUser, Finish, Goto
<1>17. ASSUME NEW w \in Workers, RefreshInsert(w) PROVE Once'
  <2>1. At(w, "r_insert") /\ alive[w] /\ sid[w] \in SIDs /\ row[sid[w]] = "live"
    BY <1>17 DEF RefreshInsert, At, Alone, Pairs, TypeOK, SubjectType
  <2>2. PICK t \in SIDs : /\ row[t] = "none" /\ row' = [row EXCEPT ![t] = "live"]
                          /\ heirs' = [heirs EXCEPT ![sid[w]] = @ \cup {t}]
                          /\ pc' = [pc EXCEPT ![w] = "r_retire"] /\ sid' = sid
    BY <1>17, <2>1 DEF RefreshInsert, Issue, Goto
  <2>3. \A v \in Workers : ~At(v, "r_retire")
    BY <2>1 DEF Alone, At
  <2>4. heirs[sid[w]] = {} /\ heirs[t] = {}
    BY <2>1, <2>2, <2>3 DEF Once
  <2>5. heirs'[sid[w]] = {t} /\ At(w, "r_retire")'
    BY <2>1, <2>2, <2>4 DEF TypeOK, TableType, RequestType, At
  <2>6. ASSUME NEW s \in SIDs, s # sid[w], heirs'[s] # {}
        PROVE  row'[s] = "revoked" /\ \E r \in SIDs : heirs'[s] = {r}
    BY <2>2, <2>3, <2>4, <2>6 DEF Once, TypeOK, TableType
  <2>7. QED
    BY <2>2, <2>5, <2>6 DEF Once
<1>18. ASSUME NEW w \in Workers, RefreshRetire(w) PROVE Once'
  BY <1>18 DEF Calm, TypeOK, Alone, Pairs, Once, TableType, RequestType, SubjectType, PC, At,
     table, marks, socket, req, RefreshRetire, Revoke, Finish
<1>19. ASSUME NEW w \in Workers, LogoutUpdate(w) PROVE Once'
  BY <1>19 DEF Calm, TypeOK, Alone, Pairs, Once, TableType, RequestType, SubjectType, PC, At,
     table, marks, socket, req, LogoutUpdate, Revoke
<1>20. ASSUME NEW w \in Workers, KickAndReply(w) PROVE Once'
  BY <1>20 DEF Calm, TypeOK, Alone, Pairs, Once, TableType, RequestType, SubjectType, PC, At,
     table, marks, socket, req, KickAndReply, KickRevoked, Kick, Mark, Stored, Reached, Finish
<1>21. ASSUME NEW w \in Workers, RevokeAllSelect(w) PROVE Once'
  BY <1>21 DEF Calm, TypeOK, Alone, Pairs, Once, TableType, RequestType, SubjectType, PC, At,
     table, marks, socket, req, RevokeAllSelect, Live
<1>22. ASSUME NEW w \in Workers, RevokeAllUpdate(w) PROVE Once'
  BY <1>22 DEF Calm, TypeOK, Alone, Pairs, Once, TableType, RequestType, SubjectType, PC, At,
     table, marks, socket, req, RevokeAllUpdate, Revoke, Goto
<1>23. ASSUME NEW w \in Workers, Register(w) PROVE Once'
  BY <1>23 DEF Calm, TypeOK, Alone, Pairs, Once, TableType, RequestType, SubjectType, PC, At,
     table, marks, socket, req, Register, Finish
<1>24. ASSUME NEW p \in Procs, NEW s \in SIDs, Disconnect(p, s) PROVE Once'
  BY <1>24 DEF Calm, TypeOK, Alone, Pairs, Once, TableType, RequestType, SubjectType, PC, At,
     table, marks, socket, req, Disconnect
<1>25. ASSUME NEW p \in Procs, NEW s \in SIDs, DeliverKick(p, s) PROVE Once'
  BY <1>25 DEF Calm, TypeOK, Alone, Pairs, Once, TableType, RequestType, SubjectType, PC, At,
     table, marks, socket, req, DeliverKick
<1>26. ASSUME NEW w \in Workers, Cancel(w) PROVE Once'
  BY <1>26 DEF Cancel, Calm
<1>27. ASSUME NEW p \in Procs, Restart(p) PROVE Once'
  BY <1>27 DEF Restart, Calm, TypeOK, MarkType
<1>28. CASE UNCHANGED vars
  BY <1>28 DEF Alone, Pairs, Once, At, vars
<1>29. QED
  BY <1>1, <1>2, <1>3, <1>4, <1>5, <1>6, <1>7, <1>8, <1>9, <1>10, <1>11, <1>12, <1>13, <1>14,
     <1>15, <1>16, <1>17, <1>18, <1>19, <1>20, <1>21, <1>22, <1>23, <1>24, <1>25, <1>26, <1>27,
     <1>28 DEF Next, Arrival, Serve

(* A kick leaves to every socket it does not close a message that will.    *)
LEMMA CutStep ==
  ASSUME Calm, TypeOK, Alone, Cut, [Next]_vars
  PROVE  Cut'
<1>1. ASSUME NEW w \in Workers, NEW t \in Types, Login(w, t) PROVE Cut'
  BY <1>1 DEF Calm, TypeOK, Alone, Cut, Doomed, TableType, MarkType, RequestType, SubjectType,
     PC, At, table, marks, socket, req, Login, Free, Arrive
<1>2. ASSUME NEW w \in Workers, NEW s \in SIDs, Refresh(w, s) PROVE Cut'
  BY <1>2 DEF Calm, TypeOK, Alone, Cut, Doomed, TableType, MarkType, RequestType, SubjectType,
     PC, At, table, marks, socket, req, Refresh, Free, Arrive
<1>3. ASSUME NEW w \in Workers, NEW s \in SIDs, Logout(w, s) PROVE Cut'
  BY <1>3 DEF Calm, TypeOK, Alone, Cut, Doomed, TableType, MarkType, RequestType, SubjectType,
     PC, At, table, marks, socket, req, Logout, Free, Arrive
<1>4. ASSUME NEW w \in Workers, NEW s \in SIDs, RevokeOne(w, s) PROVE Cut'
  BY <1>4 DEF Calm, TypeOK, Alone, Cut, Doomed, TableType, MarkType, RequestType, SubjectType,
     PC, At, table, marks, socket, req, RevokeOne, Free
<1>5. ASSUME NEW w \in Workers, NEW s \in SIDs, Connect(w, s) PROVE Cut'
  BY <1>5 DEF Calm, TypeOK, Alone, Cut, Doomed, TableType, MarkType, RequestType, SubjectType,
     PC, At, table, marks, socket, req, Connect, Free, Arrive
<1>6. ASSUME NEW w \in Workers, NEW s \in SIDs, ConnectRefused(w, s) PROVE Cut'
  BY <1>6 DEF Calm, TypeOK, Alone, Cut, Doomed, TableType, MarkType, RequestType, SubjectType,
     PC, At, table, marks, socket, req, ConnectRefused, Free, Mark, Stored
<1>7. ASSUME NEW w \in Workers, NEW s \in SIDs, Refuse(w, s) PROVE Cut'
  BY <1>7 DEF Calm, TypeOK, Alone, Cut, Doomed, TableType, MarkType, RequestType, SubjectType,
     PC, At, table, marks, socket, req, Refuse
<1>8. ASSUME NEW w \in Workers, Ban(w) PROVE Cut'
  BY <1>8 DEF Calm, TypeOK, Alone, Cut, Doomed, TableType, MarkType, RequestType, SubjectType,
     PC, At, table, marks, socket, req, Ban, Free, Arrive
<1>9. ASSUME NEW w \in Workers, Unban(w) PROVE Cut'
  BY <1>9 DEF Calm, TypeOK, Alone, Cut, Doomed, TableType, MarkType, RequestType, SubjectType,
     PC, At, table, marks, socket, req, Unban, Free
<1>10. ASSUME NEW w \in Workers, ResetPassword(w) PROVE Cut'
  BY <1>10 DEF Calm, TypeOK, Alone, Cut, Doomed, TableType, MarkType, RequestType, SubjectType,
     PC, At, table, marks, socket, req, ResetPassword, Free, Arrive
<1>11. ASSUME NEW w \in Workers, LoginSelect(w) PROVE Cut'
  BY <1>11 DEF Calm, TypeOK, Alone, Cut, Doomed, TableType, MarkType, RequestType, SubjectType,
     PC, At, table, marks, socket, req, LoginSelect, Live
<1>12. ASSUME NEW w \in Workers, LoginUpdate(w) PROVE Cut'
  BY <1>12 DEF Calm, TypeOK, Alone, Cut, Doomed, TableType, MarkType, RequestType, SubjectType,
     PC, At, table, marks, socket, req, LoginUpdate, Revoke, Goto
<1>13. ASSUME NEW w \in Workers, LoginKick(w) PROVE Cut'
  BY <1>13 DEF Calm, TypeOK, Alone, Cut, Doomed, TableType, MarkType, RequestType, SubjectType,
     PC, At, table, marks, socket, req, LoginKick, KickRevoked, Kick, Mark, Stored, Reached, Goto
<1>14. ASSUME NEW w \in Workers, LoginInsert(w) PROVE Cut'
  BY <1>14 DEF Calm, TypeOK, Alone, Cut, Doomed, TableType, MarkType, RequestType, SubjectType,
     PC, At, table, marks, socket, req, LoginInsert, Issue, Finish
<1>15. ASSUME NEW w \in Workers, RefreshReuse(w) PROVE Cut'
  BY <1>15 DEF Calm, TypeOK, Alone, Cut, Doomed, TableType, MarkType, RequestType, SubjectType,
     PC, At, table, marks, socket, req, RefreshReuse, Revoke, Finish
<1>16. ASSUME NEW w \in Workers, RefreshUser(w) PROVE Cut'
  BY <1>16 DEF Calm, TypeOK, Alone, Cut, Doomed, TableType, MarkType, RequestType, SubjectType,
     PC, At, table, marks, socket, req, RefreshUser, Finish, Goto
<1>17. ASSUME NEW w \in Workers, RefreshInsert(w) PROVE Cut'
  BY <1>17 DEF Calm, TypeOK, Alone, Cut, Doomed, TableType, MarkType, RequestType, SubjectType,
     PC, At, table, marks, socket, req, RefreshInsert, Issue, Goto, Finish
<1>18. ASSUME NEW w \in Workers, RefreshRetire(w) PROVE Cut'
  BY <1>18 DEF Calm, TypeOK, Alone, Cut, Doomed, TableType, MarkType, RequestType, SubjectType,
     PC, At, table, marks, socket, req, RefreshRetire, Revoke, Finish
<1>19. ASSUME NEW w \in Workers, LogoutUpdate(w) PROVE Cut'
  BY <1>19 DEF Calm, TypeOK, Alone, Cut, Doomed, TableType, MarkType, RequestType, SubjectType,
     PC, At, table, marks, socket, req, LogoutUpdate, Revoke
<1>20. ASSUME NEW w \in Workers, KickAndReply(w) PROVE Cut'
  BY <1>20 DEF Calm, TypeOK, Alone, Cut, Doomed, TableType, MarkType, RequestType, SubjectType,
     PC, At, table, marks, socket, req, KickAndReply, KickRevoked, Kick, Mark, Stored, Reached, Finish
<1>21. ASSUME NEW w \in Workers, RevokeAllSelect(w) PROVE Cut'
  BY <1>21 DEF Calm, TypeOK, Alone, Cut, Doomed, TableType, MarkType, RequestType, SubjectType,
     PC, At, table, marks, socket, req, RevokeAllSelect, Live
<1>22. ASSUME NEW w \in Workers, RevokeAllUpdate(w) PROVE Cut'
  BY <1>22 DEF Calm, TypeOK, Alone, Cut, Doomed, TableType, MarkType, RequestType, SubjectType,
     PC, At, table, marks, socket, req, RevokeAllUpdate, Revoke, Goto
<1>23. ASSUME NEW w \in Workers, Register(w) PROVE Cut'
  BY <1>23 DEF Calm, TypeOK, Alone, Cut, Doomed, TableType, MarkType, RequestType, SubjectType,
     PC, At, table, marks, socket, req, Register, Finish
<1>24. ASSUME NEW p \in Procs, NEW s \in SIDs, Disconnect(p, s) PROVE Cut'
  BY <1>24 DEF Calm, TypeOK, Alone, Cut, Doomed, TableType, MarkType, RequestType, SubjectType,
     PC, At, table, marks, socket, req, Disconnect
<1>25. ASSUME NEW p \in Procs, NEW s \in SIDs, DeliverKick(p, s) PROVE Cut'
  BY <1>25 DEF Calm, TypeOK, Alone, Cut, Doomed, TableType, MarkType, RequestType, SubjectType,
     PC, At, table, marks, socket, req, DeliverKick
<1>26. ASSUME NEW w \in Workers, Cancel(w) PROVE Cut'
  BY <1>26 DEF Cancel, Calm
<1>27. ASSUME NEW p \in Procs, Restart(p) PROVE Cut'
  BY <1>27 DEF Restart, Calm, TypeOK, MarkType
<1>28. CASE UNCHANGED vars
  BY <1>28 DEF Alone, Cut, Doomed, At, vars
<1>29. QED
  BY <1>1, <1>2, <1>3, <1>4, <1>5, <1>6, <1>7, <1>8, <1>9, <1>10, <1>11, <1>12, <1>13, <1>14,
     <1>15, <1>16, <1>17, <1>18, <1>19, <1>20, <1>21, <1>22, <1>23, <1>24, <1>25, <1>26, <1>27,
     <1>28 DEF Next, Arrival, Serve

(* Only a ban bans, and it goes on to revoke.                              *)
LEMMA OutStep ==
  ASSUME Calm, TypeOK, Alone, Out, [Next]_vars
  PROVE  Out'
<1>1. ASSUME NEW w \in Workers, NEW t \in Types, Login(w, t) PROVE Out'
  BY <1>1 DEF Calm, TypeOK, Alone, Out, Live, TableType, RequestType, PC, At, table, marks,
     socket, req, Login, Free, Arrive
<1>2. ASSUME NEW w \in Workers, NEW s \in SIDs, Refresh(w, s) PROVE Out'
  BY <1>2 DEF Calm, TypeOK, Alone, Out, Live, TableType, RequestType, PC, At, table, marks,
     socket, req, Refresh, Free, Arrive
<1>3. ASSUME NEW w \in Workers, NEW s \in SIDs, Logout(w, s) PROVE Out'
  BY <1>3 DEF Calm, TypeOK, Alone, Out, Live, TableType, RequestType, PC, At, table, marks,
     socket, req, Logout, Free, Arrive
<1>4. ASSUME NEW w \in Workers, NEW s \in SIDs, RevokeOne(w, s) PROVE Out'
  BY <1>4 DEF Calm, TypeOK, Alone, Out, Live, TableType, RequestType, PC, At, table, marks,
     socket, req, RevokeOne, Free
<1>5. ASSUME NEW w \in Workers, NEW s \in SIDs, Connect(w, s) PROVE Out'
  BY <1>5 DEF Calm, TypeOK, Alone, Out, Live, TableType, RequestType, PC, At, table, marks,
     socket, req, Connect, Free, Arrive
<1>6. ASSUME NEW w \in Workers, NEW s \in SIDs, ConnectRefused(w, s) PROVE Out'
  BY <1>6 DEF Calm, TypeOK, Alone, Out, Live, TableType, RequestType, PC, At, table, marks,
     socket, req, ConnectRefused, Free, Mark, Stored
<1>7. ASSUME NEW w \in Workers, NEW s \in SIDs, Refuse(w, s) PROVE Out'
  BY <1>7 DEF Calm, TypeOK, Alone, Out, Live, TableType, RequestType, PC, At, table, marks,
     socket, req, Refuse
<1>8. ASSUME NEW w \in Workers, Ban(w) PROVE Out'
  BY <1>8 DEF Calm, TypeOK, Alone, Out, Live, TableType, RequestType, PC, At, table, marks,
     socket, req, Ban, Free, Arrive
<1>9. ASSUME NEW w \in Workers, Unban(w) PROVE Out'
  BY <1>9 DEF Calm, TypeOK, Alone, Out, Live, TableType, RequestType, PC, At, table, marks,
     socket, req, Unban, Free
<1>10. ASSUME NEW w \in Workers, ResetPassword(w) PROVE Out'
  BY <1>10 DEF Calm, TypeOK, Alone, Out, Live, TableType, RequestType, PC, At, table, marks,
     socket, req, ResetPassword, Free, Arrive
<1>11. ASSUME NEW w \in Workers, LoginSelect(w) PROVE Out'
  BY <1>11 DEF Calm, TypeOK, Alone, Out, Live, TableType, RequestType, PC, At, table, marks,
     socket, req, LoginSelect
<1>12. ASSUME NEW w \in Workers, LoginUpdate(w) PROVE Out'
  BY <1>12 DEF Calm, TypeOK, Alone, Out, Live, TableType, RequestType, PC, At, table, marks,
     socket, req, LoginUpdate, Revoke, Goto
<1>13. ASSUME NEW w \in Workers, LoginKick(w) PROVE Out'
  BY <1>13 DEF Calm, TypeOK, Alone, Out, Live, TableType, RequestType, PC, At, table, marks,
     socket, req, LoginKick, KickRevoked, Kick, Mark, Stored, Reached, Goto
<1>14. ASSUME NEW w \in Workers, LoginInsert(w) PROVE Out'
  BY <1>14 DEF Calm, TypeOK, Alone, Out, Live, TableType, RequestType, PC, At, table, marks,
     socket, req, LoginInsert, Issue, Finish
<1>15. ASSUME NEW w \in Workers, RefreshReuse(w) PROVE Out'
  BY <1>15 DEF Calm, TypeOK, Alone, Out, Live, TableType, RequestType, PC, At, table, marks,
     socket, req, RefreshReuse, Revoke, Finish
<1>16. ASSUME NEW w \in Workers, RefreshUser(w) PROVE Out'
  BY <1>16 DEF Calm, TypeOK, Alone, Out, Live, TableType, RequestType, PC, At, table, marks,
     socket, req, RefreshUser, Finish, Goto
<1>17. ASSUME NEW w \in Workers, RefreshInsert(w) PROVE Out'
  BY <1>17 DEF Calm, TypeOK, Alone, Out, Live, TableType, RequestType, PC, At, table, marks,
     socket, req, RefreshInsert, Issue, Goto, Finish
<1>18. ASSUME NEW w \in Workers, RefreshRetire(w) PROVE Out'
  BY <1>18 DEF Calm, TypeOK, Alone, Out, Live, TableType, RequestType, PC, At, table, marks,
     socket, req, RefreshRetire, Revoke, Finish
<1>19. ASSUME NEW w \in Workers, LogoutUpdate(w) PROVE Out'
  BY <1>19 DEF Calm, TypeOK, Alone, Out, Live, TableType, RequestType, PC, At, table, marks,
     socket, req, LogoutUpdate, Revoke
<1>20. ASSUME NEW w \in Workers, KickAndReply(w) PROVE Out'
  BY <1>20 DEF Calm, TypeOK, Alone, Out, Live, TableType, RequestType, PC, At, table, marks,
     socket, req, KickAndReply, KickRevoked, Kick, Mark, Stored, Reached, Finish
<1>21. ASSUME NEW w \in Workers, RevokeAllSelect(w) PROVE Out'
  BY <1>21 DEF Calm, TypeOK, Alone, Out, Live, TableType, RequestType, PC, At, table, marks,
     socket, req, RevokeAllSelect
<1>22. ASSUME NEW w \in Workers, RevokeAllUpdate(w) PROVE Out'
  BY <1>22 DEF Calm, TypeOK, Alone, Out, Live, TableType, RequestType, PC, At, table, marks,
     socket, req, RevokeAllUpdate, Revoke, Goto
<1>23. ASSUME NEW w \in Workers, Register(w) PROVE Out'
  BY <1>23 DEF Calm, TypeOK, Alone, Out, Live, TableType, RequestType, PC, At, table, marks,
     socket, req, Register, Finish
<1>24. ASSUME NEW p \in Procs, NEW s \in SIDs, Disconnect(p, s) PROVE Out'
  BY <1>24 DEF Calm, TypeOK, Alone, Out, Live, TableType, RequestType, PC, At, table, marks,
     socket, req, Disconnect
<1>25. ASSUME NEW p \in Procs, NEW s \in SIDs, DeliverKick(p, s) PROVE Out'
  BY <1>25 DEF Calm, TypeOK, Alone, Out, Live, TableType, RequestType, PC, At, table, marks,
     socket, req, DeliverKick
<1>26. ASSUME NEW w \in Workers, Cancel(w) PROVE Out'
  BY <1>26 DEF Cancel, Calm
<1>27. ASSUME NEW p \in Procs, Restart(p) PROVE Out'
  BY <1>27 DEF Restart, Calm, TypeOK, MarkType
<1>28. CASE UNCHANGED vars
  BY <1>28 DEF Alone, Out, Live, At, vars
<1>29. QED
  BY <1>1, <1>2, <1>3, <1>4, <1>5, <1>6, <1>7, <1>8, <1>9, <1>10, <1>11, <1>12, <1>13, <1>14,
     <1>15, <1>16, <1>17, <1>18, <1>19, <1>20, <1>21, <1>22, <1>23, <1>24, <1>25, <1>26, <1>27,
     <1>28 DEF Next, Arrival, Serve

LEMMA CalmHolds == Calm => (Spec => [](TypeOK /\ Alone /\ Pairs /\ Once /\ Cut /\ Out))
<1> SUFFICES ASSUME Calm PROVE Spec => [](TypeOK /\ Alone /\ Pairs /\ Once /\ Cut /\ Out)
  OBVIOUS
<1>1. Init => TypeOK /\ Alone /\ Pairs /\ Once /\ Cut /\ Out
  <2>1. Init => Alone /\ Pairs /\ Once
    BY DEF Init, At, Alone, Pairs, Once
  <2>2. Init => Cut /\ Out
    BY DEF Init, At, Cut, Doomed, Out, Live
  <2>3. QED
    BY <2>1, <2>2, TypeInit
<1>2. (TypeOK /\ Alone /\ Pairs /\ Once /\ Cut /\ Out) /\ [Next]_vars
        => (TypeOK /\ Alone /\ Pairs /\ Once /\ Cut /\ Out)'
  BY TypeStep, AloneStep, PairsStep, OnceStep, CutStep, OutStep
<1>3. QED
  BY <1>1, <1>2, PTL DEF Spec

(* Between requests a device type has at most one live session.            *)
THEOREM OnePerType == Calm => (Spec => []OneSessionPerType)
<1> SUFFICES ASSUME Calm PROVE Spec => []OneSessionPerType
  OBVIOUS
<1>1. Pairs => OneSessionPerType
  BY DEF Pairs, OneSessionPerType, Quiet, Live, At
<1>2. QED
  BY <1>1, CalmHolds, PTL

(* Of one refresh token at most one session is issued.                     *)
THEOREM RefreshedOnce == Calm => (Spec => []RefreshOnce)
<1> SUFFICES ASSUME Calm PROVE Spec => []RefreshOnce
  OBVIOUS
<1>1. Once => RefreshOnce
  <2>1. ASSUME Once, NEW s \in SIDs PROVE Cardinality(heirs[s]) <= 1
    <3>1. CASE heirs[s] = {}
      BY <3>1, FS_EmptySet
    <3>2. CASE heirs[s] # {}
      <4>1. PICK t \in SIDs : heirs[s] = {t}
        BY <2>1, <3>2 DEF Once
      <4>2. QED
        BY <4>1, FS_Singleton
    <3>3. QED
      BY <3>1, <3>2
  <2>2. QED
    BY <2>1 DEF RefreshOnce
<1>2. QED
  BY <1>1, CalmHolds, PTL

(* Between requests a session that was signed out has a socket only on a   *)
(* process that its kick has not reached, and none on the process that has *)
(* acknowledged the sign-out.                                              *)
THEOREM NoSocketStays == Calm => (Spec => []RevokedHasNoSocket)
<1> SUFFICES ASSUME Calm PROVE Spec => []RevokedHasNoSocket
  OBVIOUS
<1>1. Cut => RevokedHasNoSocket
  BY DEF Cut, Doomed, RevokedHasNoSocket, Quiet
<1>2. QED
  BY <1>1, CalmHolds, PTL

(* Between requests a banned user has no live session.                     *)
THEOREM BanEndsAll == Calm => (Spec => []BannedIsOut)
<1> SUFFICES ASSUME Calm PROVE Spec => []BannedIsOut
  OBVIOUS
<1>1. Out => BannedIsOut
  BY DEF Out, BannedIsOut, Quiet, At
<1>2. QED
  BY <1>1, CalmHolds, PTL
=============================================================================
