------------------------------ MODULE Sessions ------------------------------
(***************************************************************************)
(* Login sessions of one user: login, refresh, logout, revocation, ban and *)
(* the WebSocket handshake, as handled by a cluster of API processes:      *)
(* auth_handlers.go, session_revoke.go, session_revoke_redis.go,           *)
(* admin_session_handlers.go and handleAdminBan of                         *)
(* services/api/internal/server, over the table sessions.                  *)
(*                                                                         *)
(* A request is a worker with one action per SQL statement.  An access     *)
(* token is accepted until its session is marked as revoked, in the memory *)
(* of the process or in Redis; the row itself is looked at only by refresh *)
(* and by the WebSocket handshake.  Redis is best effort: a mark may not   *)
(* be stored, a read may fail, and a kick may not reach a process.         *)
(***************************************************************************)
EXTENDS Naturals, FiniteSets

CONSTANTS
  SIDs,         (* ids of sessions that can be created                     *)
  Types,        (* device types: web, desktop, phone                       *)
  Procs,        (* API processes                                           *)
  Workers,      (* requests handled at the same time                       *)
  Home,         (* Home[w]: process that handles the requests of w         *)
  Requests,     (* the kinds of request that arrive                        *)
  Serial,       (* TRUE if a request arrives only after the one before     *)
  UseRedis,     (* TRUE if Redis is attached                               *)
  Faults,       (* the operations on Redis that may fail                   *)
  Cancels,      (* TRUE if a request's context may be cancelled midway     *)
  MaxRestarts,  (* bound on the restarts of processes                      *)
  None

ASSUME SessionAssumption ==
  /\ Home \in [Workers -> Procs]
  /\ Requests \subseteq {"login", "refresh", "logout", "revoke", "ban", "reset", "connect"}
  /\ Serial \in BOOLEAN
  /\ UseRedis \in BOOLEAN
  /\ Faults \subseteq {"set", "exists", "publish"}
  /\ Cancels \in BOOLEAN
  /\ MaxRestarts \in Nat
  /\ None \notin SIDs \cup Types \cup Procs

VARIABLES
  row,          (* row[s]: the row of session s                            *)
  type,         (* type[s]: its device type                                *)
  heirs,        (* heirs[s]: sessions issued for the refresh token of s    *)
  banned,       (* users.banned                                            *)
  mem,          (* mem[p]: revokedSessionIDs of process p                  *)
  redis,        (* sessions marked as revoked in Redis                     *)
  ws,           (* <<p, s>>: process p has a socket of session s           *)
  bus,          (* <<p, s>>: a kick of s published to p, not yet received  *)
  pc,           (* pc[w]: next step of the request worker w handles        *)
  dtype,        (* dtype[w]: device type of a login                        *)
  sid,          (* sid[w]: session the request is about                    *)
  ids,          (* ids[w]: sessions it has read as live, to be kicked      *)
  alive,        (* alive[w]: its context has not been cancelled            *)
  acked,        (* <<p, s>>: p has acknowledged the end of s to a client   *)
  lost,         (* sessions that were marked, but not in Redis             *)
  missed,       (* <<p, s>>: a kick of s has not reached p                 *)
  restarts

table  == <<row, type, heirs, banned>>
marks  == <<mem, redis, lost>>
socket == <<ws, bus, missed>>
req    == <<pc, dtype, sid, ids, alive>>
vars   == <<row, type, heirs, banned, mem, redis, ws, bus, pc, dtype, sid, ids, alive, acked, lost, missed, restarts>>

PC == {"idle", "l_select", "l_update", "l_kick", "l_insert",
       "r_reuse", "r_user", "r_insert", "r_retire",
       "o_update", "kick", "b_select", "b_update", "w_register"}

Init ==
  /\ row = [s \in SIDs |-> "none"]
  /\ type = [s \in SIDs |-> None]
  /\ heirs = [s \in SIDs |-> {}]
  /\ banned = FALSE
  /\ mem = [p \in Procs |-> {}]
  /\ redis = {}
  /\ ws = {}
  /\ bus = {}
  /\ pc = [w \in Workers |-> "idle"]
  /\ dtype = [w \in Workers |-> None]
  /\ sid = [w \in Workers |-> None]
  /\ ids = [w \in Workers |-> {}]
  /\ alive = [w \in Workers |-> TRUE]
  /\ acked = {}
  /\ lost = {}
  /\ missed = {}
  /\ restarts = 0

-----------------------------------------------------------------------------
(* Helpers *)

At(w, l) == pc[w] = l

Goto(w, l) == pc' = [pc EXCEPT ![w] = l] /\ UNCHANGED <<dtype, sid, ids, alive>>

Finish(w) ==
  /\ pc' = [pc EXCEPT ![w] = "idle"]
  /\ dtype' = [dtype EXCEPT ![w] = None]
  /\ sid' = [sid EXCEPT ![w] = None]
  /\ ids' = [ids EXCEPT ![w] = {}]
  /\ alive' = [alive EXCEPT ![w] = TRUE]

Free(w, kind) ==
  /\ kind \in Requests
  /\ At(w, "idle")
  /\ Serial => \A v \in Workers : At(v, "idle")

Arrive(w, l, t, s) ==
  /\ pc' = [pc EXCEPT ![w] = l]
  /\ dtype' = [dtype EXCEPT ![w] = t]
  /\ sid' = [sid EXCEPT ![w] = s]
  /\ UNCHANGED <<ids, alive>>

Live == {s \in SIDs : row[s] = "live"}

(* sessionAccessRevokedAny, as the middleware asks it: the memory of the   *)
(* process and then, if it answers, Redis.  An error there is no mark.     *)
Accepts(p, s, answers) == s \notin mem[p] /\ (answers => s \notin redis)

(* What the middleware makes of a token, Redis answering or not.           *)
LetsIn(p, s) == \E answers \in {TRUE, "exists" \notin Faults} : Accepts(p, s, answers)

(* UPDATE sessions SET revoked=TRUE WHERE id IN S.                         *)
Revoke(w, S) ==
  row' = [s \in SIDs |-> IF alive[w] /\ s \in S /\ row[s] = "live" THEN "revoked" ELSE row[s]]

(* INSERT of a session of type t; the id is new.                           *)
Issue(s, t) ==
  /\ row[s] = "none"
  /\ row' = [row EXCEPT ![s] = "live"]
  /\ type' = [type EXCEPT ![s] = t]

(* markSessionsRevokedAll: this does not use the context of the request.   *)
(* The error of the pipeline is ignored, so any of the marks may be stored. *)
Stored(S) == IF ~UseRedis THEN {{}} ELSE IF "set" \in Faults THEN SUBSET S ELSE {S}

Mark(p, S) ==
  /\ mem' = [mem EXCEPT ![p] = @ \cup S]
  /\ \E R \in Stored(S) : redis' = redis \cup R /\ lost' = (lost \cup S) \ redis'

(* broadcast: the kick is published in a goroutine that only logs an       *)
(* error, to the processes that are subscribed when it is.                 *)
Reached(p) ==
  LET peers == Procs \ {p} IN
  IF ~UseRedis THEN {{}} ELSE IF "publish" \in Faults THEN SUBSET peers ELSE {peers}

Kick(p, S) ==
  /\ ws' = ws \ ({p} \X S)
  /\ \E R \in Reached(p) :
       /\ bus' = bus \cup (R \X S)
       /\ missed' = missed \cup ((Procs \ (R \cup {p})) \X S)

(* Mutant: the sockets are closed, the access tokens stay good.            *)
KickWithoutMark(p, S) == Kick(p, S) /\ UNCHANGED marks

(* Mutant: the peers are not told.                                         *)
KickHereOnly(p, S) ==
  /\ Mark(p, S)
  /\ ws' = ws \ ({p} \X S)
  /\ UNCHANGED <<bus, missed>>

(* kickRevokedSessions: mark, close the sockets of this process, and tell  *)
(* the others.                                                             *)
KickRevoked(p, S) == Mark(p, S) /\ Kick(p, S)

-----------------------------------------------------------------------------
(* handleLogin *)

(* Captcha, password and the account have been checked.                    *)
Login(w, t) ==
  /\ Free(w, "login") /\ ~banned
  /\ Arrive(w, "l_select", t, None)
  /\ UNCHANGED <<table, marks, socket, acked, restarts>>

(* revokeSameTypeSessions: SELECT the live sessions of the type ...        *)
LoginSelect(w) ==
  /\ At(w, "l_select")
  /\ LET old == IF alive[w] THEN {s \in Live : type[s] = dtype[w]} ELSE {} IN
     /\ ids' = [ids EXCEPT ![w] = old]
     /\ pc' = [pc EXCEPT ![w] = IF old = {} THEN "l_insert" ELSE "l_update"]
  /\ UNCHANGED <<dtype, sid, alive, table, marks, socket, acked, restarts>>

(* Mutant: the SELECT is used, the UPDATE forgotten.                       *)
LoginUpdateNothing(w) ==
  /\ At(w, "l_update")
  /\ Goto(w, "l_kick")
  /\ UNCHANGED <<table, marks, socket, acked, restarts>>

(* ... UPDATE the sessions of the type that are live now ...               *)
LoginUpdate(w) ==
  /\ At(w, "l_update")
  /\ Revoke(w, {s \in SIDs : type[s] = dtype[w]})
  /\ Goto(w, "l_kick")
  /\ UNCHANGED <<type, heirs, banned, marks, socket, acked, restarts>>

(* ... and kick the ones that were read.                                   *)
LoginKick(w) ==
  /\ At(w, "l_kick")
  /\ KickRevoked(Home[w], ids[w])
  /\ Goto(w, "l_insert")
  /\ UNCHANGED <<table, acked, restarts>>

LoginInsert(w) ==
  /\ At(w, "l_insert")
  /\ IF alive[w]
       THEN /\ \E s \in SIDs : Issue(s, dtype[w])
            /\ acked' = acked \cup ({Home[w]} \X ids[w])
       ELSE UNCHANGED <<row, type, acked>>
  /\ Finish(w)
  /\ UNCHANGED <<heirs, banned, marks, socket, restarts>>

-----------------------------------------------------------------------------
(* handleRefresh *)

(* Mutant: a refresh token is good whatever became of its session.         *)
RefreshAnything(w, s) ==
  /\ Free(w, "refresh")
  /\ row[s] # "none"
  /\ Arrive(w, "r_user", None, s)
  /\ UNCHANGED <<table, marks, socket, acked, restarts>>

Refresh(w, s) ==
  /\ Free(w, "refresh")
  /\ row[s] # "none"
  /\ Arrive(w, IF row[s] = "live" THEN "r_user" ELSE "r_reuse", None, s)
  /\ UNCHANGED <<table, marks, socket, acked, restarts>>

(* A token of a revoked session revokes every session of the user.         *)
RefreshReuse(w) ==
  /\ At(w, "r_reuse")
  /\ Revoke(w, SIDs)
  /\ Finish(w)
  /\ UNCHANGED <<type, heirs, banned, marks, socket, acked, restarts>>

RefreshUser(w) ==
  /\ At(w, "r_user")
  /\ IF banned \/ ~alive[w] THEN Finish(w) ELSE Goto(w, "r_insert")
  /\ UNCHANGED <<table, marks, socket, acked, restarts>>

RefreshInsert(w) ==
  /\ At(w, "r_insert")
  /\ IF alive[w]
       THEN \E s \in SIDs :
              /\ Issue(s, type[sid[w]])
              /\ heirs' = [heirs EXCEPT ![sid[w]] = @ \cup {s}]
              /\ Goto(w, "r_retire")
       ELSE Finish(w) /\ UNCHANGED <<row, type, heirs>>
  /\ UNCHANGED <<banned, marks, socket, acked, restarts>>

(* The old row is retired last; its access token stays good.               *)
RefreshRetire(w) ==
  /\ At(w, "r_retire")
  /\ Revoke(w, {sid[w]})
  /\ Finish(w)
  /\ UNCHANGED <<type, heirs, banned, marks, socket, acked, restarts>>

-----------------------------------------------------------------------------
(* handleLogout, handleRevokeSession, handleAdminRevokeUserSession *)

Logout(w, s) ==
  /\ Free(w, "logout")
  /\ row[s] # "none" /\ LetsIn(Home[w], s)
  /\ Arrive(w, "o_update", None, s)
  /\ UNCHANGED <<table, marks, socket, acked, restarts>>

LogoutUpdate(w) ==
  /\ At(w, "o_update")
  /\ Revoke(w, {sid[w]})
  /\ ids' = [ids EXCEPT ![w] = {sid[w]}]
  /\ pc' = [pc EXCEPT ![w] = "kick"]
  /\ UNCHANGED <<dtype, sid, alive, type, heirs, banned, marks, socket, acked, restarts>>

(* UPDATE ... WHERE revoked=FALSE; without a row the answer is 404.        *)
RevokeOne(w, s) ==
  /\ Free(w, "revoke") /\ row[s] = "live"
  /\ row' = [row EXCEPT ![s] = "revoked"]
  /\ ids' = [ids EXCEPT ![w] = {s}]
  /\ pc' = [pc EXCEPT ![w] = "kick"]
  /\ UNCHANGED <<dtype, sid, alive, type, heirs, banned, marks, socket, acked, restarts>>

(* The last step of every sign-out: kick, then reply 200.                  *)
KickAndReply(w) ==
  /\ At(w, "kick")
  /\ KickRevoked(Home[w], ids[w])
  /\ acked' = acked \cup ({Home[w]} \X ids[w])
  /\ Finish(w)
  /\ UNCHANGED <<table, restarts>>

(* A request with a marked token is refused; the process remembers it.     *)
Refuse(w, s) ==
  /\ At(w, "idle") /\ s \in redis
  /\ mem' = [mem EXCEPT ![Home[w]] = @ \cup {s}]
  /\ UNCHANGED <<table, redis, lost, socket, req, acked, restarts>>

-----------------------------------------------------------------------------
(* handleAdminBan and handleAdminResetPassword: revokeUserSessions *)

Ban(w) ==
  /\ Free(w, "ban")
  /\ banned' = TRUE
  /\ Arrive(w, "b_select", None, None)
  /\ UNCHANGED <<row, type, heirs, marks, socket, acked, restarts>>

Unban(w) ==
  /\ Free(w, "ban") /\ banned
  /\ banned' = FALSE
  /\ UNCHANGED <<row, type, heirs, marks, socket, req, acked, restarts>>

ResetPassword(w) ==
  /\ Free(w, "reset")
  /\ Arrive(w, "b_select", None, None)
  /\ UNCHANGED <<table, marks, socket, acked, restarts>>

RevokeAllSelect(w) ==
  /\ At(w, "b_select")
  /\ ids' = [ids EXCEPT ![w] = IF alive[w] THEN Live ELSE {}]
  /\ pc' = [pc EXCEPT ![w] = "b_update"]
  /\ UNCHANGED <<dtype, sid, alive, table, marks, socket, acked, restarts>>

(* Mutant: only the sessions of one device type are revoked.               *)
RevokeAllUpdateOneType(w) ==
  /\ At(w, "b_update")
  /\ \E t \in Types : Revoke(w, {s \in SIDs : type[s] = t})
  /\ Goto(w, "kick")
  /\ UNCHANGED <<type, heirs, banned, marks, socket, acked, restarts>>

RevokeAllUpdate(w) ==
  /\ At(w, "b_update")
  /\ Revoke(w, SIDs)
  /\ Goto(w, "kick")
  /\ UNCHANGED <<type, heirs, banned, marks, socket, acked, restarts>>

-----------------------------------------------------------------------------
(* handleWS *)

(* Markers and row are checked before the upgrade ...                      *)
Connect(w, s) ==
  /\ Free(w, "connect")
  /\ row[s] = "live" /\ LetsIn(Home[w], s)
  /\ Arrive(w, "w_register", None, s)
  /\ UNCHANGED <<table, marks, socket, acked, restarts>>

(* ... a revoked row found here is marked ...                              *)
ConnectRefused(w, s) ==
  /\ Free(w, "connect") /\ row[s] = "revoked" /\ LetsIn(Home[w], s)
  /\ Mark(Home[w], {s})
  /\ UNCHANGED <<table, socket, req, acked, restarts>>

(* ... and the socket is registered with the hub afterwards.               *)
Register(w) ==
  /\ At(w, "w_register")
  /\ ws' = ws \cup {<<Home[w], sid[w]>>}
  /\ Finish(w)
  /\ UNCHANGED <<table, marks, bus, missed, acked, restarts>>

Disconnect(p, s) ==
  /\ <<p, s>> \in ws
  /\ ws' = ws \ {<<p, s>>}
  /\ UNCHANGED <<table, marks, bus, missed, req, acked, restarts>>

(* applyCluster: a kick published by another process arrives.              *)
DeliverKick(p, s) ==
  /\ <<p, s>> \in bus
  /\ bus' = bus \ {<<p, s>>}
  /\ ws' = ws \ {<<p, s>>}
  /\ UNCHANGED <<table, marks, missed, req, acked, restarts>>

-----------------------------------------------------------------------------
(* Environment *)

Cancel(w) ==
  /\ Cancels /\ ~At(w, "idle") /\ alive[w]
  /\ alive' = [alive EXCEPT ![w] = FALSE]
  /\ UNCHANGED <<pc, dtype, sid, ids, table, marks, socket, acked, restarts>>

Restart(p) ==
  /\ restarts < MaxRestarts
  /\ restarts' = restarts + 1
  /\ mem' = [mem EXCEPT ![p] = {}]
  /\ ws' = {k \in ws : k[1] # p}
  /\ bus' = {k \in bus : k[1] # p}
  /\ pc' = [w \in Workers |-> IF Home[w] = p THEN "idle" ELSE pc[w]]
  /\ dtype' = [w \in Workers |-> IF Home[w] = p THEN None ELSE dtype[w]]
  /\ sid' = [w \in Workers |-> IF Home[w] = p THEN None ELSE sid[w]]
  /\ ids' = [w \in Workers |-> IF Home[w] = p THEN {} ELSE ids[w]]
  /\ alive' = [w \in Workers |-> IF Home[w] = p THEN TRUE ELSE alive[w]]
  /\ UNCHANGED <<table, redis, lost, missed, acked>>

-----------------------------------------------------------------------------
Arrival(w) ==
  \/ \E t \in Types : Login(w, t)
  \/ \E s \in SIDs : \/ Refresh(w, s) \/ Logout(w, s) \/ RevokeOne(w, s)
                     \/ Connect(w, s) \/ ConnectRefused(w, s) \/ Refuse(w, s)
  \/ Ban(w) \/ Unban(w) \/ ResetPassword(w)

Serve(w) ==
  \/ LoginSelect(w) \/ LoginUpdate(w) \/ LoginKick(w) \/ LoginInsert(w)
  \/ RefreshReuse(w) \/ RefreshUser(w) \/ RefreshInsert(w) \/ RefreshRetire(w)
  \/ LogoutUpdate(w) \/ KickAndReply(w)
  \/ RevokeAllSelect(w) \/ RevokeAllUpdate(w)
  \/ Register(w)

Next ==
  \/ \E w \in Workers : Arrival(w) \/ Serve(w) \/ Cancel(w)
  \/ \E p \in Procs, s \in SIDs : Disconnect(p, s) \/ DeliverKick(p, s)
  \/ \E p \in Procs : Restart(p)

Spec == Init /\ [][Next]_vars

-----------------------------------------------------------------------------
TableType ==
  /\ row \in [SIDs -> {"none", "live", "revoked"}]
  /\ type \in [SIDs -> Types \cup {None}]
  /\ heirs \in [SIDs -> SUBSET SIDs]
  /\ banned \in BOOLEAN

MarkType ==
  /\ mem \in [Procs -> SUBSET SIDs]
  /\ redis \in SUBSET SIDs
  /\ ws \in SUBSET (Procs \X SIDs)
  /\ bus \in SUBSET (Procs \X SIDs)
  /\ acked \in SUBSET (Procs \X SIDs)
  /\ lost \in SUBSET SIDs
  /\ missed \in SUBSET (Procs \X SIDs)
  /\ restarts \in Nat

RequestType ==
  /\ pc \in [Workers -> PC]
  /\ dtype \in [Workers -> Types \cup {None}]
  /\ sid \in [Workers -> SIDs \cup {None}]
  /\ ids \in [Workers -> SUBSET SIDs]
  /\ alive \in [Workers -> BOOLEAN]

SubjectType ==
  \A w \in Workers : pc[w] \in {"r_user", "r_insert", "r_retire", "o_update", "w_register"} => sid[w] \in SIDs

TypeOK == TableType /\ MarkType /\ RequestType /\ SubjectType

Quiet == (\A w \in Workers : At(w, "idle")) /\ bus = {}

(* A session whose end the server has acknowledged (logout, revocation,    *)
(* ban, or replacement by the login that has just succeeded) is refused by *)
(* every process that can read Redis, restarts included, unless Redis has  *)
(* not stored its mark; and by the process that acknowledged it, whatever  *)
(* Redis does, as long as no process restarts.                             *)
StaysOut(p, s) ==
  /\ s \notin lost => \A q \in Procs : ~Accepts(q, s, TRUE)
  /\ restarts = 0 => ~Accepts(p, s, FALSE)

AcknowledgedStaysOut == \A p \in Procs, s \in SIDs : <<p, s>> \in acked => StaysOut(p, s)

(* "One session per surface: web, desktop, phone (new login replaces same  *)
(* type)": between requests at most one session of a type is live.         *)
OneSessionPerType ==
  Quiet => \A s, t \in Live : type[s] = type[t] => s = t

(* A refresh token is redeemed at most once: the rotation of the           *)
(* integration test, where a reused token is refused.                      *)
RefreshOnce == \A s \in SIDs : Cardinality(heirs[s]) <= 1

(* "closes any live WebSocket so the sign-out takes effect immediately":   *)
(* between requests a session that was signed out has a socket only on a   *)
(* process that its kick has not reached, and so none on the process that  *)
(* has acknowledged the sign-out.                                          *)
RevokedHasNoSocket ==
  Quiet => \A p, q \in Procs, s \in SIDs :
             <<p, s>> \in acked /\ <<q, s>> \in ws => q # p /\ <<q, s>> \in missed

(* "revokeUserSessions signs a user out everywhere": between requests a    *)
(* banned user has no live session.                                        *)
BannedIsOut == Quiet /\ banned => Live = {}

(* What a login still relies on when it inserts its session: the sessions  *)
(* it is about to report as replaced are marked already.                   *)
Marked(p, s) ==
  /\ s \notin lost => s \in redis
  /\ restarts = 0 => s \in mem[p]

MarkedBeforeReply ==
  /\ \A p \in Procs, s \in SIDs : <<p, s>> \in acked => Marked(p, s)
  /\ \A w \in Workers : At(w, "l_insert") => \A s \in ids[w] : Marked(Home[w], s)
=============================================================================
