---------------------------- MODULE CallSession ----------------------------
(***************************************************************************)
(* The call handlers of the API server for one conversation:               *)
(* services/api/internal/server/call_handlers.go and group_call_handlers.go*)
(*                                                                         *)
(* Every handler is a sequence of SQL statements that each commit on their *)
(* own, so a request is a worker with a program counter and one action per *)
(* statement that reads or writes shared state; what it read (the status   *)
(* of the call, the ids of ringing calls) stays in the request and may be  *)
(* stale when it is used.  The 30 s ring timer of each call is a process   *)
(* of its own.  Reads of data no call handler changes (the kind of the     *)
(* conversation, its members, names, tokens) are part of the step they     *)
(* guard.                                                                  *)
(***************************************************************************)
EXTENDS Naturals

CONSTANTS
  Users,        (* members of the conversation whose role is not pending   *)
  Devices,      (* device ids a user may act from                          *)
  Calls,        (* ids of call sessions that can be created                *)
  Workers,      (* requests the server handles at the same time            *)
  Ops,          (* kinds of request that arrive                            *)
  IsGroup,      (* callIsGroup: group conversation or direct (DM)          *)
  Disconnects,  (* TRUE if a request's context may be cancelled midway     *)
  MaxRestarts,  (* bound on the restarts of the server                     *)
  None

AllOps == {"start", "answer", "decline", "hangup", "invite", "kick"}

ASSUME CallAssumption ==
  /\ None \notin Users \cup Devices \cup Calls
  /\ Ops \subseteq AllOps
  /\ IsGroup \in BOOLEAN
  /\ ~IsGroup => \A u, v, t \in Users : u = v \/ u = t \/ v = t
  /\ Disconnects \in BOOLEAN
  /\ MaxRestarts \in Nat

VARIABLES
  (* rows of call_sessions and call_participants *)
  status,       (* status[c], "none" before the INSERT                     *)
  host,         (* host[c]: initiator_id                                   *)
  answerer,     (* answerer[c]: answerer_device_id, set with answered_at   *)
  part,         (* part[c][u]: participant status, "" without a row        *)
  note,         (* note[c]: body of the call's one message in the chat     *)
  (* the request worker w is handling *)
  pc,           (* pc[w]: its next step, "idle" without a request          *)
  job,          (* job[w]: sender, call, and status of the call when read  *)
  alive,        (* alive[w]: its context has not been cancelled            *)
  todo,         (* todo[w]: users named by the request, still to be seated *)
  at,           (* at[w]: user whose row was read last                     *)
  done,         (* done[w]: users whose row the request has written        *)
  stale,        (* stale[w]: calls read as open, to be replaced            *)
  (* the process *)
  timer,        (* timer[c]: the ring timer of c                           *)
  restarts,     (* restarts so far, bounded by MaxRestarts                 *)
  (* what the server has told its clients *)
  announced,    (* announced[c]: reasons of the call.ended events sent     *)
  rung,         (* rung[c]: users sent a call.ring event                   *)
  granted       (* granted[c]: <<user, device>> whose answer returned 200  *)

rows    == <<status, host, answerer, part, note>>
scratch == <<todo, at, done, stale>>
request == <<pc, job, alive, todo, at, done, stale>>
process == <<timer, restarts>>
told    == <<announced, rung, granted>>
vars    == <<status, host, answerer, part, note, pc, job, alive, todo, at, done, stale,
             process, announced, rung, granted>>

Open       == {"ringing", "active"}
Closed     == {"ended", "declined", "missed"}
Status     == {"none"} \cup Open \cup Closed
PartStatus == {"", "invited", "joined", "declined", "kicked", "left"}
Note       == {"", "missed", "declined", "cancelled", "ended"}
Reason     == {"replaced", "missed", "declined", "ended"}
TimerStep  == {"off", "armed", "update", "tell"}

(* The steps of the handlers: s_ start, a_ answer, d_ decline, h_ hangup,  *)
(* i_ invite, k_ kick.                                                     *)
PC == {"idle", "s_replace", "s_scan", "s_clear", "s_insert", "s_host", "s_seat", "s_ring",
       "a_part", "a_take", "a_reload", "a_join",
       "d_mark", "d_pending", "d_joined", "d_end", "d_tell",
       "h_leave", "h_end", "h_tell",
       "i_mine", "i_check", "i_add", "k_mark"}

Job == [user: Users, dev: Devices, call: Calls, seen: Status]
NoJob == [user |-> None, dev |-> None, call |-> None, seen |-> "none"]

Init ==
  /\ status = [c \in Calls |-> "none"]
  /\ host = [c \in Calls |-> None]
  /\ answerer = [c \in Calls |-> None]
  /\ part = [c \in Calls |-> [u \in Users |-> ""]]
  /\ note = [c \in Calls |-> ""]
  /\ pc = [w \in Workers |-> "idle"]
  /\ job = [w \in Workers |-> NoJob]
  /\ alive = [w \in Workers |-> TRUE]
  /\ todo = [w \in Workers |-> {}]
  /\ at = [w \in Workers |-> None]
  /\ done = [w \in Workers |-> {}]
  /\ stale = [w \in Workers |-> {}]
  /\ timer = [c \in Calls |-> "off"]
  /\ restarts = 0
  /\ announced = [c \in Calls |-> {}]
  /\ rung = [c \in Calls |-> {}]
  /\ granted = [c \in Calls |-> {}]

-----------------------------------------------------------------------------
(* Helpers *)

At(w, l) == pc[w] = l

Free(w) == pc[w] = "idle"

Goto(w, l) ==
  /\ pc' = [pc EXCEPT ![w] = l]
  /\ UNCHANGED <<job, alive, scratch>>

Finish(w) ==
  /\ pc' = [pc EXCEPT ![w] = "idle"]
  /\ job' = [job EXCEPT ![w] = NoJob]
  /\ alive' = [alive EXCEPT ![w] = TRUE]
  /\ todo' = [todo EXCEPT ![w] = {}]
  /\ at' = [at EXCEPT ![w] = None]
  /\ done' = [done EXCEPT ![w] = {}]
  /\ stale' = [stale EXCEPT ![w] = {}]

(* A request of user u from device d about call c and the users in S has   *)
(* executed its first statement, which read the calls in old; next is l.   *)
Arrive(w, l, u, d, c, S, old) ==
  /\ pc' = [pc EXCEPT ![w] = l]
  /\ job' = [job EXCEPT ![w] = [user |-> u, dev |-> d, call |-> c, seen |-> status[c]]]
  /\ todo' = [todo EXCEPT ![w] = S]
  /\ stale' = [stale EXCEPT ![w] = old]
  /\ UNCHANGED <<alive, at, done>>

(* upsertCallParticipant: overwrites whatever status the row had.  Errors  *)
(* are ignored, so on a cancelled context nothing is written.              *)
Upsert(w, u, s) ==
  part' = IF alive[w] THEN [part EXCEPT ![job[w].call][u] = s] ELSE part

(* Mutant: the UPDATE forgets its "AND status = ..." clause.               *)
TransitionAnyStatus(w, S, from, how) ==
  status' = [c \in Calls |-> IF alive[w] /\ c \in S THEN how ELSE status[c]]

(* UPDATE call_sessions SET status=how WHERE id IN S AND status IN from.   *)
Transition(w, S, from, how) ==
  status' = [c \in Calls |->
               IF alive[w] /\ c \in S /\ status[c] \in from THEN how ELSE status[c]]

(* postCallSystemMessage and the call.ended event that follows it: both    *)
(* look up the members first and reach nobody on a cancelled context.      *)
Tell(w, body, reason) ==
  LET c == job[w].call IN
  IF alive[w]
    THEN /\ note' = [note EXCEPT ![c] = body]
         /\ announced' = [announced EXCEPT ![c] = @ \cup {reason}]
    ELSE UNCHANGED <<note, announced>>

Fresh(c) == status[c] = "none" /\ \A w \in Workers : ~Free(w) => job[w].call # c

(* A client learns the id of a call from the first call.ring event.        *)
Known(c) == rung[c] # {}

(* callParticipantStatus: no row and a failed query look the same.         *)
PartOf(w, u) == IF alive[w] THEN part[job[w].call][u] ELSE ""

-----------------------------------------------------------------------------
(* handleStartCall *)

(* Validation and the SELECT of an active call: a group refuses, a DM      *)
(* replaces the most recently answered one.                                *)
Start(w, u, d, c, invitees) ==
  /\ "start" \in Ops /\ Free(w) /\ Fresh(c)
  /\ invitees # {} /\ u \notin invitees
  /\ ~IsGroup => invitees = Users \ {u}
  /\ LET active == {a \in Calls : status[a] = "active"} IN
     \/ active = {} /\ Arrive(w, "s_scan", u, d, c, invitees, {})
     \/ ~IsGroup /\ \E a \in active : Arrive(w, "s_replace", u, d, c, invitees, {a})
  /\ UNCHANGED <<rows, process, told>>

(* Mutant: the old call is announced as replaced but not updated.          *)
StartReplaceTellOnly(w) ==
  /\ At(w, "s_replace")
  /\ announced' = [c \in Calls |-> IF c \in stale[w] THEN announced[c] \cup {"replaced"}
                                   ELSE announced[c]]
  /\ Goto(w, "s_scan")
  /\ UNCHANGED <<rows, process, rung, granted>>

(* End the active DM call and tell the members, whether or not the UPDATE  *)
(* changed a row.                                                          *)
StartReplace(w) ==
  /\ At(w, "s_replace")
  /\ Transition(w, stale[w], {"active"}, "ended")
  /\ announced' = [c \in Calls |-> IF c \in stale[w] THEN announced[c] \cup {"replaced"}
                                   ELSE announced[c]]
  /\ Goto(w, "s_scan")
  /\ UNCHANGED <<host, answerer, part, note, process, rung, granted>>

(* SELECT the calls that still ring.                                       *)
StartScan(w) ==
  /\ At(w, "s_scan")
  /\ LET ringing == IF alive[w] THEN {c \in Calls : status[c] = "ringing"} ELSE {} IN
     /\ stale' = [stale EXCEPT ![w] = ringing]
     /\ pc' = [pc EXCEPT ![w] = IF ringing = {} THEN "s_insert" ELSE "s_clear"]
     /\ UNCHANGED <<job, alive, todo, at, done>>
  /\ UNCHANGED <<rows, process, told>>

(* End whatever rings now; announce the calls that were seen ringing.      *)
StartClear(w) ==
  /\ At(w, "s_clear")
  /\ Transition(w, Calls, {"ringing"}, "ended")
  /\ announced' = [c \in Calls |-> IF c \in stale[w] THEN announced[c] \cup {"replaced"}
                                   ELSE announced[c]]
  /\ Goto(w, "s_insert")
  /\ UNCHANGED <<host, answerer, part, note, process, rung, granted>>

(* INSERT the ringing session; on an error the request ends with 500.      *)
StartInsert(w) ==
  /\ At(w, "s_insert")
  /\ IF alive[w]
       THEN /\ status' = [status EXCEPT ![job[w].call] = "ringing"]
            /\ host' = [host EXCEPT ![job[w].call] = job[w].user]
            /\ Goto(w, "s_host")
       ELSE Finish(w) /\ UNCHANGED <<status, host>>
  /\ UNCHANGED <<answerer, part, note, process, told>>

(* The participant rows: the initiator first, then one invitee per step.   *)
StartHost(w) ==
  /\ At(w, "s_host")
  /\ Upsert(w, job[w].user, "joined")
  /\ Goto(w, "s_seat")
  /\ UNCHANGED <<status, host, answerer, note, process, told>>

StartSeat(w) ==
  /\ At(w, "s_seat")
  /\ \E u \in todo[w] \ done[w] :
       /\ Upsert(w, u, "invited")
       /\ done' = [done EXCEPT ![w] = @ \cup {u}]
       /\ pc' = [pc EXCEPT ![w] = IF todo[w] \subseteq done[w] \cup {u} THEN "s_ring" ELSE "s_seat"]
  /\ UNCHANGED <<job, alive, todo, at, stale>>
  /\ UNCHANGED <<status, host, answerer, note, process, told>>

(* Mutant: the timer is not armed.                                         *)
StartRingNoTimer(w) ==
  /\ At(w, "s_ring")
  /\ rung' = [rung EXCEPT ![job[w].call] = @ \cup todo[w]]
  /\ Finish(w)
  /\ UNCHANGED <<rows, process, announced, granted>>

(* Ring the invitees, arm the timer, reply 201.                            *)
StartRing(w) ==
  /\ At(w, "s_ring")
  /\ rung' = [rung EXCEPT ![job[w].call] = @ \cup todo[w]]
  /\ timer' = [timer EXCEPT ![job[w].call] = "armed"]
  /\ Finish(w)
  /\ UNCHANGED <<rows, restarts, announced, granted>>

-----------------------------------------------------------------------------
(* handleAnswerCall *)

(* loadCall and the guards on the row: ringing, or active in a group; the  *)
(* initiator does not answer its own call.                                 *)
Answer(w, u, d, c) ==
  /\ "answer" \in Ops /\ Free(w) /\ Known(c)
  /\ status[c] = "ringing" \/ (IsGroup /\ status[c] = "active")
  /\ u # host[c]
  /\ Arrive(w, "a_part", u, d, c, {}, {})
  /\ UNCHANGED <<rows, process, told>>

(* SELECT the participant row: refused when kicked and, in a group, unless *)
(* invited or joined.                                                      *)
AnswerCheck(w) ==
  /\ At(w, "a_part")
  /\ LET p == PartOf(w, job[w].user) IN
     IF p = "kicked" \/ (IsGroup /\ p \notin {"invited", "joined"})
       THEN Finish(w)
       ELSE Goto(w, IF job[w].seen = "ringing" THEN "a_take" ELSE "a_join")
  /\ UNCHANGED <<rows, process, told>>

(* Mutant: the loser of the race reloads the row in a DM as well.          *)
AnswerTakeReloadDM(w) ==
  /\ At(w, "a_take")
  /\ LET c == job[w].call
         won == alive[w] /\ status[c] = "ringing" IN
     /\ Transition(w, {c}, {"ringing"}, "active")
     /\ answerer' = IF won THEN [answerer EXCEPT ![c] = job[w].dev] ELSE answerer
     /\ Goto(w, IF won THEN "a_join" ELSE "a_reload")
  /\ UNCHANGED <<host, part, note, process, told>>

(* UPDATE ... SET status='active' WHERE status='ringing'.  Whoever loses   *)
(* the race is refused in a DM and reloads the row in a group.             *)
AnswerTake(w) ==
  /\ At(w, "a_take")
  /\ LET c == job[w].call
         won == alive[w] /\ status[c] = "ringing" IN
     /\ Transition(w, {c}, {"ringing"}, "active")
     /\ answerer' = IF won THEN [answerer EXCEPT ![c] = job[w].dev] ELSE answerer
     /\ \/ won /\ Goto(w, "a_join")
        \/ ~won /\ IsGroup /\ Goto(w, "a_reload")
        \/ ~won /\ ~IsGroup /\ Finish(w)
  /\ UNCHANGED <<host, part, note, process, told>>

(* Mutant: the reloaded status is not looked at.                           *)
AnswerReloadBlind(w) ==
  /\ At(w, "a_reload")
  /\ Goto(w, "a_join")
  /\ UNCHANGED <<rows, process, told>>

AnswerReload(w) ==
  /\ At(w, "a_reload")
  /\ IF alive[w] /\ status[job[w].call] = "active" THEN Goto(w, "a_join") ELSE Finish(w)
  /\ UNCHANGED <<rows, process, told>>

(* Seat the user, hand out the tokens, tell the initiator and the user's   *)
(* other devices, reply 200.                                               *)
AnswerJoin(w) ==
  /\ At(w, "a_join")
  /\ Upsert(w, job[w].user, "joined")
  /\ granted' = [granted EXCEPT ![job[w].call] = @ \cup {<<job[w].user, job[w].dev>>}]
  /\ Finish(w)
  /\ UNCHANGED <<status, host, answerer, note, process, announced, rung>>

-----------------------------------------------------------------------------
(* handleDeclineCall *)

Decline(w, u, d, c) ==
  /\ "decline" \in Ops /\ Free(w) /\ Known(c)
  /\ status[c] \in Open
  /\ u # host[c]
  /\ Arrive(w, "d_mark", u, d, c, {}, {})
  /\ UNCHANGED <<rows, process, told>>

DeclineMark(w) ==
  /\ At(w, "d_mark")
  /\ Upsert(w, job[w].user, "declined")
  /\ Goto(w, IF IsGroup THEN "d_pending" ELSE "d_end")
  /\ UNCHANGED <<status, host, answerer, note, process, told>>

(* Group: the first COUNT, of invitees that have not reacted.  The call    *)
(* goes on unless it was ringing when loaded and nobody is pending.        *)
DeclinePending(w) ==
  /\ At(w, "d_pending")
  /\ IF job[w].seen = "ringing" /\ \A u \in Users : PartOf(w, u) # "invited"
       THEN Goto(w, "d_joined")
       ELSE Finish(w)
  /\ UNCHANGED <<rows, process, told>>

(* Group: the second COUNT, of users other than the initiator that joined. *)
DeclineJoined(w) ==
  /\ At(w, "d_joined")
  /\ IF \A u \in Users \ {host[job[w].call]} : PartOf(w, u) # "joined"
       THEN Goto(w, "d_end")
       ELSE Finish(w)
  /\ UNCHANGED <<rows, process, told>>

DeclineEnd(w) ==
  /\ At(w, "d_end")
  /\ Transition(w, {job[w].call}, {"ringing"}, "declined")
  /\ Goto(w, "d_tell")
  /\ UNCHANGED <<host, answerer, part, note, process, told>>

(* Posted and published whether or not the UPDATE changed the row.         *)
DeclineTell(w) ==
  /\ At(w, "d_tell")
  /\ Tell(w, "declined", "declined")
  /\ Finish(w)
  /\ UNCHANGED <<status, host, answerer, part, process, rung, granted>>

-----------------------------------------------------------------------------
(* handleHangupCall *)

(* An already closed call is answered "already_ended" and nothing changes. *)
Hangup(w, u, d, c) ==
  /\ "hangup" \in Ops /\ Free(w) /\ Known(c)
  /\ status[c] \in Open
  /\ Arrive(w, IF IsGroup /\ u # host[c] /\ status[c] = "active" THEN "h_leave" ELSE "h_end",
            u, d, c, {}, {})
  /\ UNCHANGED <<rows, process, told>>

HangupLeave(w) ==
  /\ At(w, "h_leave")
  /\ Upsert(w, job[w].user, "left")
  /\ Finish(w)
  /\ UNCHANGED <<status, host, answerer, note, process, told>>

HangupEnd(w) ==
  /\ At(w, "h_end")
  /\ Transition(w, {job[w].call}, Open, "ended")
  /\ Goto(w, "h_tell")
  /\ UNCHANGED <<host, answerer, part, note, process, told>>

(* The wording follows the status seen when the call was loaded.           *)
HangupTell(w) ==
  /\ At(w, "h_tell")
  /\ Tell(w, IF job[w].seen = "ringing" /\ job[w].user = host[job[w].call]
               THEN "cancelled" ELSE "ended", "ended")
  /\ Finish(w)
  /\ UNCHANGED <<status, host, answerer, part, process, rung, granted>>

-----------------------------------------------------------------------------
(* handleInviteToCall and handleKickFromCall (group calls only) *)

Invite(w, u, d, c, invitees) ==
  /\ "invite" \in Ops /\ IsGroup /\ Free(w) /\ Known(c)
  /\ status[c] \in Open
  /\ invitees # {} /\ u \notin invitees
  /\ Arrive(w, "i_mine", u, d, c, invitees, {})
  /\ UNCHANGED <<rows, process, told>>

(* The initiator, or a participant that has joined, may invite.            *)
InviteMine(w) ==
  /\ At(w, "i_mine")
  /\ IF job[w].user = host[job[w].call] \/ PartOf(w, job[w].user) = "joined"
       THEN Goto(w, "i_check")
       ELSE Finish(w)
  /\ UNCHANGED <<rows, process, told>>

(* SELECT the next invitee's row: one that was kicked aborts the request,  *)
(* leaving the rows written so far; one already in the call is skipped.    *)
InviteCheck(w) ==
  /\ At(w, "i_check")
  /\ \E u \in todo[w] :
       LET p == PartOf(w, u) IN
       \/ p = "kicked" /\ Finish(w)
       \/ /\ p \in {"joined", "invited"}
          /\ todo' = [todo EXCEPT ![w] = @ \ {u}]
          /\ UNCHANGED <<pc, job, alive, at, done, stale>>
       \/ /\ p \notin {"kicked", "joined", "invited"}
          /\ todo' = [todo EXCEPT ![w] = @ \ {u}]
          /\ at' = [at EXCEPT ![w] = u]
          /\ pc' = [pc EXCEPT ![w] = "i_add"]
          /\ UNCHANGED <<job, alive, done, stale>>
  /\ UNCHANGED <<rows, process, told>>

InviteAdd(w) ==
  /\ At(w, "i_add")
  /\ Upsert(w, at[w], "invited")
  /\ done' = [done EXCEPT ![w] = @ \cup {at[w]}]
  /\ pc' = [pc EXCEPT ![w] = "i_check"]
  /\ UNCHANGED <<job, alive, todo, at, stale>>
  /\ UNCHANGED <<status, host, answerer, note, process, told>>

(* Every invitee handled: ring the new ones.                               *)
InviteRing(w) ==
  /\ At(w, "i_check") /\ todo[w] = {}
  /\ rung' = [rung EXCEPT ![job[w].call] = @ \cup done[w]]
  /\ Finish(w)
  /\ UNCHANGED <<rows, process, announced, granted>>

(* Only the initiator kicks, and not itself.                               *)
Kick(w, u, d, c, target) ==
  /\ "kick" \in Ops /\ IsGroup /\ Free(w) /\ Known(c)
  /\ status[c] \in Open
  /\ u = host[c] /\ target # u
  /\ Arrive(w, "k_mark", u, d, c, {target}, {})
  /\ UNCHANGED <<rows, process, told>>

KickMark(w) ==
  /\ At(w, "k_mark")
  /\ \E u \in todo[w] : Upsert(w, u, "kicked")
  /\ Finish(w)
  /\ UNCHANGED <<status, host, answerer, note, process, told>>

-----------------------------------------------------------------------------
(* expireMissedRing *)

(* The timer fires: SELECT the call if it still rings.                     *)
TimerFire(c) ==
  /\ timer[c] = "armed"
  /\ timer' = [timer EXCEPT ![c] = IF status[c] = "ringing" THEN "update" ELSE "off"]
  /\ UNCHANGED <<rows, request, restarts, told>>

(* Mutant: RowsAffected is not looked at.                                  *)
TimerExpireBlind(c) ==
  /\ timer[c] = "update"
  /\ timer' = [timer EXCEPT ![c] = "tell"]
  /\ status' = [status EXCEPT ![c] = IF @ = "ringing" THEN "missed" ELSE @]
  /\ UNCHANGED <<host, answerer, part, note, request, restarts, told>>

(* UPDATE ... WHERE status='ringing'; no row changed, nothing to tell.     *)
TimerExpire(c) ==
  /\ timer[c] = "update"
  /\ IF status[c] = "ringing"
       THEN /\ status' = [status EXCEPT ![c] = "missed"]
            /\ timer' = [timer EXCEPT ![c] = "tell"]
       ELSE /\ timer' = [timer EXCEPT ![c] = "off"]
            /\ UNCHANGED status
  /\ UNCHANGED <<host, answerer, part, note, request, restarts, told>>

TimerTell(c) ==
  /\ timer[c] = "tell"
  /\ note' = [note EXCEPT ![c] = "missed"]
  /\ announced' = [announced EXCEPT ![c] = @ \cup {"missed"}]
  /\ timer' = [timer EXCEPT ![c] = "off"]
  /\ UNCHANGED <<status, host, answerer, part, request, restarts, rung, granted>>

-----------------------------------------------------------------------------
(* Environment *)

(* The client goes away (or the database does) in the middle of a request: *)
(* from here on every statement on its context fails.                      *)
Disconnect(w) ==
  /\ Disconnects /\ ~Free(w) /\ alive[w]
  /\ alive' = [alive EXCEPT ![w] = FALSE]
  /\ UNCHANGED <<pc, job, scratch>>
  /\ UNCHANGED <<rows, process, told>>

(* The process restarts: rows survive, requests and timers do not, and     *)
(* main() re-arms nothing.                                                 *)
Restart ==
  /\ restarts < MaxRestarts
  /\ restarts' = restarts + 1
  /\ pc' = [w \in Workers |-> "idle"]
  /\ job' = [w \in Workers |-> NoJob]
  /\ alive' = [w \in Workers |-> TRUE]
  /\ todo' = [w \in Workers |-> {}]
  /\ at' = [w \in Workers |-> None]
  /\ done' = [w \in Workers |-> {}]
  /\ stale' = [w \in Workers |-> {}]
  /\ timer' = [c \in Calls |-> "off"]
  /\ UNCHANGED <<rows, told>>

-----------------------------------------------------------------------------
Arrival(w) ==
  \E u \in Users, d \in Devices, c \in Calls :
    \/ Answer(w, u, d, c) \/ Decline(w, u, d, c) \/ Hangup(w, u, d, c)
    \/ \E S \in SUBSET Users : Start(w, u, d, c, S) \/ Invite(w, u, d, c, S)
    \/ \E t \in Users : Kick(w, u, d, c, t)

(* The remaining steps of the request worker w is handling.                *)
Serve(w) ==
  \/ StartReplace(w) \/ StartScan(w) \/ StartClear(w) \/ StartInsert(w)
  \/ StartHost(w) \/ StartSeat(w) \/ StartRing(w)
  \/ AnswerCheck(w) \/ AnswerTake(w) \/ AnswerReload(w) \/ AnswerJoin(w)
  \/ DeclineMark(w) \/ DeclinePending(w) \/ DeclineJoined(w)
  \/ DeclineEnd(w) \/ DeclineTell(w)
  \/ HangupLeave(w) \/ HangupEnd(w) \/ HangupTell(w)
  \/ InviteMine(w) \/ InviteCheck(w) \/ InviteAdd(w) \/ InviteRing(w)
  \/ KickMark(w)

RingTimer(c) == TimerFire(c) \/ TimerExpire(c) \/ TimerTell(c)

Next ==
  \/ \E w \in Workers : Arrival(w) \/ Serve(w) \/ Disconnect(w)
  \/ \E c \in Calls : RingTimer(c)
  \/ Restart

Spec == Init /\ [][Next]_vars

(* A request that was accepted is served to its end and a timer that is    *)
(* armed fires; clients are not obliged to send anything.                  *)
Fairness ==
  /\ \A w \in Workers : WF_vars(Serve(w))
  /\ \A c \in Calls : WF_vars(RingTimer(c))

FairSpec == Spec /\ Fairness

-----------------------------------------------------------------------------
RowsType ==
  /\ status \in [Calls -> Status]
  /\ host \in [Calls -> Users \cup {None}]
  /\ answerer \in [Calls -> Devices \cup {None}]
  /\ part \in [Calls -> [Users -> PartStatus]]
  /\ note \in [Calls -> Note]

RequestType ==
  /\ pc \in [Workers -> PC]
  /\ job \in [Workers -> Job \cup {NoJob}]
  /\ alive \in [Workers -> BOOLEAN]
  /\ todo \in [Workers -> SUBSET Users]
  /\ at \in [Workers -> Users \cup {None}]
  /\ done \in [Workers -> SUBSET Users]
  /\ stale \in [Workers -> SUBSET Calls]
  /\ \A w \in Workers :
       /\ pc[w] # "idle" => job[w] \in Job
       /\ pc[w] = "i_add" => at[w] \in Users

OtherType ==
  /\ timer \in [Calls -> TimerStep]
  /\ restarts \in Nat
  /\ announced \in [Calls -> SUBSET Reason]
  /\ rung \in [Calls -> SUBSET Users]
  /\ granted \in [Calls -> SUBSET (Users \X Devices)]

TypeOK == RowsType /\ RequestType /\ OtherType

-----------------------------------------------------------------------------
(* Safety *)

(* A call that is recorded as still ringing, missed or declined was never  *)
(* answered: no answering device is recorded, no device was handed a join  *)
(* token by an answer, and nobody but the initiator is seated in it; and a *)
(* call recorded as active does have its answering device.  Every winner   *)
(* of the three-way race of handleAnswerCall, handleDeclineCall and        *)
(* expireMissedRing must agree with what the row says.                     *)
UnansweredOutcome ==
  \A c \in Calls :
    /\ status[c] = "active" => answerer[c] # None
    /\ status[c] \in {"none", "ringing", "missed", "declined"} =>
         /\ answerer[c] = None
         /\ granted[c] = {}
         /\ \A u \in Users : part[c][u] = "joined" => u = host[c]

(* In a direct conversation at most one device wins handleAnswerCall, and  *)
(* it is the device recorded in the row: two phones of the callee that     *)
(* answer together do not both get a token.                                *)
SingleAnswer ==
  ~IsGroup =>
    \A c \in Calls : \A g \in granted[c] : g[1] # host[c] /\ g[2] = answerer[c]

(* What clients are told of an end is true: a call announced, or logged in *)
(* the chat, as missed is recorded as missed, and a call.ended event sent  *)
(* by handleHangupCall is about a call that is closed, also when the       *)
(* request was cut off midway.                                             *)
AnnouncedEndIsTrue ==
  \A c \in Calls :
    /\ "missed" \in announced[c] \/ note[c] = "missed" => status[c] = "missed"
    /\ "ended" \in announced[c] => status[c] \in Closed

(* A conversation has at most one open call, also when a request was cut   *)
(* off midway or the process restarted: handleStartCall refuses or         *)
(* replaces what is open.  True when requests are handled one at a time.   *)
OneOpenCall ==
  \A c1, c2 \in Calls : status[c1] \in Open /\ status[c2] \in Open => c1 = c2

(* The call lifecycle clients rely on (CallLifecycle) is implemented by    *)
(* the interleaved statements of the handlers.                             *)
Life == INSTANCE CallLifecycle WITH Guests <- Users \X Devices
ImplementsLifecycle == Life!Spec

(* The comment on ringTimeout, "unanswered ringing ends as missed": a call *)
(* does not ring for ever, whatever happens to the requests about it, as   *)
(* long as the process that armed its timer lives.                         *)
RingEnds ==
  \A c \in Calls : status[c] = "ringing" ~> status[c] # "ringing" \/ restarts > 0

-----------------------------------------------------------------------------
(* Why the invariants hold: what a request may rely on at each of its steps *)
(* although others run in between.                                         *)

(* Steps of handleStartCall before its INSERT: the call has no row yet.    *)
Early == {"s_replace", "s_scan", "s_clear", "s_insert"}

(* The id of a call about to be created is known to its creator only.      *)
Reserved ==
  \A v, w \in Workers :
    v # w /\ pc[v] \in Early /\ ~Free(w) => job[v].call # job[w].call

(* What the status read earlier still implies: an answer that goes on to   *)
(* AnswerJoin found or made the call active, and an active call can only   *)
(* have been ended since; a hang-up about to announce the end has closed   *)
(* the call; in a direct call the answer that goes on is the recorded one. *)
Agrees(w) ==
  ~Free(w) =>
    LET c == job[w].call IN
    /\ pc[w] \in Early <=> status[c] = "none"
    /\ pc[w] = "s_host" => job[w].user = host[c]
    /\ pc[w] \in {"a_part", "a_take", "a_reload", "a_join"} => job[w].user # host[c]
    /\ pc[w] = "a_part" /\ job[w].seen # "ringing" => IsGroup /\ status[c] \in {"active", "ended"}
    /\ pc[w] = "a_reload" => IsGroup
    /\ pc[w] = "a_join" => /\ status[c] \in {"active", "ended"}
                           /\ ~IsGroup => job[w].dev = answerer[c]
    /\ pc[w] = "h_tell" /\ alive[w] => status[c] \in Closed

(* A call has an initiator exactly when it has a row; a timer about to     *)
(* tell the members has recorded the call as missed.                       *)
CallAgrees ==
  \A c \in Calls :
    /\ status[c] = "none" <=> host[c] = None
    /\ timer[c] = "tell" => status[c] = "missed"

RequestsAgree == Reserved /\ CallAgrees /\ \A w \in Workers : Agrees(w)

=============================================================================
