---------------------------- MODULE CallClient ----------------------------
(***************************************************************************)
(* The call hook of one window of the web client                           *)
(* (apps/web/src/lib/useCall.ts) or of the mobile client                   *)
(* (apps/mobile/src/lib/useCall.ts).  Each repeats the other with its own  *)
(* guards; which of the two runs is chosen in the initial state.           *)
(*                                                                         *)
(* JavaScript runs a function to its next await without interruption, so   *)
(* an action is the code between two awaits: a press of a button, an event *)
(* of the WebSocket, an event of the media room, or the rest of a function *)
(* once what it waited for is there.  An activation of connectLiveKit is   *)
(* an attempt: it releases the room in use, asks for the microphone,       *)
(* creates its room and joins it; between these steps everything else can  *)
(* happen.  React's state and the refs that mirror it are one variable.    *)
(*                                                                         *)
(* The calls on the server are what CallSession says of them, as far as    *)
(* one client can tell.  A request may fail on its way, and an answer may  *)
(* be lost after the server has acted.  The pop-out window of the web      *)
(* client is left out: nothing in the application opens it.                *)
(***************************************************************************)
EXTENDS Naturals, Sequences, FiniteSets

CONSTANTS
  Calls,
  Group,        (* those of them that are group calls                      *)
  Conv,         (* Conv[c]: the conversation of call c                     *)
  MaxAttempts,  (* bound: activations of connectLiveKit                    *)
  MaxInbox,     (* bound: events on their way at the same time             *)
  MaxRequests,  (* bound: requests that wait at the same time              *)
  None

ASSUME ClientAssumption ==
  /\ Group \subseteq Calls
  /\ DOMAIN Conv = Calls
  /\ MaxAttempts \in Nat \ {0}
  /\ MaxInbox \in Nat \ {0} /\ MaxRequests \in Nat \ {0}
  /\ None \notin Calls \cup Nat

Attempts == 1 .. MaxAttempts

VARIABLES
  app,          (* "web" or "mobile"                                       *)
  srv,          (* srv[c]: the call on the server, for this user           *)
  inbox,        (* events on their way, in order                           *)
  active,       (* <<>> or <<call, status, role>>                          *)
  incoming,     (* the call that rings, or None                            *)
  ops,          (* functions that wait for an answer of the server         *)
  at,           (* at[a]: what attempt a waits for                         *)
  target,       (* target[a]: the call attempt a connects to               *)
  room,         (* room[a]: the media room attempt a created               *)
  roomRef,      (* the attempt whose room is the one in use, or None       *)
  current,      (* the attempt that holds the latest value of the mobile   *)
                (* client's connectGenRef, or None                         *)
  ending,       (* endingRef                                               *)
  trouble,      (* history: what became of the media of the call shown:    *)
                (* they "failed" or were lost, or were "taken" by a kick   *)
                (* from another call or by an attempt that failed          *)
  lost,         (* history: calls about which a hang-up failed on its way  *)
                (* or an answer was lost, or that a late decline announced *)
                (* as ended though they go on                              *)
  overtaken,    (* history: a release came while an attempt of the web     *)
                (* client had no room; on mobile, two attempts released at *)
                (* the same time                                           *)
  displaced     (* history: an answer replaced the active call             *)

media == <<at, target, room, roomRef, current, overtaken>>
vars == <<app, srv, inbox, active, incoming, ops, media, ending, trouble,
          lost, displaced>>

Web == app = "web"
Open(c) == srv[c] \in {"theirs", "answered", "mine", "joined"}
ActiveCall == IF active = <<>> THEN None ELSE active[1]
Busy(a) == at[a] # "idle"
Waiting(f, c, s, p) == [fn |-> f, call |-> c, at |-> s, prev |-> p]
Ask(o) == Cardinality(ops) < MaxRequests /\ ops' = ops \cup {o}

Init ==
  /\ app \in {"web", "mobile"}
  /\ srv = [c \in Calls |-> "none"]
  /\ inbox = <<>>
  /\ active = <<>>
  /\ incoming = None
  /\ ops = {}
  /\ at = [a \in Attempts |-> "idle"]
  /\ target = [a \in Attempts |-> None]
  /\ room = [a \in Attempts |-> "none"]
  /\ roomRef = None
  /\ current = None
  /\ ending = FALSE
  /\ trouble = "none"
  /\ lost = {}
  /\ overtaken = FALSE
  /\ displaced = FALSE

-----------------------------------------------------------------------------
(* The room in use                                                         *)

NoRoom == IF roomRef = None THEN room ELSE [room EXCEPT ![roomRef] = "gone"]
Unroomed == \E a \in Attempts : at[a] \in {"release", "probe"}

(* The web client lets go of the room in use. *)
WebDisconnect ==
  /\ room' = NoRoom
  /\ roomRef' = None
  /\ overtaken' = (overtaken \/ Unroomed)
  /\ UNCHANGED current

(* The mobile client also makes every attempt so far an old one. *)
MobileDisconnect ==
  /\ current' = None
  /\ room' = NoRoom
  /\ roomRef' = None

disconnectRoom == IF Web THEN WebDisconnect ELSE MobileDisconnect
Disconnected ==
  /\ disconnectRoom
  /\ ~Web => UNCHANGED overtaken
  /\ UNCHANGED <<at, target>>

(* connectLiveKit, up to its first await. *)
Connect(c) ==
  /\ disconnectRoom
  /\ ~Web => overtaken' = (overtaken \/ \E a \in Attempts : at[a] = "release")
  /\ \E a \in Attempts :
       /\ target[a] = None
       /\ \A b \in Attempts : b < a => target[b] # None
       /\ at' = [at EXCEPT ![a] = "release"]
       /\ target' = [target EXCEPT ![a] = c]
  /\ trouble' = "none"

StillCurrent(a) == current = a /\ ~ending /\ ActiveCall = target[a]
Done(a) == at' = [at EXCEPT ![a] = "idle"]
Keep == UNCHANGED <<app, srv, lost, displaced>>

-----------------------------------------------------------------------------
(* The steps of an attempt                                                 *)

(* The earlier room is gone: ask for the microphone. *)
WebReleased(a) ==
  /\ Web /\ at[a] = "release"
  /\ at' = [at EXCEPT ![a] = "probe"]
  /\ UNCHANGED <<inbox, active, incoming, ops, target, room, roomRef, current, ending, trouble, overtaken>> /\ Keep

MobileReleased(a) ==
  /\ ~Web /\ at[a] = "release"
  /\ current' = a
  /\ at' = [at EXCEPT ![a] = "probe"]
  /\ UNCHANGED <<inbox, active, incoming, ops, target, room, roomRef, ending, trouble, overtaken>> /\ Keep

(* The microphone may be used: create the room and join it.  The web      *)
(* client asks nothing before it does.                                     *)
EnterRoom(a) ==
  /\ at' = [at EXCEPT ![a] = "join"]
  /\ room' = [room EXCEPT ![a] = "joining"]
  /\ roomRef' = a

WebProbed(a) ==
  /\ Web /\ at[a] = "probe"
  /\ EnterRoom(a)
  /\ UNCHANGED <<inbox, active, incoming, ops, target, current, ending,
                 trouble, overtaken>> /\ Keep

(* Mutant: the permission is enough to enter.                              *)
MobileProbedLate(a) ==
  /\ ~Web /\ at[a] = "probe"
  /\ EnterRoom(a)
  /\ UNCHANGED <<inbox, active, incoming, ops, target, current, ending,
                 trouble, overtaken>> /\ Keep

MobileProbed(a) ==
  /\ ~Web /\ at[a] = "probe"
  /\ IF StillCurrent(a) THEN EnterRoom(a) ELSE Done(a) /\ UNCHANGED <<room, roomRef>>
  /\ UNCHANGED <<inbox, active, incoming, ops, target, current, ending,
                 trouble, overtaken>> /\ Keep

(* The room is joined and the microphone is published. *)
WebJoined(a) ==
  /\ Web /\ at[a] = "join" /\ room[a] = "joining"
  /\ room' = [room EXCEPT ![a] = "live"]
  /\ Done(a)
  /\ UNCHANGED <<inbox, active, incoming, ops, target, roomRef, current, ending, trouble, overtaken>> /\ Keep

MobileJoined(a) ==
  /\ ~Web /\ at[a] = "join" /\ room[a] = "joining"
  /\ Done(a)
  /\ IF StillCurrent(a) /\ roomRef = a
       THEN /\ room' = [room EXCEPT ![a] = "live"]
            /\ active' = [active EXCEPT ![2] = "active"]
       ELSE room' = [room EXCEPT ![a] = "gone"] /\ UNCHANGED active
  /\ UNCHANGED <<inbox, incoming, ops, target, roomRef, current, ending, trouble, overtaken>> /\ Keep

(* No microphone, a timeout, or a room that was let go of meanwhile: the   *)
(* attempt ends and takes the room in use with it, whosever it is.         *)
Fails(a) == at[a] \in {"probe", "join"}
Without(a) == IF room[a] = "joining" THEN [NoRoom EXCEPT ![a] = "gone"] ELSE NoRoom

WebFailed(a) ==
  /\ Web /\ Fails(a)
  /\ Done(a)
  /\ room' = Without(a)
  /\ roomRef' = None
  /\ trouble' = IF roomRef \notin {None, a} THEN "taken"
                ELSE IF ActiveCall = target[a] THEN "failed" ELSE trouble
  /\ overtaken' = (overtaken \/ \E b \in Attempts \ {a} : at[b] \in {"release", "probe"})
  /\ UNCHANGED <<inbox, active, incoming, ops, target, current, ending>> /\ Keep

MobileFailed(a) ==
  /\ ~Web /\ Fails(a)
  /\ Done(a)
  /\ IF StillCurrent(a)
       THEN room' = Without(a) /\ roomRef' = None /\ current' = None
       ELSE /\ room' = IF room[a] = "joining" THEN [room EXCEPT ![a] = "gone"] ELSE room
            /\ UNCHANGED <<roomRef, current>>
  /\ UNCHANGED <<inbox, active, incoming, ops, target, ending, trouble, overtaken>> /\ Keep

-----------------------------------------------------------------------------
(* Events of a room: the connection is lost for good, or the only other    *)
(* participant of a direct call leaves                                     *)

WebRoomLost(a) ==
  /\ Web /\ room[a] = "live"
  /\ room' = [room EXCEPT ![a] = "gone"]
  /\ trouble' = IF ActiveCall = target[a] THEN "failed" ELSE trouble
  /\ UNCHANGED <<inbox, active, incoming, ops, at, target, roomRef, current, ending, overtaken>> /\ Keep

MobileRoomLost(a) ==
  /\ ~Web /\ room[a] = "live"
  /\ room' = [room EXCEPT ![a] = "gone"]
  /\ IF current = a /\ ~ending /\ ActiveCall = target[a]
       THEN /\ active' = <<>>
            /\ Ask(Waiting("tell", target[a], "asked", None))
       ELSE UNCHANGED <<active, ops>>
  /\ UNCHANGED <<inbox, incoming, at, target, roomRef, current, ending,
                 trouble, overtaken>> /\ Keep

PeerGone(a) ==
  /\ room[a] = "live" /\ ~ending
  /\ ActiveCall = target[a] /\ target[a] \notin Group

WebPeerLeft(a) ==
  /\ Web /\ PeerGone(a)
  /\ active' = <<>>
  /\ incoming' = None
  /\ ending' = TRUE
  /\ Ask(Waiting("hangup", target[a], "asked", None))
  /\ Disconnected
  /\ UNCHANGED <<inbox, trouble>> /\ Keep

MobilePeerLeft(a) ==
  /\ ~Web /\ PeerGone(a) /\ current = a /\ roomRef = a /\ active[2] = "active"
  /\ active' = <<>>
  /\ Ask(Waiting("tell", target[a], "asked", None))
  /\ Disconnected
  /\ UNCHANGED <<inbox, incoming, ending, trouble>> /\ Keep

-----------------------------------------------------------------------------
(* Events of the server                                                    *)

OnRing(c) ==
  /\ incoming' = IF Web /\ ActiveCall = c /\ active[2] = "active" THEN incoming ELSE c
  /\ UNCHANGED <<active, ops, media, ending, trouble>>

(* Only the caller joins; the host of a group call may be in the room.     *)
OnAnswered(c) ==
  IF active # <<>> /\ active[3] = "caller" /\ active[1] = c
    THEN /\ incoming' = None
         /\ active' = [active EXCEPT ![2] = "active"]
         /\ IF c \in Group /\ roomRef # None THEN UNCHANGED <<media, trouble>> ELSE Connect(c)
         /\ UNCHANGED <<ops, ending>>
    ELSE UNCHANGED <<active, incoming, ops, media, ending, trouble>>

(* The host removed this user.  The room in use is let go of, whichever    *)
(* call it belongs to.                                                     *)
OnKicked(c) ==
  /\ incoming' = None
  /\ active' = IF ActiveCall = c THEN <<>> ELSE active
  /\ trouble' = IF ActiveCall \notin {None, c} /\ roomRef # None THEN "taken" ELSE trouble
  /\ ending' = FALSE
  /\ Disconnected
  /\ UNCHANGED ops

OnTaken(c) ==
  /\ incoming' = IF incoming = c \/ (~Web /\ incoming # None /\ Conv[incoming] = Conv[c])
                   THEN None ELSE incoming
  /\ UNCHANGED <<active, ops, media, ending, trouble>>

(* Mutant: the room is let go of whichever call ended. *)
WebEndedAny(c) ==
  /\ incoming' = IF incoming = c THEN None ELSE incoming
  /\ active' = IF ActiveCall = c THEN <<>> ELSE active
  /\ Disconnected

(* The web client looks at the identifier of the call alone. *)
WebEnded(c) ==
  /\ incoming' = IF incoming = c THEN None ELSE incoming
  /\ IF ActiveCall = c THEN active' = <<>> /\ Disconnected ELSE UNCHANGED <<active, media>>

(* The mobile client also looks at the conversation, and lets go of the    *)
(* room whichever call ended.                                              *)
MobileEnded(c) ==
  /\ incoming' = IF incoming # None /\ Conv[incoming] = Conv[c] THEN None ELSE incoming
  /\ active' = IF active # <<>> /\ Conv[active[1]] = Conv[c] THEN <<>> ELSE active
  /\ Disconnected

OnEnded(c) ==
  /\ IF Web THEN WebEnded(c) ELSE MobileEnded(c)
  /\ ending' = FALSE
  /\ UNCHANGED <<ops, trouble>>

Deliver ==
  /\ inbox # <<>>
  /\ inbox' = Tail(inbox)
  /\ LET e == Head(inbox) IN
       \/ e[1] = "ring" /\ OnRing(e[2])
       \/ e[1] = "answered" /\ OnAnswered(e[2])
       \/ e[1] = "kicked" /\ OnKicked(e[2])
       \/ e[1] = "taken" /\ OnTaken(e[2])
       \/ e[1] = "ended" /\ OnEnded(e[2])
  /\ Keep

(* The connection drops with what was on its way; nothing is sent again. *)
Drop ==
  /\ inbox # <<>>
  /\ inbox' = <<>>
  /\ UNCHANGED <<active, incoming, ops, media, ending, trouble>> /\ Keep

-----------------------------------------------------------------------------
(* The buttons, and what follows when the server has answered              *)

Answered(o) == ops' = ops \ {o}
NotAsking(f) == \A o \in ops : o.fn # f

startCall(c) ==
  /\ srv[c] = "none" /\ active = <<>> /\ incoming = None /\ NotAsking("start")
  /\ Ask(Waiting("start", c, "asked", None))
  /\ ending' = IF Web THEN ending ELSE FALSE
  /\ UNCHANGED <<inbox, active, incoming, media, trouble>> /\ Keep

Become(c, status, role) ==
  /\ active' = <<c, status, role>>
  /\ displaced' = (displaced \/ ActiveCall \notin {None, c})

Started(o) ==
  /\ o.fn = "start" /\ o.at = "ok"
  /\ IF o.call \in Group
       THEN Become(o.call, "active", "caller") /\ Connect(o.call)
       ELSE Become(o.call, "ringing", "caller") /\ UNCHANGED <<media, trouble>>
  /\ Answered(o)
  /\ UNCHANGED <<app, srv, lost, inbox, incoming, ending>>

(* Mutant: the earlier call is not hung up on the server. *)
webAnswerCallSilently(c) ==
  /\ Web /\ incoming = c
  /\ Ask(Waiting("answer", c, "asked", None))
  /\ IF ActiveCall \notin {None, c}
       THEN active' = <<>> /\ Disconnected
       ELSE UNCHANGED <<active, media>>
  /\ UNCHANGED <<inbox, incoming, ending, trouble>> /\ Keep

(* The web client first leaves the call it is in. *)
webAnswerCall(c) ==
  /\ Web /\ incoming = c
  /\ IF ActiveCall \notin {None, c}
       THEN /\ active' = <<>>
            /\ Disconnected
            /\ Ask(Waiting("answer", c, "leave", ActiveCall))
       ELSE /\ Ask(Waiting("answer", c, "asked", None))
            /\ UNCHANGED <<active, media>>
  /\ UNCHANGED <<inbox, incoming, ending, trouble>> /\ Keep

mobileAnswerCall(c) ==
  /\ ~Web /\ incoming = c
  /\ Ask(Waiting("answer", c, "asked", None))
  /\ ending' = FALSE
  /\ UNCHANGED <<inbox, active, incoming, media, trouble>> /\ Keep

Joins(o) ==
  /\ o.fn = "answer" /\ o.at = "ok"
  /\ incoming' = None
  /\ Become(o.call, "active", "callee")
  /\ Connect(o.call)
  /\ Answered(o)
  /\ UNCHANGED <<app, srv, lost, inbox, ending>>

declineCall(c) ==
  /\ incoming = c
  /\ incoming' = None
  /\ Ask(Waiting("decline", c, "asked", None))
  /\ UNCHANGED <<inbox, active, media, ending, trouble>> /\ Keep

hangup ==
  /\ active # <<>>
  /\ ending' = TRUE
  /\ active' = <<>>
  /\ incoming' = None
  /\ Ask(Waiting("hangup", active[1], "asked", None))
  /\ Disconnected
  /\ UNCHANGED <<inbox, trouble>> /\ Keep

(* A request that failed, or a hang-up that was heard. *)
Settled(o) ==
  /\ o.at = "failed" \/ (o.at = "ok" /\ o.fn = "hangup")
  /\ ending' = IF o.fn = "hangup" THEN FALSE ELSE ending
  /\ Answered(o)
  /\ UNCHANGED <<inbox, active, incoming, media, trouble>> /\ Keep

-----------------------------------------------------------------------------
(* The server, and the way to it                                           *)

Notify(c, s, e) ==
  /\ Len(inbox) < MaxInbox
  /\ srv' = [srv EXCEPT ![c] = s]
  /\ inbox' = IF e = "nothing" THEN inbox ELSE Append(inbox, <<e, c>>)

Mine == UNCHANGED <<app, active, incoming, media, ending, trouble, displaced>>

Peers(c) ==
  /\ \/ srv[c] = "none" /\ Notify(c, "theirs", "ring")
     \/ srv[c] = "mine" /\ Notify(c, "joined", "answered")
     \/ srv[c] = "joined" /\ c \in Group /\ Notify(c, "joined", "answered")
     \/ Open(c) /\ Notify(c, "ended", "ended")
     \/ srv[c] = "theirs" /\ Notify(c, "elsewhere", "taken")
     \/ srv[c] \in {"theirs", "answered"} /\ c \in Group /\ Notify(c, "out", "kicked")
  /\ UNCHANGED <<ops, lost>> /\ Mine

Reply(o, s) == ops' = (ops \ {o}) \cup {[o EXCEPT !.at = s]}

(* Nobody hears it, and the client does not look at how the request ended. *)
Unheard(c) == UNCHANGED <<srv, inbox>> /\ lost' = lost \cup {c}

(* A hang-up ends the call, or leaves it when it is a group call of others. *)
EndBy(c) ==
  /\ IF ~Open(c) THEN UNCHANGED <<srv, inbox>>
     ELSE IF c \in Group /\ srv[c] = "answered" THEN Notify(c, "out", "nothing")
     ELSE Notify(c, "ended", "ended")
  /\ UNCHANGED lost

(* Declining a direct call that has been answered meanwhile announces an   *)
(* end although the call goes on.                                          *)
DeclineBy(c) ==
  \/ srv[c] = "theirs" /\ Notify(c, "ended", "ended") /\ UNCHANGED lost
  \/ /\ c \in Group /\ srv[c] \in {"theirs", "answered"}
     /\ Notify(c, "out", "nothing") /\ UNCHANGED lost
  \/ /\ c \notin Group /\ srv[c] \in {"answered", "elsewhere"}
     /\ Notify(c, srv[c], "ended") /\ lost' = lost \cup {c}
  \/ srv[c] \notin {"theirs", "answered"} /\ UNCHANGED <<srv, inbox, lost>>

Serve(o) ==
  /\ \/ /\ o.fn = "start" /\ o.at = "asked" /\ srv[o.call] = "none"
        /\ Notify(o.call, "mine", "nothing") /\ Reply(o, "ok") /\ UNCHANGED lost
     \/ /\ o.fn = "answer" /\ o.at = "asked"
        /\ srv[o.call] = "theirs" \/ (o.call \in Group /\ srv[o.call] = "answered")
        /\ Notify(o.call, "answered", "nothing") /\ Reply(o, "ok") /\ UNCHANGED lost
     \/ /\ o.fn = "answer" /\ o.at = "leave"
        /\ EndBy(o.prev) \/ Unheard(o.prev)
        /\ ops' = (ops \ {o}) \cup {[o EXCEPT !.at = "asked", !.prev = None]}
     \/ /\ o.fn = "hangup" /\ o.at = "asked"
        /\ EndBy(o.call) \/ Unheard(o.call)
        /\ Reply(o, "ok")
     \/ /\ o.fn = "tell"
        /\ EndBy(o.call) \/ Unheard(o.call)
        /\ ops' = ops \ {o}
     \/ /\ o.fn = "decline"
        /\ DeclineBy(o.call) \/ UNCHANGED <<srv, inbox, lost>>
        /\ ops' = ops \ {o}
  /\ Mine

(* A start or an answer is refused or lost on its way, or the server has   *)
(* acted and its answer is lost.                                           *)
Refuse(o) ==
  /\ o.fn \in {"start", "answer"} /\ o.at = "asked"
  /\ Reply(o, "failed")
  /\ \/ UNCHANGED <<srv, inbox, lost>>
     \/ /\ IF o.fn = "start" THEN srv[o.call] = "none" /\ Notify(o.call, "mine", "nothing")
           ELSE srv[o.call] = "theirs" /\ Notify(o.call, "answered", "nothing")
        /\ lost' = lost \cup {o.call}
  /\ Mine

-----------------------------------------------------------------------------
Attempt(a) ==
  \/ WebReleased(a) \/ MobileReleased(a)
  \/ WebProbed(a) \/ MobileProbed(a)
  \/ WebJoined(a) \/ MobileJoined(a)
  \/ WebFailed(a) \/ MobileFailed(a)
  \/ WebRoomLost(a) \/ MobileRoomLost(a)
  \/ WebPeerLeft(a) \/ MobilePeerLeft(a)

Buttons(c) == startCall(c) \/ webAnswerCall(c) \/ mobileAnswerCall(c) \/ declineCall(c)

Next ==
  \/ \E a \in Attempts : Attempt(a)
  \/ \E c \in Calls : Buttons(c) \/ Peers(c)
  \/ \E o \in ops : Started(o) \/ Joins(o) \/ Settled(o) \/ Serve(o) \/ Refuse(o)
  \/ hangup \/ Deliver \/ Drop

Spec == Init /\ [][Next]_vars

-----------------------------------------------------------------------------
(* Properties                                                              *)

(* An answer that first leaves another call knows which; no other request  *)
(* does.                                                                   *)
Request ==
  [fn : {"start", "answer", "decline", "hangup", "tell"}, call : Calls,
   at : {"asked", "ok", "failed"}, prev : {None}]
  \cup [fn : {"answer"}, call : Calls, at : {"leave"}, prev : Calls]

Event == {"ring", "answered", "kicked", "taken", "ended"} \X Calls

States == {"none", "theirs", "elsewhere", "answered", "mine", "joined", "ended", "out"}

MediaType ==
  /\ at \in [Attempts -> {"idle", "release", "probe", "join"}]
  /\ target \in [Attempts -> Calls \cup {None}]
  /\ room \in [Attempts -> {"none", "joining", "live", "gone"}]
  /\ roomRef \in Attempts \cup {None} /\ current \in Attempts \cup {None}
  /\ overtaken \in BOOLEAN

TypeOK ==
  /\ app \in {"web", "mobile"}
  /\ srv \in [Calls -> States]
  /\ inbox \in Seq(Event)
  /\ active = <<>> \/ active \in Calls \X {"ringing", "active"} \X {"caller", "callee"}
  /\ incoming \in Calls \cup {None}
  /\ ops \subseteq Request
  /\ MediaType
  /\ ending \in BOOLEAN /\ displaced \in BOOLEAN /\ lost \subseteq Calls
  /\ trouble \in {"none", "failed", "taken"}

(* A room in which the microphone is live is the room in use and belongs   *)
(* to the call on the screen.  The web client keeps this as long as no     *)
(* release overtakes an attempt that has no room yet; the mobile client    *)
(* numbers its attempts (connectGenRef) and keeps it unless two attempts   *)
(* release at the same time.  An answer that replaces another active call  *)
(* is left out for both.                                                   *)
MediaHasCall ==
  \A a \in Attempts :
    room[a] = "live" /\ ~displaced /\ ~overtaken
      => roomRef = a /\ ActiveCall = target[a]

(* A call the web client shows as active has its room, or an attempt on    *)
(* the way to it, unless its own media failed or were lost, or a kick from *)
(* another call or an older attempt that failed took its room: nothing     *)
(* else that is heard about another call, and no order of the events, the  *)
(* answers and the attempts, leaves it silent.                             *)
ActiveHasMedia ==
  Web /\ active # <<>> /\ active[2] = "active" /\ trouble = "none"
    => \E a \in Attempts : target[a] = active[1] /\ (Busy(a) \/ room[a] = "live")

(* The web client never walks out of a call: one this user started or      *)
(* joined and that is open on the server is the active one, or a request   *)
(* about it is on the way, or an answer replaced it -- unless a hang-up    *)
(* failed on its way, the answer to the start or to the answer of the call *)
(* was lost, or a late decline announced its end.                          *)
LeftIsTold ==
  Web /\ ~displaced =>
    \A c \in Calls \ lost : srv[c] \in {"answered", "mine", "joined"} /\ ActiveCall # c
      => \E o \in ops : (o.call = c /\ o.at # "failed") \/ o.prev = c
=============================================================================
