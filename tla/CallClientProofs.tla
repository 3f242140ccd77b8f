-------------------------- MODULE CallClientProofs --------------------------
(***************************************************************************)
(* Proofs about CallClient, for any calls, attempts and events on their    *)
(* way: the web client does not leave a call without telling the server    *)
(* unless something about it was lost, a live microphone belongs to the    *)
(* call on the screen, and a call shown as active has media.               *)
(***************************************************************************)
EXTENDS CallClient, TLAPS

Over(c) == srv[c] \in {"elsewhere", "ended", "out"}
Engaged(c) == srv[c] \in {"answered", "mine", "joined"}

(* An event that takes a call from the screen is about a call that is over *)
(* or that the client may have lost.                                       *)
Gone(c) == Over(c) \/ c \in lost
Heard == \A i \in 1 .. Len(inbox) : inbox[i][1] \in {"kicked", "ended"} => Gone(inbox[i][2])

(* Request o will make c the active call, or tell the server of its end.   *)
Speaks(o, c) ==
  \/ o.call = c /\ o.fn \in {"start", "answer"} /\ o.at = "ok"
  \/ o.call = c /\ o.fn \in {"hangup", "tell"} /\ o.at = "asked"
  \/ o.prev = c /\ o.fn = "answer" /\ o.at = "leave"

(* Requests that have failed, or wait for their turn, speak for no call:   *)
(* LeftIsTold without them is kept by every step.                          *)
Spoken ==
  Web /\ ~displaced =>
    \A c \in Calls \ lost : Engaged(c) /\ ActiveCall # c => \E o \in ops : Speaks(o, c)

(* An attempt that has begun has a call to connect to.                     *)
Targeted ==
  /\ \A a \in Attempts : target[a] = None => at[a] = "idle" /\ room[a] = "none"
  /\ roomRef # None => target[roomRef] # None

Inv == Heard /\ Spoken /\ Targeted

-----------------------------------------------------------------------------
(* What every step has to show                                             *)

LEMMA SpokenKept ==
  ASSUME Spoken, app' = app, displaced => displaced', lost \subseteq lost',
         \A c \in Calls \ lost' : Engaged(c)' /\ ActiveCall' # c =>
           (Engaged(c) /\ ActiveCall # c) \/ \E p \in ops' : Speaks(p, c),
         \A c \in Calls \ lost', o \in ops : Speaks(o, c) /\ Engaged(c)' /\ ActiveCall' # c =>
           \E p \in ops' : Speaks(p, c)
  PROVE  Spoken'
<1>1. ASSUME Web', ~displaced', NEW c \in Calls \ lost', Engaged(c)', ActiveCall' # c
      PROVE  \E p \in ops' : Speaks(p, c)
  BY <1>1 DEF Spoken, Web
<1>2. QED
  BY <1>1 DEF Spoken

(* A step of the client leaves the server alone; it may hear an event.     *)
LEMMA HeardKept ==
  ASSUME inbox \in Seq(Event), Heard, srv' = srv, lost' = lost,
         inbox' \in {inbox, <<>>} \/ (inbox # <<>> /\ inbox' = Tail(inbox))
  PROVE  inbox' \in Seq(Event) /\ Heard'
<1>1. CASE inbox' = inbox
  BY <1>1 DEF Heard, Gone, Over
<1>2. CASE inbox' = <<>>
  BY <1>2 DEF Heard
<1>3. CASE inbox # <<>> /\ inbox' = Tail(inbox)
  <2>1. /\ inbox' \in Seq(Event) /\ Len(inbox') = Len(inbox) - 1
        /\ \A i \in 1 .. Len(inbox) - 1 : inbox'[i] = inbox[i + 1] /\ i + 1 \in 1 .. Len(inbox)
    BY <1>3
  <2>2. QED
    BY <2>1 DEF Heard, Gone, Over
<1>4. QED
  BY <1>1, <1>2, <1>3

LEMMA ActiveKept ==
  ASSUME TypeOK, active # <<>>
  PROVE  /\ [active EXCEPT ![2] = "active"] \in Calls \X {"ringing", "active"} \X {"caller", "callee"}
         /\ [active EXCEPT ![2] = "active"] # <<>>
         /\ [active EXCEPT ![2] = "active"][1] = active[1]
         /\ active[1] \in Calls
  BY DEF TypeOK

-----------------------------------------------------------------------------
(* The media                                                               *)

LEMMA NoRoomType ==
  ASSUME TypeOK
  PROVE  NoRoom \in [Attempts -> {"none", "joining", "live", "gone"}]
  BY DEF TypeOK, MediaType, NoRoom

LEMMA DisconnectType ==
  ASSUME TypeOK, disconnectRoom
  PROVE  /\ room' \in [Attempts -> {"none", "joining", "live", "gone"}]
         /\ roomRef' \in Attempts \cup {None} /\ current' \in Attempts \cup {None}
         /\ Web => overtaken' \in BOOLEAN
<1>1. CASE Web
  BY <1>1, NoRoomType DEF disconnectRoom, WebDisconnect, TypeOK, MediaType
<1>2. CASE ~Web
  BY <1>2, NoRoomType DEF disconnectRoom, MobileDisconnect
<1>3. QED
  BY <1>1, <1>2

LEMMA DisconnectTargeted ==
  ASSUME TypeOK, Targeted, disconnectRoom
  PROVE  roomRef' = None /\ \A a \in Attempts : target[a] = None => room'[a] = "none"
<1>1. room' = NoRoom /\ roomRef' = None
  BY DEF disconnectRoom, WebDisconnect, MobileDisconnect
<1>2. QED
  BY <1>1 DEF Targeted, NoRoom, TypeOK, MediaType

LEMMA DisconnectedType ==
  ASSUME TypeOK, Targeted, Disconnected
  PROVE  MediaType' /\ Targeted'
<1>1. disconnectRoom /\ (~Web => UNCHANGED overtaken) /\ UNCHANGED <<at, target>>
  BY DEF Disconnected
<1>2. MediaType'
  BY <1>1, DisconnectType DEF TypeOK, MediaType
<1>3. Targeted'
  BY <1>1, DisconnectTargeted DEF Targeted
<1>4. QED
  BY <1>2, <1>3

LEMMA ConnectType ==
  ASSUME TypeOK, Targeted, NEW c \in Calls, Connect(c)
  PROVE  MediaType' /\ trouble' \in {"none", "failed", "taken"} /\ Targeted'
<1>1. /\ disconnectRoom
      /\ ~Web => overtaken' = (overtaken \/ \E a \in Attempts : at[a] = "release")
      /\ trouble' = "none"
  BY DEF Connect
<1>2. PICK a \in Attempts : at' = [at EXCEPT ![a] = "release"] /\ target' = [target EXCEPT ![a] = c]
  BY DEF Connect
<1>3. overtaken' \in BOOLEAN
  BY <1>1, DisconnectType DEF TypeOK, MediaType
<1>4. /\ at' \in [Attempts -> {"idle", "release", "probe", "join"}]
      /\ target' \in [Attempts -> Calls \cup {None}]
  BY <1>2 DEF TypeOK, MediaType
<1>5. Targeted'
  BY <1>1, <1>2, <1>4, DisconnectTargeted, ClientAssumption DEF Targeted, TypeOK, MediaType
<1>6. QED
  BY <1>1, <1>3, <1>4, <1>5, DisconnectType DEF MediaType

(* The steps of an attempt that only concern its room.                     *)
RoomStep(a) ==
  \/ WebReleased(a) \/ MobileReleased(a) \/ WebProbed(a) \/ MobileProbed(a)
  \/ WebJoined(a) \/ WebFailed(a) \/ MobileFailed(a) \/ WebRoomLost(a)

LEMMA WithoutType ==
  ASSUME TypeOK, NEW a \in Attempts
  PROVE  Without(a) \in [Attempts -> {"none", "joining", "live", "gone"}]
  BY NoRoomType DEF Without

LEMMA RoomStepType ==
  ASSUME TypeOK, NEW a \in Attempts, RoomStep(a)
  PROVE  MediaType' /\ trouble' \in {"none", "failed", "taken"}
<1>1. CASE WebReleased(a) \/ MobileReleased(a)
  BY <1>1 DEF WebReleased, MobileReleased, TypeOK, MediaType
<1>2. CASE WebProbed(a)
  BY <1>2 DEF WebProbed, EnterRoom, TypeOK, MediaType
<1>3. CASE MobileProbed(a)
  BY <1>3 DEF MobileProbed, EnterRoom, Done, TypeOK, MediaType
<1>4. CASE WebJoined(a)
  BY <1>4 DEF WebJoined, Done, TypeOK, MediaType
<1>5. CASE WebFailed(a)
  BY <1>5, WithoutType DEF WebFailed, Done, TypeOK, MediaType
<1>6. CASE MobileFailed(a)
  BY <1>6, WithoutType DEF MobileFailed, Done, TypeOK, MediaType
<1>7. CASE WebRoomLost(a)
  BY <1>7 DEF WebRoomLost, TypeOK, MediaType
<1>8. QED
  BY <1>1, <1>2, <1>3, <1>4, <1>5, <1>6, <1>7 DEF RoomStep

LEMMA RoomStepTargeted ==
  ASSUME TypeOK, Targeted, NEW a \in Attempts, RoomStep(a)
  PROVE  Targeted'
<1>1. target[a] # None /\ UNCHANGED target
  BY DEF RoomStep, WebReleased, MobileReleased, WebProbed, MobileProbed, WebJoined,
         WebFailed, MobileFailed, WebRoomLost, Fails, Targeted
<1>2. \A b \in Attempts \ {a} : at'[b] = at[b]
  BY DEF RoomStep, WebReleased, MobileReleased, WebProbed, MobileProbed, WebJoined,
         WebFailed, MobileFailed, WebRoomLost, Done, EnterRoom, TypeOK, MediaType
<1>3. roomRef' \in {roomRef, a, None}
  BY DEF RoomStep, WebReleased, MobileReleased, WebProbed, MobileProbed, WebJoined,
         WebFailed, MobileFailed, WebRoomLost, EnterRoom
<1>4. \A b \in Attempts \ {a, roomRef} : room'[b] = room[b]
  BY DEF RoomStep, WebReleased, MobileReleased, WebProbed, MobileProbed, WebJoined,
         WebFailed, MobileFailed, WebRoomLost, EnterRoom, Without, NoRoom, TypeOK, MediaType
<1>5. ASSUME NEW b \in Attempts, target'[b] = None
      PROVE  at'[b] = "idle" /\ room'[b] = "none"
  <2>1. b # a /\ b # roomRef /\ target[b] = None
    BY <1>1, <1>5, ClientAssumption DEF Targeted, Attempts
  <2>2. QED
    BY <2>1, <1>2, <1>4 DEF Targeted
<1>6. roomRef' # None => target'[roomRef'] # None
  BY <1>1, <1>3 DEF Targeted
<1>7. QED
  BY <1>5, <1>6 DEF Targeted

LEMMA RoomStepKeeps ==
  ASSUME TypeOK, Inv, NEW a \in Attempts, RoomStep(a)
  PROVE  TypeOK' /\ Inv'
<1>1. UNCHANGED <<app, srv, lost, inbox, active, incoming, ops, ending, displaced>>
  BY DEF RoomStep, WebReleased, MobileReleased, WebProbed, MobileProbed, WebJoined,
         WebFailed, MobileFailed, WebRoomLost, Keep
<1>2. TypeOK'
  BY <1>1, RoomStepType DEF TypeOK
<1>3. Heard'
  BY <1>1 DEF Inv, Heard, Gone, Over
<1>4. Spoken'
  BY <1>1 DEF Inv, Spoken, Web, Engaged, ActiveCall
<1>5. QED
  BY <1>2, <1>3, <1>4, RoomStepTargeted DEF Inv

-----------------------------------------------------------------------------
(* The steps that change the call on the screen                            *)

LEMMA MobileJoinedKeeps ==
  ASSUME TypeOK, Inv, NEW a \in Attempts, MobileJoined(a)
  PROVE  TypeOK' /\ Inv'
<1>1. UNCHANGED <<app, srv, inbox, incoming, ops, target, roomRef, current, ending,
                  trouble, overtaken, lost, displaced>>
  BY DEF MobileJoined, Keep
<1>2. MediaType'
  BY <1>1 DEF MobileJoined, Done, TypeOK, MediaType
<1>3. active' = <<>> \/ active' \in Calls \X {"ringing", "active"} \X {"caller", "callee"}
  <2>1. CASE StillCurrent(a) /\ roomRef = a
    <3>1. active' = [active EXCEPT ![2] = "active"]
      BY <2>1 DEF MobileJoined
    <3>2. CASE active # <<>>
      BY <3>1, <3>2, ActiveKept
    <3>3. CASE active = <<>>
      BY <3>1, <3>3
    <3>4. QED
      BY <3>2, <3>3
  <2>2. CASE ~(StillCurrent(a) /\ roomRef = a)
    BY <2>2 DEF MobileJoined, TypeOK
  <2>3. QED
    BY <2>1, <2>2
<1>4. TypeOK'
  BY <1>1, <1>2, <1>3 DEF TypeOK
<1>5. Heard'
  BY <1>1 DEF Inv, Heard, Gone, Over
<1>6. Spoken'
  BY <1>1 DEF MobileJoined, Spoken, Web
<1>7. Targeted'
  BY <1>1 DEF MobileJoined, Done, Inv, Targeted, TypeOK, MediaType
<1>8. QED
  BY <1>4, <1>5, <1>6, <1>7 DEF Inv

(* A step of the client that may end the active call, but speaks for it.   *)
LEMMA LeavesKeeps ==
  ASSUME TypeOK, Inv, app' = app, srv' = srv, inbox' = inbox, displaced' = displaced, lost' = lost,
         active' \in {active, <<>>},
         NEW S \in SUBSET Request, ops' = ops \cup S,
         active' # active => \E p \in S : Speaks(p, ActiveCall),
         incoming' \in Calls \cup {None}, ending' \in BOOLEAN, trouble' \in {"none", "failed", "taken"}, MediaType', Targeted'
  PROVE  TypeOK' /\ Inv'
<1>1. TypeOK'
  BY DEF TypeOK
<1>2. Heard'
  BY DEF Inv, Heard, Gone, Over
<1>3. ASSUME NEW c \in Calls \ lost', Engaged(c)', ActiveCall' # c
      PROVE  (Engaged(c) /\ ActiveCall # c) \/ \E p \in ops' : Speaks(p, c)
  <2>1. Engaged(c)
    BY <1>3 DEF Engaged
  <2>2. CASE active' = active
    BY <1>3, <2>1, <2>2 DEF ActiveCall
  <2>3. CASE active' # active
    BY <2>1, <2>3
  <2>4. QED
    BY <2>2, <2>3
<1>4. Spoken'
  BY <1>3, SpokenKept DEF Inv
<1>5. QED
  BY <1>1, <1>2, <1>4 DEF Inv

LEMMA RoomLostKeeps ==
  ASSUME TypeOK, Inv, NEW a \in Attempts, MobileRoomLost(a)
  PROVE  TypeOK' /\ Inv'
<1>1. MediaType' /\ ~Web
  BY DEF MobileRoomLost, TypeOK, MediaType
<1>2. /\ UNCHANGED <<app, srv, lost, inbox, incoming, ending, trouble, displaced>>
      /\ active' \in {active, <<>>}
  BY DEF MobileRoomLost, Keep
<1>3. ops' \subseteq Request
  <2>1. CASE current = a /\ ~ending /\ ActiveCall = target[a]
    <3>1. target[a] \in Calls
      BY DEF MobileRoomLost, Inv, Targeted, TypeOK, MediaType
    <3>2. QED
      BY <2>1, <3>1 DEF MobileRoomLost, TypeOK, Waiting, Ask, Request
  <2>2. CASE ~(current = a /\ ~ending /\ ActiveCall = target[a])
    BY <2>2 DEF MobileRoomLost, TypeOK
  <2>3. QED
    BY <2>1, <2>2
<1>4. TypeOK'
  BY <1>1, <1>2, <1>3 DEF TypeOK
<1>5. Heard' /\ Spoken'
  BY <1>1, <1>2 DEF Inv, Heard, Gone, Over, Spoken, Web
<1>6. Targeted'
  BY DEF MobileRoomLost, Inv, Targeted, TypeOK, MediaType
<1>7. QED
  BY <1>4, <1>5, <1>6 DEF Inv

LEMMA PeerLeftKeeps ==
  ASSUME TypeOK, Inv, NEW a \in Attempts, WebPeerLeft(a) \/ MobilePeerLeft(a)
  PROVE  TypeOK' /\ Inv'
<1>1. target[a] \in Calls /\ target[a] = ActiveCall
  BY DEF WebPeerLeft, MobilePeerLeft, PeerGone, Inv, Targeted, TypeOK, MediaType
<1>2. PICK f \in {"hangup", "tell"} : ops' = ops \cup {Waiting(f, target[a], "asked", None)}
  BY DEF WebPeerLeft, MobilePeerLeft, Ask
<1>3. /\ Waiting(f, target[a], "asked", None) \in Request
      /\ Speaks(Waiting(f, target[a], "asked", None), target[a])
  BY <1>1 DEF Waiting, Request, Speaks
<1>4. Disconnected
  BY DEF WebPeerLeft, MobilePeerLeft
<1>5. /\ UNCHANGED <<app, srv, lost, inbox, displaced>>
      /\ active' = <<>>
      /\ incoming' \in Calls \cup {None} /\ ending' \in BOOLEAN /\ trouble' \in {"none", "failed", "taken"}
  BY DEF WebPeerLeft, MobilePeerLeft, Keep, TypeOK
<1>6. MediaType' /\ Targeted'
  BY <1>4, DisconnectedType DEF Inv
<1>7. QED
  BY <1>1, <1>2, <1>3, <1>5, <1>6, LeavesKeeps

-----------------------------------------------------------------------------
(* The buttons                                                             *)

LEMMA ActiveType ==
  ASSUME TypeOK
  PROVE  /\ ActiveCall \in Calls \cup {None}
         /\ active # <<>> => ActiveCall = active[1] /\ active[1] \in Calls
  BY DEF TypeOK, ActiveCall

LEMMA startCallKeeps ==
  ASSUME TypeOK, Inv, NEW c \in Calls,
         startCall(c) \/ mobileAnswerCall(c) \/ declineCall(c)
  PROVE  TypeOK' /\ Inv'
<1>1. PICK f \in {"start", "answer", "decline"} : ops' = ops \cup {Waiting(f, c, "asked", None)}
  BY DEF startCall, mobileAnswerCall, declineCall, Ask
<1>2. Waiting(f, c, "asked", None) \in Request
  BY DEF Waiting, Request
<1>3. /\ UNCHANGED <<app, srv, lost, inbox, displaced, active, media>>
      /\ incoming' \in Calls \cup {None} /\ ending' \in BOOLEAN /\ trouble' \in {"none", "failed", "taken"}
  BY DEF startCall, mobileAnswerCall, declineCall, Keep, TypeOK
<1>4. MediaType' /\ Targeted'
  BY <1>3 DEF media, Inv, Targeted, TypeOK, MediaType
<1>5. QED
  BY <1>1, <1>2, <1>3, <1>4, LeavesKeeps

LEMMA webAnswerCallKeeps ==
  ASSUME TypeOK, Inv, NEW c \in Calls, webAnswerCall(c)
  PROVE  TypeOK' /\ Inv'
<1>1. /\ UNCHANGED <<app, srv, lost, inbox, displaced>>
      /\ incoming' \in Calls \cup {None} /\ ending' \in BOOLEAN /\ trouble' \in {"none", "failed", "taken"}
  BY DEF webAnswerCall, Keep, TypeOK
<1>2. CASE ActiveCall \notin {None, c}
  <2>1. /\ active' = <<>> /\ Disconnected
        /\ ops' = ops \cup {Waiting("answer", c, "leave", ActiveCall)}
    BY <1>2 DEF webAnswerCall, Ask
  <2>2. /\ Waiting("answer", c, "leave", ActiveCall) \in Request
        /\ Speaks(Waiting("answer", c, "leave", ActiveCall), ActiveCall)
    BY <1>2, ActiveType DEF Waiting, Request, Speaks
  <2>3. MediaType' /\ Targeted'
    BY <2>1, DisconnectedType DEF Inv
  <2>4. QED
    BY <1>1, <2>1, <2>2, <2>3, LeavesKeeps
<1>3. CASE ActiveCall \in {None, c}
  <2>1. UNCHANGED <<active, media>> /\ ops' = ops \cup {Waiting("answer", c, "asked", None)}
    BY <1>3 DEF webAnswerCall, Ask
  <2>2. Waiting("answer", c, "asked", None) \in Request
    BY DEF Waiting, Request
  <2>3. MediaType' /\ Targeted'
    BY <2>1 DEF media, Inv, Targeted, TypeOK, MediaType
  <2>4. QED
    BY <1>1, <2>1, <2>2, <2>3, LeavesKeeps
<1>4. QED
  BY <1>2, <1>3

LEMMA hangupKeeps ==
  ASSUME TypeOK, Inv, hangup
  PROVE  TypeOK' /\ Inv'
<1>1. active # <<>> /\ ActiveCall = active[1] /\ active[1] \in Calls
  BY ActiveType DEF hangup
<1>2. ops' = ops \cup {Waiting("hangup", active[1], "asked", None)}
  BY DEF hangup, Ask
<1>3. /\ Waiting("hangup", active[1], "asked", None) \in Request
      /\ Speaks(Waiting("hangup", active[1], "asked", None), ActiveCall)
  BY <1>1 DEF Waiting, Request, Speaks
<1>4. /\ UNCHANGED <<app, srv, lost, inbox, displaced>> /\ active' = <<>>
      /\ incoming' \in Calls \cup {None} /\ ending' \in BOOLEAN /\ trouble' \in {"none", "failed", "taken"}
  BY DEF hangup, Keep, TypeOK
<1>5. MediaType' /\ Targeted'
  BY DisconnectedType DEF hangup, Inv
<1>6. QED
  BY <1>2, <1>3, <1>4, <1>5, LeavesKeeps

-----------------------------------------------------------------------------
(* The answers of the server                                               *)

LEMMA BecomesKeeps ==
  ASSUME TypeOK, Inv, NEW o \in ops, Started(o) \/ Joins(o)
  PROVE  TypeOK' /\ Inv'
<1>1. o.call \in Calls /\ ops' \subseteq ops /\ \A p \in ops \ {o} : p \in ops'
  BY DEF Started, Joins, Answered, TypeOK, Request
<1>2. /\ UNCHANGED <<app, srv, lost, inbox, ending>> /\ (displaced => displaced')
      /\ displaced' \in BOOLEAN /\ incoming' \in Calls \cup {None}
  BY DEF Started, Joins, Become, TypeOK
<1>3. active' \in Calls \X {"ringing", "active"} \X {"caller", "callee"} /\ ActiveCall' = o.call
  <2>1. PICK s \in {"ringing", "active"}, r \in {"caller", "callee"} : active' = <<o.call, s, r>>
    BY DEF Started, Joins, Become
  <2>2. QED
    BY <1>1, <2>1 DEF ActiveCall
<1>4. MediaType' /\ trouble' \in {"none", "failed", "taken"} /\ Targeted'
  <2>1. CASE Connect(o.call)
    BY <1>1, <2>1, ConnectType DEF Inv
  <2>2. CASE UNCHANGED <<media, trouble>>
    BY <2>2 DEF media, Inv, Targeted, TypeOK, MediaType
  <2>3. QED
    BY <2>1, <2>2 DEF Started, Joins
<1>5. TypeOK'
  BY <1>1, <1>2, <1>3, <1>4 DEF TypeOK
<1>6. Heard'
  BY <1>2 DEF Inv, Heard, Gone, Over
<1>7. Spoken'
  <2>1. ASSUME NEW c \in Calls, Engaged(c)', ActiveCall' # c, ~displaced'
        PROVE  Engaged(c) /\ ActiveCall # c
    <3>1. displaced' = (displaced \/ ActiveCall \notin {None, o.call})
      BY DEF Started, Joins, Become
    <3>2. ActiveCall \in {None, o.call}
      BY <2>1, <3>1
    <3>3. c # o.call /\ c # None
      BY <1>3, <2>1, ClientAssumption
    <3>4. Engaged(c)
      BY <1>2, <2>1 DEF Engaged
    <3>5. QED
      BY <3>2, <3>3, <3>4
  <2>2. ASSUME NEW c \in Calls, Engaged(c)', ActiveCall' # c, NEW p \in ops, Speaks(p, c)
        PROVE  p \in ops'
    <3>1. p # o
      BY <1>3, <2>2 DEF Speaks, Started, Joins
    <3>2. QED
      BY <1>1, <3>1
  <2>3. ASSUME Web', ~displaced', NEW c \in Calls \ lost', Engaged(c)', ActiveCall' # c
        PROVE  \E p \in ops' : Speaks(p, c)
    <3>1. Web /\ ~displaced /\ Engaged(c) /\ ActiveCall # c
      BY <1>2, <2>1, <2>3 DEF Web
    <3>2. c \notin lost
      BY <1>2, <2>3
    <3>3. PICK p \in ops : Speaks(p, c)
      BY <3>1, <3>2 DEF Inv, Spoken
    <3>4. QED
      BY <2>2, <2>3, <3>3
  <2>4. QED
    BY <2>3 DEF Spoken
<1>8. QED
  BY <1>4, <1>5, <1>6, <1>7 DEF Inv

LEMMA SettledKeeps ==
  ASSUME TypeOK, Inv, NEW o \in ops, Settled(o)
  PROVE  TypeOK' /\ Inv'
<1>1. /\ UNCHANGED <<app, srv, lost, inbox, active, incoming, media, trouble, displaced>>
      /\ ending' \in BOOLEAN /\ ops' = ops \ {o}
  BY DEF Settled, Keep, Answered, TypeOK
<1>2. MediaType' /\ Targeted'
  BY <1>1 DEF media, Inv, Targeted, TypeOK, MediaType
<1>3. TypeOK'
  BY <1>1, <1>2 DEF TypeOK
<1>4. Heard'
  BY <1>1 DEF Inv, Heard, Gone, Over
<1>5. \A c \in Calls : ~Speaks(o, c)
  BY DEF Settled, Speaks
<1>6. Spoken'
  BY <1>1, <1>5 DEF Inv, Spoken, Web, Engaged, ActiveCall
<1>7. QED
  BY <1>2, <1>3, <1>4, <1>6 DEF Inv

-----------------------------------------------------------------------------
(* Events                                                                  *)

(* An event may take a call that is over from the screen.                  *)
LEMMA OnEventKeeps ==
  ASSUME TypeOK, Inv, UNCHANGED <<app, srv, lost, displaced, ops>>,
         inbox' \in {inbox, <<>>} \/ (inbox # <<>> /\ inbox' = Tail(inbox)),
         active' = <<>> \/ active' \in Calls \X {"ringing", "active"} \X {"caller", "callee"},
         ActiveCall' = ActiveCall \/ (Web => Gone(ActiveCall)),
         incoming' \in Calls \cup {None}, ending' \in BOOLEAN, trouble' \in {"none", "failed", "taken"},
         MediaType', Targeted'
  PROVE  TypeOK' /\ Inv'
<1>1. inbox' \in Seq(Event) /\ Heard'
  BY HeardKept DEF Inv, TypeOK
<1>2. TypeOK'
  BY <1>1 DEF TypeOK
<1>3. ASSUME Web', ~displaced', NEW c \in Calls \ lost', Engaged(c)', ActiveCall' # c
      PROVE  \E p \in ops' : Speaks(p, c)
  <2>1. Web /\ ~displaced /\ Engaged(c) /\ c \notin lost /\ ~Gone(c)
    BY <1>3 DEF Web, Engaged, Gone, Over
  <2>2. ActiveCall # c
    BY <1>3, <2>1
  <2>3. QED
    BY <2>1, <2>2 DEF Inv, Spoken
<1>4. Spoken'
  BY <1>3 DEF Spoken
<1>5. QED
  BY <1>1, <1>2, <1>4 DEF Inv

LEMMA DeliverKeeps ==
  ASSUME TypeOK, Inv, Deliver
  PROVE  TypeOK' /\ Inv'
<1>1. /\ inbox # <<>> /\ inbox' = Tail(inbox) /\ UNCHANGED <<app, srv, lost, displaced>>
  BY DEF Deliver, Keep
<1>2. /\ Head(inbox)[2] \in Calls
      /\ Head(inbox)[1] \in {"kicked", "ended"} => Gone(Head(inbox)[2])
  <2>1. Len(inbox) \in Nat \ {0} /\ Head(inbox) = inbox[1] /\ Head(inbox) \in Event
    BY <1>1 DEF TypeOK
  <2>2. QED
    BY <2>1 DEF Inv, Heard, Event
<1>3. DEFINE c == Head(inbox)[2]
<1>4. CASE OnRing(c)
  <2>1. /\ UNCHANGED <<active, ops, media, ending, trouble>>
        /\ incoming' \in Calls \cup {None}
    BY <1>2, <1>4 DEF OnRing, TypeOK
  <2>2. MediaType' /\ Targeted' /\ ActiveCall' = ActiveCall
    BY <2>1 DEF media, Inv, Targeted, TypeOK, MediaType, ActiveCall
  <2>3. QED
    BY <1>1, <2>1, <2>2, OnEventKeeps DEF TypeOK
<1>5. CASE OnAnswered(c)
  <2>1. CASE active # <<>> /\ active[3] = "caller" /\ active[1] = c
    <3>1. active' = [active EXCEPT ![2] = "active"] /\ incoming' = None /\ UNCHANGED <<ops, ending>>
      BY <1>5, <2>1 DEF OnAnswered
    <3>2. ActiveCall' = ActiveCall
      BY <2>1, <3>1, ActiveKept DEF ActiveCall
    <3>3. MediaType' /\ trouble' \in {"none", "failed", "taken"} /\ Targeted'
      <4>1. CASE Connect(c)
        BY <1>2, <4>1, ConnectType DEF Inv
      <4>2. CASE UNCHANGED <<media, trouble>>
        BY <4>2 DEF media, Inv, Targeted, TypeOK, MediaType
      <4>3. QED
        BY <1>5, <2>1, <4>1, <4>2 DEF OnAnswered
    <3>4. QED
      BY <1>1, <2>1, <3>1, <3>2, <3>3, ActiveKept, OnEventKeeps DEF TypeOK
  <2>2. CASE ~(active # <<>> /\ active[3] = "caller" /\ active[1] = c)
    <3>1. UNCHANGED <<active, incoming, ops, media, ending, trouble>>
      BY <1>5, <2>2 DEF OnAnswered
    <3>2. MediaType' /\ Targeted' /\ ActiveCall' = ActiveCall
      BY <3>1 DEF media, Inv, Targeted, TypeOK, MediaType, ActiveCall
    <3>3. QED
      BY <1>1, <3>1, <3>2, OnEventKeeps DEF TypeOK
  <2>3. QED
    BY <2>1, <2>2
<1>6. CASE Head(inbox)[1] = "kicked" /\ OnKicked(c)
  <2>1. /\ incoming' = None /\ ending' = FALSE /\ trouble' \in {"none", "failed", "taken"} /\ UNCHANGED ops
        /\ active' = IF ActiveCall = c THEN <<>> ELSE active
    BY <1>6 DEF OnKicked, TypeOK
  <2>2. MediaType' /\ Targeted'
    BY <1>6, DisconnectedType DEF OnKicked, Inv
  <2>3. ActiveCall' = ActiveCall \/ Gone(ActiveCall)
    BY <1>2, <1>6, <2>1 DEF ActiveCall
  <2>4. QED
    BY <1>1, <2>1, <2>2, <2>3, OnEventKeeps DEF TypeOK
<1>7. CASE OnTaken(c)
  <2>1. UNCHANGED <<active, ops, media, ending, trouble>> /\ incoming' \in Calls \cup {None}
    BY <1>7 DEF OnTaken, TypeOK
  <2>2. MediaType' /\ Targeted' /\ ActiveCall' = ActiveCall
    BY <2>1 DEF media, Inv, Targeted, TypeOK, MediaType, ActiveCall
  <2>3. QED
    BY <1>1, <2>1, <2>2, OnEventKeeps DEF TypeOK
<1>8. CASE Head(inbox)[1] = "ended" /\ OnEnded(c)
  <2>1. ending' = FALSE /\ UNCHANGED <<ops, trouble>>
    BY <1>8 DEF OnEnded
  <2>2. CASE Web
    <3>1. WebEnded(c)
      BY <1>8, <2>2 DEF OnEnded
    <3>2. /\ incoming' \in Calls \cup {None}
          /\ active' = IF ActiveCall = c THEN <<>> ELSE active
      BY <3>1 DEF WebEnded, TypeOK
    <3>3. MediaType' /\ Targeted'
      <4>1. CASE Disconnected
        BY <4>1, DisconnectedType DEF Inv
      <4>2. CASE UNCHANGED media
        BY <4>2 DEF media, Inv, Targeted, TypeOK, MediaType
      <4>3. QED
        BY <3>1, <4>1, <4>2 DEF WebEnded
    <3>4. ActiveCall' = ActiveCall \/ Gone(ActiveCall)
      BY <1>2, <1>8, <3>2 DEF ActiveCall
    <3>5. QED
      BY <1>1, <2>1, <3>2, <3>3, <3>4, OnEventKeeps DEF TypeOK
  <2>3. CASE ~Web
    <3>1. MobileEnded(c)
      BY <1>8, <2>3 DEF OnEnded
    <3>2. /\ incoming' \in Calls \cup {None} /\ active' \in {active, <<>>} /\ Disconnected
      BY <3>1 DEF MobileEnded, TypeOK
    <3>3. MediaType' /\ Targeted'
      BY <3>2, DisconnectedType DEF Inv
    <3>4. QED
      BY <1>1, <2>1, <2>3, <3>2, <3>3, OnEventKeeps DEF TypeOK
  <2>4. QED
    BY <2>2, <2>3
<1>9. QED
  BY <1>4, <1>5, <1>6, <1>7, <1>8 DEF Deliver

LEMMA DropKeeps ==
  ASSUME TypeOK, Inv, Drop
  PROVE  TypeOK' /\ Inv'
<1>1. /\ inbox' = <<>> /\ UNCHANGED <<active, incoming, ops, media, ending, trouble>>
      /\ UNCHANGED <<app, srv, lost, displaced>>
  BY DEF Drop, Keep
<1>2. MediaType' /\ Targeted' /\ ActiveCall' = ActiveCall
  BY <1>1 DEF media, Inv, Targeted, TypeOK, MediaType, ActiveCall
<1>3. QED
  BY <1>1, <1>2, OnEventKeeps DEF TypeOK

-----------------------------------------------------------------------------
(* The server                                                              *)

(* The server moves call c, which stays over if it is, and may say so.     *)
LEMMA NotifyKeeps ==
  ASSUME TypeOK, Heard, NEW c \in Calls, NEW s \in States, NEW e, Notify(c, s, e), lost \subseteq lost',
         e \in {"ring", "answered", "kicked", "taken", "ended", "nothing"},
         Over(c) => s \in {"elsewhere", "ended", "out"},
         e \in {"kicked", "ended"} => s \in {"elsewhere", "ended", "out"} \/ c \in lost'
  PROVE  /\ srv' \in [Calls -> States] /\ inbox' \in Seq(Event) /\ Heard'
         /\ srv'[c] = s /\ \A d \in Calls : d # c => srv'[d] = srv[d]
<1>1. /\ srv' = [srv EXCEPT ![c] = s] /\ srv \in [Calls -> States] /\ inbox \in Seq(Event)
      /\ inbox' = IF e = "nothing" THEN inbox ELSE Append(inbox, <<e, c>>)
  BY DEF Notify, TypeOK
<1>2. /\ srv' \in [Calls -> States] /\ srv'[c] = s
      /\ \A d \in Calls : d # c => srv'[d] = srv[d]
  BY <1>1
<1>3. ASSUME NEW d \in Calls, Gone(d)
      PROVE  Gone(d)'
  <2>1. CASE d = c
    BY <1>2, <1>3, <2>1 DEF Gone, Over
  <2>2. CASE d # c
    BY <1>2, <1>3, <2>2 DEF Gone, Over
  <2>3. QED
    BY <2>1, <2>2
<1>4. ASSUME NEW i \in 1 .. Len(inbox), inbox[i][1] \in {"kicked", "ended"}
      PROVE  \/ srv'[inbox[i][2]] \in {"elsewhere", "ended", "out"}
             \/ inbox[i][2] \in lost'
  <2>1. PICK d \in Calls : d = inbox[i][2]
    BY <1>1, <1>4 DEF Event
  <2>2. Gone(d)'
    BY <1>3, <1>4, <2>1 DEF Heard
  <2>3. QED
    BY <2>1, <2>2 DEF Gone, Over
<1>5. CASE e = "nothing"
  <2>1. inbox' = inbox
    BY <1>1, <1>5
  <2>2. Heard'
    BY <1>4, <2>1 DEF Heard, Gone, Over
  <2>3. QED
    BY <1>1, <1>2, <2>1, <2>2
<1>6. CASE e # "nothing"
  <2>1. /\ inbox' \in Seq(Event) /\ Len(inbox') = Len(inbox) + 1
        /\ inbox'[Len(inbox) + 1] = <<e, c>>
        /\ \A i \in 1 .. Len(inbox) : inbox'[i] = inbox[i]
    BY <1>1, <1>6 DEF Event
  <2>2. ASSUME NEW i \in 1 .. Len(inbox'), inbox'[i][1] \in {"kicked", "ended"}
        PROVE  \/ srv'[inbox'[i][2]] \in {"elsewhere", "ended", "out"}
               \/ inbox'[i][2] \in lost'
    <3>1. CASE i \in 1 .. Len(inbox)
      BY <1>4, <2>1, <2>2, <3>1
    <3>2. CASE i \notin 1 .. Len(inbox)
      <4>1. i = Len(inbox) + 1
        BY <1>1, <2>1, <3>2
      <4>2. inbox'[i][1] = e /\ inbox'[i][2] = c
        BY <2>1, <4>1
      <4>3. QED
        BY <1>2, <2>2, <4>2
    <3>3. QED
      BY <3>1, <3>2
  <2>3. Heard'
    BY <2>2 DEF Heard, Gone, Over
  <2>4. QED
    BY <1>2, <2>1, <2>3
<1>7. QED
  BY <1>5, <1>6

(* After a hang-up the user is in the call no more.                        *)
LEMMA EndByKeeps ==
  ASSUME TypeOK, Heard, NEW c \in Calls, EndBy(c)
  PROVE  /\ srv' \in [Calls -> States] /\ inbox' \in Seq(Event) /\ Heard' /\ lost' = lost
         /\ ~Engaged(c)' /\ \A d \in Calls : d # c => srv'[d] = srv[d]
<1>0. lost' = lost
  BY DEF EndBy
<1>1. CASE ~Open(c)
  BY <1>0, <1>1 DEF EndBy, Open, Engaged, Heard, Gone, Over, TypeOK
<1>2. CASE Open(c)
  <2>1. ~Over(c)
    BY <1>2 DEF Open, Over
  <2>2. CASE Notify(c, "out", "nothing")
    BY <1>0, <2>1, <2>2, NotifyKeeps DEF Engaged, States
  <2>3. CASE Notify(c, "ended", "ended")
    BY <1>0, <2>1, <2>3, NotifyKeeps DEF Engaged, States
  <2>4. QED
    BY <1>2, <2>2, <2>3 DEF EndBy
<1>3. QED
  BY <1>0, <1>1, <1>2

LEMMA UnheardKeeps ==
  ASSUME TypeOK, Heard, NEW c \in Calls, Unheard(c)
  PROVE  /\ srv' \in [Calls -> States] /\ inbox' \in Seq(Event) /\ Heard'
         /\ lost' = lost \cup {c} /\ \A d \in Calls : d # c => srv'[d] = srv[d]
  BY DEF Unheard, Heard, Gone, Over, TypeOK

(* A decline takes nobody into a call.                                     *)
LEMMA DeclineByKeeps ==
  ASSUME TypeOK, Heard, NEW c \in Calls, DeclineBy(c)
  PROVE  /\ srv' \in [Calls -> States] /\ inbox' \in Seq(Event) /\ Heard'
         /\ lost \subseteq lost' /\ lost' \subseteq Calls
         /\ \A d \in Calls : Engaged(d)' => Engaged(d)
<1>1. lost \subseteq lost' /\ lost' \subseteq Calls
  BY DEF DeclineBy, TypeOK
<1>2. CASE srv[c] = "theirs" /\ Notify(c, "ended", "ended") /\ UNCHANGED lost
  BY <1>1, <1>2, NotifyKeeps DEF Engaged, States
<1>3. CASE srv[c] \in {"theirs", "answered"} /\ Notify(c, "out", "nothing") /\ UNCHANGED lost
  BY <1>1, <1>3, NotifyKeeps DEF Engaged, States
<1>4. CASE srv[c] \in {"answered", "elsewhere"} /\ Notify(c, srv[c], "ended") /\ lost' = lost \cup {c}
  <2>1. srv[c] \in States /\ (Over(c) => srv[c] \in {"elsewhere", "ended", "out"}) /\ c \in lost'
    BY <1>4 DEF States, Over
  <2>2. QED
    BY <1>1, <1>4, <2>1, NotifyKeeps DEF Engaged
<1>5. CASE UNCHANGED <<srv, inbox, lost>>
  BY <1>1, <1>5 DEF Heard, Gone, Over, Engaged, TypeOK
<1>6. QED
  BY <1>2, <1>3, <1>4, <1>5 DEF DeclineBy

(* What has to be shown of a step of the server.                           *)
LEMMA ServerKeeps ==
  ASSUME TypeOK, Inv, Mine, lost \subseteq lost', lost' \subseteq Calls,
         srv' \in [Calls -> States], inbox' \in Seq(Event), Heard', ops' \subseteq Request,
         \A c \in Calls \ lost' : Engaged(c)' => Engaged(c) \/ \E p \in ops' : Speaks(p, c),
         \A c \in Calls \ lost', p \in ops : Speaks(p, c) /\ Engaged(c)' => p \in ops'
  PROVE  TypeOK' /\ Inv'
<1>1. UNCHANGED <<app, active, incoming, media, ending, trouble, displaced>>
  BY DEF Mine
<1>2. MediaType' /\ Targeted' /\ ActiveCall' = ActiveCall
  BY <1>1 DEF media, Inv, Targeted, TypeOK, MediaType, ActiveCall
<1>3. TypeOK'
  BY <1>1, <1>2 DEF TypeOK
<1>4. Spoken'
  BY <1>1, <1>2, SpokenKept DEF Inv
<1>5. QED
  BY <1>2, <1>3, <1>4 DEF Inv

LEMMA PeersKeeps ==
  ASSUME TypeOK, Inv, NEW c \in Calls, Peers(c)
  PROVE  TypeOK' /\ Inv'
<1>1. Mine /\ ops' = ops /\ lost' = lost /\ Heard
  BY DEF Peers, Inv
<1>2. PICK s \in States, e \in {"ring", "answered", "kicked", "taken", "ended"} :
        /\ Notify(c, s, e) /\ ~Over(c)
        /\ e \in {"kicked", "ended"} => s \in {"elsewhere", "ended", "out"}
        /\ s \in {"answered", "mine", "joined"} => Engaged(c)
  <2>1. CASE srv[c] = "none" /\ Notify(c, "theirs", "ring")
    BY <2>1 DEF States, Over
  <2>2. CASE srv[c] = "mine" /\ Notify(c, "joined", "answered")
    BY <2>2 DEF States, Over, Engaged
  <2>3. CASE Open(c) /\ Notify(c, "ended", "ended")
    BY <2>3 DEF States, Over, Open
  <2>4. CASE srv[c] = "theirs" /\ Notify(c, "elsewhere", "taken")
    BY <2>4 DEF States, Over
  <2>5. CASE srv[c] \in {"theirs", "answered"} /\ Notify(c, "out", "kicked")
    BY <2>5 DEF States, Over
  <2>6. CASE srv[c] = "joined" /\ Notify(c, "joined", "answered")
    BY <2>6 DEF States, Over, Engaged
  <2>7. QED
    BY <2>1, <2>2, <2>3, <2>4, <2>5, <2>6 DEF Peers
<1>3. /\ srv' \in [Calls -> States] /\ inbox' \in Seq(Event) /\ Heard'
      /\ srv'[c] = s /\ \A d \in Calls : d # c => srv'[d] = srv[d]
  BY <1>1, <1>2, NotifyKeeps
<1>4. ASSUME NEW d \in Calls, Engaged(d)'
      PROVE  Engaged(d)
  BY <1>2, <1>3, <1>4 DEF Engaged
<1>5. QED
  BY <1>1, <1>3, <1>4, ServerKeeps DEF TypeOK

(* The server is done with request o, which becomes n or goes.             *)
LEMMA AnswerKeeps ==
  ASSUME TypeOK, Inv, Mine, NEW o \in ops, NEW n, NEW c \in Calls,
         (ops' = (ops \ {o}) \cup {n} /\ n \in Request) \/ ops' = ops \ {o},
         srv' \in [Calls -> States], inbox' \in Seq(Event), Heard',
         lost \subseteq lost', lost' \subseteq Calls,
         \A d \in Calls : d # c => srv'[d] = srv[d] /\ ~Speaks(o, d),
         c \in lost' \/ ~Engaged(c)' \/ (~Speaks(o, c) /\ Speaks(n, c) /\ n \in ops')
  PROVE  TypeOK' /\ Inv'
<1>1. ops' \subseteq Request /\ \A p \in ops \ {o} : p \in ops'
  BY DEF TypeOK
<1>2. \A d \in Calls \ lost' : Engaged(d)' => Engaged(d) \/ \E p \in ops' : Speaks(p, d)
  BY DEF Engaged
<1>3. \A d \in Calls \ lost', p \in ops : Speaks(p, d) /\ Engaged(d)' => p \in ops'
  BY <1>1
<1>4. QED
  BY <1>1, <1>2, <1>3, ServerKeeps

LEMMA ServeKeeps ==
  ASSUME TypeOK, Inv, NEW o \in ops, Serve(o)
  PROVE  TypeOK' /\ Inv'
<1>1. Mine /\ Heard /\ o \in Request /\ o.call \in Calls /\ lost \subseteq Calls
  BY DEF Serve, Inv, TypeOK, Request
<1>2. CASE /\ o.fn \in {"start", "answer"} /\ o.at = "asked"
           /\ srv[o.call] \in {"none", "theirs", "answered"}
           /\ (Notify(o.call, "mine", "nothing") \/ Notify(o.call, "answered", "nothing"))
           /\ Reply(o, "ok") /\ lost' = lost
  <2>1. /\ srv' \in [Calls -> States] /\ inbox' \in Seq(Event) /\ Heard'
        /\ \A d \in Calls : d # o.call => srv'[d] = srv[d]
    <3>1. ~Over(o.call) /\ lost' = lost
      BY <1>2 DEF Over
    <3>2. CASE Notify(o.call, "mine", "nothing")
      BY <1>1, <3>1, <3>2, NotifyKeeps DEF States
    <3>3. CASE Notify(o.call, "answered", "nothing")
      BY <1>1, <3>1, <3>3, NotifyKeeps DEF States
    <3>4. QED
      BY <1>2, <3>2, <3>3
  <2>2. DEFINE n == [o EXCEPT !.at = "ok"]
  <2>3. ops' = (ops \ {o}) \cup {n} /\ lost' = lost
    BY <1>2 DEF Reply
  <2>4. n \in Request /\ Speaks(n, o.call)
    BY <1>1, <1>2 DEF Request, Speaks
  <2>5. \A d \in Calls : ~Speaks(o, d)
    BY <1>2 DEF Speaks
  <2>6. QED
    BY <1>1, <2>1, <2>3, <2>4, <2>5, AnswerKeeps
(* A call that is hung up, or whose hang-up fails on its way.              *)
<1>3. ASSUME NEW c \in Calls, EndBy(c) \/ Unheard(c)
      PROVE  /\ srv' \in [Calls -> States] /\ inbox' \in Seq(Event) /\ Heard'
             /\ lost \subseteq lost' /\ lost' \subseteq Calls
             /\ \A d \in Calls : d # c => srv'[d] = srv[d]
             /\ c \in lost' \/ ~Engaged(c)'
  <2>1. CASE EndBy(c)
    BY <1>1, <2>1, EndByKeeps
  <2>2. CASE Unheard(c)
    BY <1>1, <2>2, UnheardKeeps
  <2>3. QED
    BY <1>3, <2>1, <2>2
<1>4. CASE /\ o.fn = "answer" /\ o.at = "leave" /\ (EndBy(o.prev) \/ Unheard(o.prev))
           /\ ops' = (ops \ {o}) \cup {[o EXCEPT !.at = "asked", !.prev = None]}
  <2>1. o.prev \in Calls /\ [o EXCEPT !.at = "asked", !.prev = None] \in Request
    BY <1>1, <1>4 DEF Request
  <2>2. \A d \in Calls : d # o.prev => ~Speaks(o, d)
    BY <1>4 DEF Speaks
  <2>3. QED
    BY <1>1, <1>3, <1>4, <2>1, <2>2, AnswerKeeps
<1>5. CASE /\ o.fn = "hangup" /\ o.at = "asked" /\ (EndBy(o.call) \/ Unheard(o.call))
           /\ Reply(o, "ok")
  <2>1. [o EXCEPT !.at = "ok"] \in Request /\ ops' = (ops \ {o}) \cup {[o EXCEPT !.at = "ok"]}
    BY <1>1, <1>5 DEF Request, Reply
  <2>2. \A d \in Calls : d # o.call => ~Speaks(o, d)
    BY <1>5 DEF Speaks
  <2>3. QED
    BY <1>1, <1>3, <1>5, <2>1, <2>2, AnswerKeeps
<1>6. CASE o.fn = "tell" /\ (EndBy(o.call) \/ Unheard(o.call)) /\ ops' = ops \ {o}
  <2>1. \A d \in Calls : d # o.call => ~Speaks(o, d)
    BY <1>6 DEF Speaks
  <2>2. QED
    BY <1>1, <1>3, <1>6, <2>1, AnswerKeeps
<1>7. CASE /\ o.fn = "decline" /\ (DeclineBy(o.call) \/ UNCHANGED <<srv, inbox, lost>>)
           /\ ops' = ops \ {o}
  <2>1. \A d \in Calls : ~Speaks(o, d)
    BY <1>7 DEF Speaks
  <2>2. /\ srv' \in [Calls -> States] /\ inbox' \in Seq(Event) /\ Heard'
        /\ lost \subseteq lost' /\ lost' \subseteq Calls
        /\ \A d \in Calls : Engaged(d)' => Engaged(d)
    <3>1. CASE DeclineBy(o.call)
      BY <1>1, <3>1, DeclineByKeeps
    <3>2. CASE UNCHANGED <<srv, inbox, lost>>
      BY <1>1, <3>2 DEF Heard, Gone, Over, Engaged, TypeOK
    <3>3. QED
      BY <1>7, <3>1, <3>2
  <2>3. ops' \subseteq Request /\ \A p \in ops \ {o} : p \in ops'
    BY <1>7 DEF TypeOK
  <2>4. QED
    BY <1>1, <2>1, <2>2, <2>3, ServerKeeps
<1>8. QED
  BY <1>2, <1>4, <1>5, <1>6, <1>7 DEF Serve

LEMMA RefuseKeeps ==
  ASSUME TypeOK, Inv, NEW o \in ops, Refuse(o)
  PROVE  TypeOK' /\ Inv'
<1>1. /\ Mine /\ Heard
      /\ ops' = (ops \ {o}) \cup {[o EXCEPT !.at = "failed"]}
      /\ o.fn \in {"start", "answer"} /\ o.at = "asked"
      /\ o.call \in Calls /\ lost \subseteq Calls
  BY DEF Refuse, Reply, Inv, TypeOK, Request
<1>2. [o EXCEPT !.at = "failed"] \in Request
  BY <1>1 DEF TypeOK, Request
<1>3. ops' \subseteq Request /\ \A p \in ops \ {o} : p \in ops'
  BY <1>1, <1>2 DEF TypeOK
<1>4. \A c \in Calls : ~Speaks(o, c)
  BY <1>1 DEF Speaks
<1>5. /\ srv' \in [Calls -> States] /\ inbox' \in Seq(Event) /\ Heard'
      /\ lost \subseteq lost' /\ lost' \subseteq Calls
      /\ \A c \in Calls \ lost' : Engaged(c)' => Engaged(c)
  <2>1. CASE UNCHANGED <<srv, inbox, lost>>
    BY <1>1, <2>1 DEF TypeOK, Heard, Gone, Over, Engaged
  <2>2. CASE /\ srv[o.call] \in {"none", "theirs"} /\ lost' = lost \cup {o.call}
             /\ (Notify(o.call, "mine", "nothing") \/ Notify(o.call, "answered", "nothing"))
    <3>1. ~Over(o.call) /\ lost \subseteq lost' /\ lost' \subseteq Calls
      BY <1>1, <2>2 DEF Over
    <3>2. /\ srv' \in [Calls -> States] /\ inbox' \in Seq(Event) /\ Heard'
          /\ \A d \in Calls : d # o.call => srv'[d] = srv[d]
      <4>1. CASE Notify(o.call, "mine", "nothing")
        BY <1>1, <3>1, <4>1, NotifyKeeps DEF States
      <4>2. CASE Notify(o.call, "answered", "nothing")
        BY <1>1, <3>1, <4>2, NotifyKeeps DEF States
      <4>3. QED
        BY <2>2, <4>1, <4>2
    <3>3. QED
      BY <2>2, <3>1, <3>2 DEF Engaged
  <2>3. QED
    BY <2>1, <2>2 DEF Refuse
<1>6. QED
  BY <1>1, <1>3, <1>4, <1>5, ServerKeeps

-----------------------------------------------------------------------------
(* The media room in use                                                   *)

(* An attempt that has no room yet has the call on the screen to itself,   *)
(* and there is no room but the one in use.                                *)
Seeks(a) == at[a] \in {"release", "probe"}
WebRooms ==
  /\ \A a, b \in Attempts : Seeks(a) /\ Seeks(b) => a = b
  /\ \A a \in Attempts : Seeks(a) => roomRef = None /\ ActiveCall = target[a]
  /\ \A a \in Attempts : room[a] \in {"joining", "live"} => roomRef = a /\ ActiveCall = target[a]

(* A release takes the number of every earlier attempt away, and a room    *)
(* becomes live only under the number of its attempt.                      *)
MobileRooms ==
  /\ \A a, b \in Attempts : at[a] = "release" /\ at[b] = "release" => a = b
  /\ \A a \in Attempts : at[a] = "release" => current = None
  /\ \A a \in Attempts : room[a] = "live" =>
       at[a] = "idle" /\ current = a /\ roomRef = a /\ ActiveCall = target[a]

Rooms == ~displaced /\ ~overtaken => IF Web THEN WebRooms ELSE MobileRooms

(* A group call is active as soon as its caller has it on the screen.      *)
Begun == active # <<>> /\ active[3] = "caller" /\ active[1] \in Group => active[2] = "active"

Media == Rooms /\ ActiveHasMedia /\ Begun

(* What a step outside connectLiveKit does with the media: nothing, it     *)
(* lets go of the room, or it begins an attempt for the call it shows.     *)
Untouched ==
  /\ UNCHANGED media /\ trouble' = trouble
  /\ ActiveCall' = ActiveCall \/ displaced' \/ ActiveCall = None
  /\ active' # <<>> /\ active'[2] = "active" =>
       active # <<>> /\ active[2] = "active" /\ active[1] = active'[1]
LetsGo ==
  /\ Disconnected
  /\ Web => \/ active' = <<>> \/ trouble' # "none"
            \/ roomRef = None /\ UNCHANGED <<active, trouble>>
TurnsTo(c) == Connect(c) /\ active' # <<>> /\ active'[1] = c

Plain ==
  /\ app' = app /\ (displaced => displaced') /\ Begun'
  /\ Untouched \/ LetsGo \/ \E c \in Calls : TurnsTo(c)

LEMMA UntouchedKeeps ==
  ASSUME TypeOK, Inv, Media, Plain, Untouched
  PROVE  Media'
<1>1. UNCHANGED <<at, target, room, roomRef, current, overtaken, trouble>> /\ app' = app /\ Begun'
  BY DEF Untouched, Plain, media
<1>2. ActiveHasMedia'
  BY <1>1 DEF Media, Untouched, ActiveHasMedia, Web, Busy
<1>3. ASSUME ~displaced', ~overtaken'
      PROVE  IF Web THEN WebRooms' ELSE MobileRooms'
  <2>1. ~displaced /\ ~overtaken /\ (ActiveCall' = ActiveCall \/ ActiveCall = None)
    BY <1>1, <1>3 DEF Plain, Untouched
  <2>2. \A a \in Attempts : target[a] = None => at[a] = "idle" /\ room[a] = "none"
    BY DEF Inv, Targeted
  <2>3. CASE Web
    <3>1. WebRooms
      BY <2>1, <2>3 DEF Media, Rooms
    <3>2. QED
      BY <1>1, <2>1, <2>2, <2>3, <3>1 DEF WebRooms, Seeks
  <2>4. CASE ~Web
    <3>1. MobileRooms
      BY <2>1, <2>4 DEF Media, Rooms
    <3>2. QED
      BY <1>1, <2>1, <2>2, <2>4, <3>1 DEF MobileRooms
  <2>5. QED
    BY <2>3, <2>4
<1>4. Rooms'
  BY <1>1, <1>3 DEF Rooms, Web
<1>5. QED
  BY <1>1, <1>2, <1>4 DEF Media

(* Once the room in use is let go of, no room is live, unless the release  *)
(* has overtaken an attempt.                                               *)
LEMMA DisconnectEmpties ==
  ASSUME TypeOK, Inv, Rooms, disconnectRoom, ~displaced, ~overtaken
  PROVE  /\ roomRef' = None
         /\ Web => (~overtaken' => ~Unroomed) /\ \A a \in Attempts : room'[a] \notin {"joining", "live"}
         /\ ~Web => current' = None /\ \A a \in Attempts : room'[a] # "live"
<1>1. room' = NoRoom /\ roomRef' = None
  BY DEF disconnectRoom, WebDisconnect, MobileDisconnect
<1>2. \A a \in Attempts : room'[a] = IF roomRef = a THEN "gone" ELSE room[a]
  BY <1>1, ClientAssumption DEF NoRoom, TypeOK, MediaType, Attempts
<1>3. CASE Web
  BY <1>1, <1>2, <1>3 DEF Rooms, WebRooms, disconnectRoom, WebDisconnect
<1>4. CASE ~Web
  BY <1>1, <1>2, <1>4 DEF Rooms, MobileRooms, disconnectRoom, MobileDisconnect
<1>5. QED
  BY <1>1, <1>3, <1>4

LEMMA LetsGoKeeps ==
  ASSUME TypeOK, Inv, Media, Plain, LetsGo
  PROVE  Media'
<1>1. disconnectRoom /\ UNCHANGED <<at, target>> /\ (~Web => UNCHANGED overtaken)
  BY DEF LetsGo, Disconnected
<1>2. app' = app /\ Begun' /\ ActiveHasMedia'
  <2>1. CASE ~Web \/ active' = <<>> \/ trouble' # "none"
    BY <2>1 DEF Plain, ActiveHasMedia, Web
  <2>2. CASE Web /\ roomRef = None /\ UNCHANGED <<active, trouble>>
    <3>1. room' = room /\ UNCHANGED <<at, target>>
      BY <1>1, <2>2 DEF disconnectRoom, WebDisconnect, NoRoom
    <3>2. QED
      BY <2>2, <3>1 DEF Media, Plain, ActiveHasMedia, Web, Busy
  <2>3. QED
    BY <2>1, <2>2 DEF Plain, LetsGo
<1>3. ASSUME ~displaced', ~overtaken'
      PROVE  IF Web THEN WebRooms' ELSE MobileRooms'
  <2>1. ~displaced /\ ~overtaken
    <3>1. CASE Web
      BY <1>1, <1>3, <3>1 DEF Plain, disconnectRoom, WebDisconnect
    <3>2. CASE ~Web
      BY <1>1, <1>3, <3>2 DEF Plain
    <3>3. QED
      BY <3>1, <3>2
  <2>2. CASE Web
    <3>1. /\ ~Unroomed /\ roomRef' = None
          /\ \A a \in Attempts : room'[a] \notin {"joining", "live"}
      BY <1>1, <1>3, <2>1, <2>2, DisconnectEmpties DEF Media
    <3>2. QED
      BY <1>1, <2>2, <3>1 DEF WebRooms, Seeks, Unroomed
  <2>3. CASE ~Web
    <3>1. current' = None /\ \A a \in Attempts : room'[a] # "live"
      BY <1>1, <2>1, <2>3, DisconnectEmpties DEF Media
    <3>2. MobileRooms
      BY <2>1, <2>3 DEF Media, Rooms
    <3>3. QED
      BY <1>1, <2>3, <3>1, <3>2 DEF MobileRooms
  <2>4. QED
    BY <2>2, <2>3
<1>4. Rooms'
  BY <1>2, <1>3 DEF Rooms, Web
<1>5. QED
  BY <1>2, <1>4 DEF Media

LEMMA TurnsToKeeps ==
  ASSUME TypeOK, Inv, Media, Plain, NEW c \in Calls, TurnsTo(c)
  PROVE  Media'
<1>1. /\ disconnectRoom /\ app' = app /\ Begun' /\ ActiveCall' = c
      /\ active' # <<>> /\ active'[1] = c
      /\ ~Web => overtaken' = (overtaken \/ \E a \in Attempts : at[a] = "release")
  BY DEF TurnsTo, Connect, Plain, ActiveCall
<1>2. PICK b \in Attempts : /\ target[b] = None
                            /\ at' = [at EXCEPT ![b] = "release"]
                            /\ target' = [target EXCEPT ![b] = c]
  BY DEF TurnsTo, Connect
<1>3. /\ at'[b] = "release" /\ target'[b] = c
      /\ \A a \in Attempts : a # b => at'[a] = at[a] /\ target'[a] = target[a]
  BY <1>2 DEF TypeOK, MediaType
<1>4. ActiveHasMedia'
  BY <1>1, <1>3 DEF ActiveHasMedia, Busy
<1>5. ASSUME ~displaced', ~overtaken'
      PROVE  IF Web THEN WebRooms' ELSE MobileRooms'
  <2>1. ~displaced /\ ~overtaken
    BY <1>1, <1>5 DEF Plain, disconnectRoom, WebDisconnect
  <2>2. CASE Web
    <3>1. /\ ~Unroomed /\ roomRef' = None
          /\ \A a \in Attempts : room'[a] \notin {"joining", "live"}
      BY <1>1, <1>5, <2>1, <2>2, DisconnectEmpties DEF Media
    <3>2. QED
      BY <1>1, <1>3, <2>2, <3>1 DEF WebRooms, Seeks, Unroomed
  <2>3. CASE ~Web
    <3>1. current' = None /\ \A a \in Attempts : room'[a] # "live" /\ at[a] # "release"
      BY <1>1, <1>5, <2>1, <2>3, DisconnectEmpties DEF Media
    <3>2. QED
      BY <1>1, <1>3, <2>3, <3>1 DEF MobileRooms
  <2>4. QED
    BY <2>2, <2>3
<1>6. Rooms'
  BY <1>1, <1>5 DEF Rooms, Web
<1>7. QED
  BY <1>1, <1>4, <1>6 DEF Media

LEMMA PlainKeeps ==
  ASSUME TypeOK, Inv, Media, Plain
  PROVE  Media'
  BY UntouchedKeeps, LetsGoKeeps, TurnsToKeeps DEF Plain

(* The buttons, the answers and the events are plain.                      *)
LEMMA ButtonsPlain ==
  ASSUME TypeOK, Inv, Media, NEW c \in Calls, Buttons(c) \/ hangup
  PROVE  Plain
<1>1. app' = app /\ displaced' = displaced
  BY DEF Buttons, startCall, webAnswerCall, mobileAnswerCall, declineCall, hangup, Keep
<1>2. CASE Disconnected /\ active' = <<>>
  BY <1>1, <1>2 DEF Plain, LetsGo, Begun
<1>3. CASE UNCHANGED <<active, media, trouble>>
  BY <1>1, <1>3 DEF Plain, Untouched, Begun, Media, ActiveCall
<1>4. QED
  BY <1>2, <1>3 DEF Buttons, startCall, webAnswerCall, mobileAnswerCall, declineCall, hangup

LEMMA BecomesPlain ==
  ASSUME TypeOK, Inv, Media, NEW o \in ops, Started(o) \/ Joins(o)
  PROVE  Plain
<1>1. o.call \in Calls /\ app' = app
  BY DEF Started, Joins, TypeOK, Request
<1>2. ASSUME NEW r \in {"caller", "callee"}, Become(o.call, "active", r), Connect(o.call)
      PROVE  Plain
  <2>1. active' = <<o.call, "active", r>> /\ (displaced => displaced')
    BY <1>2 DEF Become
  <2>2. QED
    BY <1>1, <1>2, <2>1 DEF Plain, TurnsTo, Begun
<1>3. ASSUME Become(o.call, "ringing", "caller"), UNCHANGED <<media, trouble>>, o.call \notin Group
      PROVE  Plain
  <2>1. /\ active' = <<o.call, "ringing", "caller">> /\ ActiveCall' = o.call
        /\ displaced' = (displaced \/ ActiveCall \notin {None, o.call})
    BY <1>3 DEF Become, ActiveCall
  <2>2. Untouched
    BY <1>3, <2>1 DEF Untouched
  <2>3. QED
    BY <1>1, <1>3, <2>1, <2>2 DEF Plain, Begun
<1>4. QED
  BY <1>2, <1>3 DEF Started, Joins

LEMMA DeliverPlain ==
  ASSUME TypeOK, Inv, Media, Deliver
  PROVE  Plain
<1>1. app' = app /\ displaced' = displaced
  BY DEF Deliver, Keep
<1>2. PICK c : /\ c \in Calls
               /\ OnRing(c) \/ OnAnswered(c) \/ OnKicked(c) \/ OnTaken(c) \/ OnEnded(c)
  <2>1. inbox # <<>> /\ Head(inbox) \in Event
    BY DEF Deliver, TypeOK
  <2>2. Head(inbox)[2] \in Calls
    BY <2>1 DEF Event
  <2>3. QED
    BY <2>2 DEF Deliver
<1>3. ASSUME UNCHANGED <<active, media, trouble>> PROVE Plain
  BY <1>1, <1>3 DEF Plain, Untouched, Begun, Media, ActiveCall
<1>4. CASE OnRing(c) \/ OnTaken(c)
  BY <1>3, <1>4 DEF OnRing, OnTaken
<1>5. CASE OnAnswered(c)
  <2>1. CASE active # <<>> /\ active[3] = "caller" /\ active[1] = c
    <3>1. /\ active' = [active EXCEPT ![2] = "active"] /\ active' # <<>>
          /\ active'[1] = c /\ active'[2] = "active" /\ Begun'
      BY <1>5, <2>1, ActiveKept DEF OnAnswered, Begun, TypeOK
    <3>2. CASE c \in Group /\ UNCHANGED <<media, trouble>>
      <4>1. active[2] = "active"
        BY <2>1, <3>2 DEF Media, Begun
      <4>2. ActiveCall' = ActiveCall
        BY <2>1, <3>1 DEF ActiveCall
      <4>3. QED
        BY <1>1, <2>1, <3>1, <3>2, <4>1, <4>2 DEF Plain, Untouched
    <3>3. CASE Connect(c)
      BY <1>1, <1>2, <3>1, <3>3 DEF Plain, TurnsTo
    <3>4. QED
      BY <1>5, <2>1, <3>2, <3>3 DEF OnAnswered
  <2>2. CASE ~(active # <<>> /\ active[3] = "caller" /\ active[1] = c)
    BY <1>3, <1>5, <2>2 DEF OnAnswered
  <2>3. QED
    BY <2>1, <2>2
<1>6. ASSUME LetsGo, active' \in {active, <<>>}
      PROVE  Plain
  BY <1>1, <1>6 DEF Plain, Begun, Media
<1>7. CASE OnKicked(c)
  <2>1. active = <<>> \/ ActiveCall # None
    BY ActiveType, ClientAssumption DEF ActiveCall
  <2>2. QED
    BY <1>6, <1>7, <2>1 DEF OnKicked, LetsGo, ActiveCall
<1>8. CASE OnEnded(c)
  <2>1. CASE Web /\ ActiveCall = c
    BY <1>6, <1>8, <2>1 DEF OnEnded, WebEnded, LetsGo
  <2>2. CASE Web /\ ActiveCall # c
    BY <1>3, <1>8, <2>2 DEF OnEnded, WebEnded
  <2>3. CASE ~Web
    BY <1>6, <1>8, <2>3 DEF OnEnded, MobileEnded, LetsGo
  <2>4. QED
    BY <2>1, <2>2, <2>3
<1>9. QED
  BY <1>2, <1>4, <1>5, <1>7, <1>8

LEMMA OtherPlain ==
  ASSUME TypeOK, Inv, Media, UNCHANGED <<app, active, media, trouble, displaced>>
  PROVE  Plain
  BY DEF Plain, Untouched, Begun, Media, ActiveCall

(* The steps of an attempt of the web client.                              *)
LEMMA WebStepKeeps ==
  ASSUME TypeOK, Inv, Media, NEW a \in Attempts,
         \/ WebReleased(a) \/ WebProbed(a) \/ WebJoined(a) \/ WebFailed(a) \/ WebRoomLost(a)
  PROVE  Media'
<1>1. Web /\ UNCHANGED <<app, active, target, displaced>>
  BY DEF WebReleased, WebProbed, WebJoined, WebFailed, WebRoomLost, Keep
<1>2. Begun' /\ ActiveCall' = ActiveCall /\ Web'
  BY <1>1 DEF Media, Begun, ActiveCall, Web
<1>3. /\ at \in [Attempts -> {"idle", "release", "probe", "join"}]
      /\ room \in [Attempts -> {"none", "joining", "live", "gone"}]
      /\ \A b \in Attempts : a # None /\ b # None
  BY ClientAssumption DEF TypeOK, MediaType, Attempts
<1>4. ActiveHasMedia'
  <2>1. CASE WebFailed(a) \/ WebRoomLost(a)
    <3>1. SUFFICES ASSUME active # <<>>, active[2] = "active", trouble' = "none"
                   PROVE  \E b \in Attempts : target[b] = active[1] /\ (Busy(b)' \/ room'[b] = "live")
      BY <1>1 DEF ActiveHasMedia
    <3>2. trouble = "none" /\ target[a] # active[1] /\ (WebFailed(a) => roomRef \in {None, a})
      BY <2>1, <3>1 DEF WebFailed, WebRoomLost, ActiveCall
    <3>3. PICK b \in Attempts : target[b] = active[1] /\ (Busy(b) \/ room[b] = "live")
      BY <1>1, <3>1, <3>2 DEF Media, ActiveHasMedia
    <3>4. b # a /\ at'[b] = at[b] /\ room'[b] = room[b]
      BY <1>3, <2>1, <3>2, <3>3 DEF WebFailed, WebRoomLost, Done, Without, NoRoom
    <3>5. QED
      BY <3>3, <3>4 DEF Busy
  <2>2. CASE WebReleased(a) \/ WebProbed(a) \/ WebJoined(a)
    <3>1. trouble' = trouble
      BY <2>2 DEF WebReleased, WebProbed, WebJoined
    <3>2. \A b \in Attempts : Busy(b) \/ room[b] = "live" => Busy(b)' \/ room'[b] = "live"
      BY <1>3, <2>2 DEF WebReleased, WebProbed, WebJoined, EnterRoom, Done, Busy
    <3>3. QED
      BY <1>1, <1>2, <3>1, <3>2 DEF Media, ActiveHasMedia
  <2>3. QED
    BY <2>1, <2>2
<1>5. ASSUME ~displaced', ~overtaken'
      PROVE  WebRooms'
  <2>1. WebRooms
    BY <1>1, <1>5 DEF Media, Rooms, WebReleased, WebProbed, WebJoined, WebFailed, WebRoomLost
  <2>2. CASE WebReleased(a)
    BY <1>1, <1>2, <1>3, <2>1, <2>2 DEF WebRooms, WebReleased, Seeks
  <2>3. CASE WebProbed(a)
    BY <1>1, <1>2, <1>3, <2>1, <2>3 DEF WebRooms, WebProbed, EnterRoom, Seeks
  <2>4. CASE WebJoined(a)
    BY <1>1, <1>2, <1>3, <2>1, <2>4 DEF WebRooms, WebJoined, Done, Seeks
  <2>5. CASE WebFailed(a)
    <3>1. /\ at' = [at EXCEPT ![a] = "idle"] /\ roomRef' = None
          /\ \A b \in Attempts \ {a} : ~Seeks(b)
      BY <1>5, <2>5 DEF WebFailed, Done, Seeks
    <3>2. \A b \in Attempts : room'[b] \notin {"joining", "live"}
      BY <1>3, <2>1, <2>5 DEF WebFailed, Without, NoRoom, WebRooms
    <3>3. QED
      BY <1>3, <3>1, <3>2 DEF WebRooms, Seeks
  <2>6. CASE WebRoomLost(a)
    BY <1>1, <1>2, <1>3, <2>1, <2>6 DEF WebRooms, WebRoomLost, Seeks
  <2>7. QED
    BY <2>2, <2>3, <2>4, <2>5, <2>6
<1>6. QED
  BY <1>1, <1>2, <1>4, <1>5 DEF Media, Rooms

(* The steps of an attempt of the mobile client.                           *)
LEMMA MobileStepKeeps ==
  ASSUME TypeOK, Inv, Media, NEW a \in Attempts,
         \/ MobileReleased(a) \/ MobileProbed(a) \/ MobileJoined(a) \/ MobileFailed(a)
         \/ MobileRoomLost(a)
  PROVE  Media'
<1>1. ~Web /\ UNCHANGED <<app, target, displaced, overtaken>>
  BY DEF MobileReleased, MobileProbed, MobileJoined, MobileFailed, MobileRoomLost, Keep
<1>2. /\ at \in [Attempts -> {"idle", "release", "probe", "join"}]
      /\ room \in [Attempts -> {"none", "joining", "live", "gone"}]
      /\ \A b \in Attempts : b # None
  BY ClientAssumption DEF TypeOK, MediaType, Attempts
<1>3. ~Web' /\ ActiveHasMedia'
  BY <1>1 DEF Web, ActiveHasMedia
<1>4. \/ ActiveCall' = ActiveCall
      \/ MobileRoomLost(a)
  <2>1. CASE MobileJoined(a) /\ StillCurrent(a)
    <3>1. active # <<>>
      <4>1. target[a] # None
        BY <2>1, <1>2 DEF MobileJoined, Inv, Targeted
      <4>2. QED
        BY <2>1, <4>1 DEF StillCurrent, ActiveCall
    <3>2. QED
      BY <2>1, <3>1, ActiveKept DEF MobileJoined, ActiveCall
  <2>2. CASE ~(MobileJoined(a) /\ StillCurrent(a)) /\ ~MobileRoomLost(a)
    <3>1. active' = active
      BY <2>2 DEF MobileReleased, MobileProbed, MobileJoined, MobileFailed
    <3>2. QED
      BY <3>1 DEF ActiveCall
  <2>3. QED
    BY <2>1, <2>2
<1>5. Begun'
  BY DEF Media, Begun, TypeOK, MobileReleased, MobileProbed, MobileJoined, MobileFailed, MobileRoomLost
<1>6. ASSUME ~displaced', ~overtaken'
      PROVE  MobileRooms'
  <2>1. MobileRooms
    BY <1>1, <1>6 DEF Media, Rooms
  <2>2. CASE MobileReleased(a)
    BY <1>1, <1>2, <1>4, <2>1, <2>2 DEF MobileRooms, MobileReleased, MobileRoomLost
  <2>3. CASE MobileProbed(a)
    BY <1>1, <1>2, <1>4, <2>1, <2>3 DEF MobileRooms, MobileProbed, MobileRoomLost, EnterRoom, Done, StillCurrent
  <2>4. CASE MobileJoined(a)
    BY <1>1, <1>2, <1>4, <2>1, <2>4 DEF MobileRooms, MobileJoined, MobileRoomLost, Done, StillCurrent
  <2>5. CASE MobileFailed(a)
    BY <1>1, <1>2, <1>4, <2>1, <2>5 DEF MobileRooms, MobileFailed, MobileRoomLost, Fails, Done, Without, NoRoom, StillCurrent
  <2>6. CASE MobileRoomLost(a)
    <3>1. \A b \in Attempts : room'[b] # "live"
      BY <1>2, <2>1, <2>6 DEF MobileRooms, MobileRoomLost
    <3>2. QED
      BY <1>1, <2>1, <2>6, <3>1 DEF MobileRooms, MobileRoomLost
  <2>7. QED
    BY <2>2, <2>3, <2>4, <2>5, <2>6
<1>7. QED
  BY <1>3, <1>5, <1>6 DEF Media, Rooms

LEMMA PeerLeftMedia ==
  ASSUME TypeOK, Inv, Media, NEW a \in Attempts, WebPeerLeft(a) \/ MobilePeerLeft(a)
  PROVE  Media'
<1>1. Disconnected /\ active' = <<>> /\ app' = app /\ displaced' = displaced
  BY DEF WebPeerLeft, MobilePeerLeft, Keep
<1>2. Plain
  BY <1>1 DEF Plain, LetsGo, Begun
<1>3. QED
  BY <1>2, PlainKeeps

-----------------------------------------------------------------------------
(* The specification                                                       *)

LEMMA InitInv == Init => TypeOK /\ Inv
<1> SUFFICES ASSUME Init PROVE TypeOK /\ Inv
  OBVIOUS
<1>1. MediaType /\ Targeted
  BY DEF Init, MediaType, Targeted
<1>2. TypeOK
  <2>1. srv \in [Calls -> States] /\ inbox \in Seq(Event) /\ ops \subseteq Request
    BY DEF Init, States
  <2>2. QED
    BY <1>1, <2>1 DEF Init, TypeOK
<1>3. Heard /\ Spoken
  BY DEF Init, Heard, Spoken, Engaged
<1>4. QED
  BY <1>1, <1>2, <1>3 DEF Inv

LEMMA AttemptKeeps ==
  ASSUME TypeOK, Inv, NEW a \in Attempts, Attempt(a)
  PROVE  TypeOK' /\ Inv'
<1>1. CASE WebPeerLeft(a) \/ MobilePeerLeft(a)
  BY <1>1, PeerLeftKeeps
<1>2. CASE MobileRoomLost(a)
  BY <1>2, RoomLostKeeps
<1>3. CASE MobileJoined(a)
  BY <1>3, MobileJoinedKeeps
<1>4. CASE RoomStep(a)
  BY <1>4, RoomStepKeeps
<1>5. QED
  BY <1>1, <1>2, <1>3, <1>4 DEF Attempt, RoomStep

LEMMA NextInv == TypeOK /\ Inv /\ [Next]_vars => TypeOK' /\ Inv'
<1> SUFFICES ASSUME TypeOK, Inv, [Next]_vars PROVE TypeOK' /\ Inv'
  OBVIOUS
<1>1. ASSUME NEW a \in Attempts, Attempt(a) PROVE TypeOK' /\ Inv'
  BY <1>1, AttemptKeeps
<1>2. ASSUME NEW c \in Calls, Buttons(c) PROVE TypeOK' /\ Inv'
  BY <1>2, startCallKeeps, webAnswerCallKeeps DEF Buttons
<1>3. ASSUME NEW c \in Calls, Peers(c) PROVE TypeOK' /\ Inv'
  BY <1>3, PeersKeeps
<1>4. ASSUME NEW o \in ops, Started(o) \/ Joins(o) PROVE TypeOK' /\ Inv'
  BY <1>4, BecomesKeeps
<1>5. ASSUME NEW o \in ops, Settled(o) PROVE TypeOK' /\ Inv'
  BY <1>5, SettledKeeps
<1>6. ASSUME NEW o \in ops, Serve(o) PROVE TypeOK' /\ Inv'
  BY <1>6, ServeKeeps
<1>7. ASSUME NEW o \in ops, Refuse(o) PROVE TypeOK' /\ Inv'
  BY <1>7, RefuseKeeps
<1>8. CASE hangup
  BY <1>8, hangupKeeps
<1>9. CASE Deliver
  BY <1>9, DeliverKeeps
<1>10. CASE Drop
  BY <1>10, DropKeeps
<1>11. CASE UNCHANGED vars
  <2>1. /\ UNCHANGED <<app, srv, lost, inbox, active, incoming, ops, ending, trouble, displaced>>
        /\ UNCHANGED media
    BY <1>11 DEF vars
  <2>2. MediaType' /\ Targeted' /\ ActiveCall' = ActiveCall
    BY <2>1 DEF media, Inv, Targeted, TypeOK, MediaType, ActiveCall
  <2>3. TypeOK'
    BY <2>1, <2>2 DEF TypeOK
  <2>4. Heard' /\ Spoken'
    BY <2>1, <2>2 DEF Inv, Heard, Gone, Over, Spoken, Web, Engaged
  <2>5. QED
    BY <2>2, <2>3, <2>4 DEF Inv
<1>12. QED
  BY <1>1, <1>2, <1>3, <1>4, <1>5, <1>6, <1>7, <1>8, <1>9, <1>10, <1>11 DEF Next

LEMMA InitMedia == Init => Media
<1> SUFFICES ASSUME Init PROVE Media
  OBVIOUS
<1>1. Rooms
  BY DEF Init, Rooms, WebRooms, MobileRooms, Seeks
<1>2. ActiveHasMedia /\ Begun
  BY DEF Init, ActiveHasMedia, Begun
<1>3. QED
  BY <1>1, <1>2 DEF Media

LEMMA NextMedia == TypeOK /\ Inv /\ Media /\ [Next]_vars => Media'
<1> SUFFICES ASSUME TypeOK, Inv, Media, [Next]_vars PROVE Media'
  OBVIOUS
<1>1. ASSUME NEW a \in Attempts, Attempt(a) PROVE Media'
  BY <1>1, WebStepKeeps, MobileStepKeeps, PeerLeftMedia DEF Attempt
<1>2. ASSUME NEW c \in Calls, Buttons(c) PROVE Media'
  BY <1>2, ButtonsPlain, PlainKeeps
<1>3. CASE hangup
  <2>1. ActiveCall \in Calls
    BY <1>3, ActiveType DEF hangup
  <2>2. QED
    BY <1>3, <2>1, ButtonsPlain, PlainKeeps
<1>4. ASSUME NEW o \in ops, Started(o) \/ Joins(o) PROVE Media'
  BY <1>4, BecomesPlain, PlainKeeps
<1>5. CASE Deliver
  BY <1>5, DeliverPlain, PlainKeeps
<1>6. ASSUME UNCHANGED <<app, active, media, trouble, displaced>> PROVE Media'
  BY <1>6, OtherPlain, PlainKeeps
<1>7. ASSUME NEW o \in ops, Settled(o) \/ Serve(o) \/ Refuse(o) PROVE Media'
  BY <1>6, <1>7 DEF Settled, Serve, Refuse, Mine, Keep
<1>8. ASSUME NEW c \in Calls, Peers(c) PROVE Media'
  BY <1>6, <1>8 DEF Peers, Mine
<1>9. CASE Drop
  BY <1>6, <1>9 DEF Drop, Keep
<1>10. CASE UNCHANGED vars
  BY <1>6, <1>10 DEF vars
<1>11. QED
  BY <1>1, <1>2, <1>3, <1>4, <1>5, <1>7, <1>8, <1>9, <1>10 DEF Next

THEOREM InvHolds == Spec => [](TypeOK /\ Inv)
<1>1. Init => TypeOK /\ Inv
  BY InitInv
<1>2. (TypeOK /\ Inv) /\ [Next]_vars => (TypeOK /\ Inv)'
  BY NextInv
<1>3. QED
  BY <1>1, <1>2, PTL DEF Spec

(* Every variable keeps its type, in both clients: a function that waits   *)
(* to leave another call knows which, whatever happened meanwhile.         *)
THEOREM TypeCorrect == Spec => []TypeOK
<1>1. TypeOK /\ Inv => TypeOK
  OBVIOUS
<1>2. QED
  BY <1>1, InvHolds, PTL

(* The web client never walks out of a call without telling the server, in *)
(* whatever order the events of the server, the events of the room, the    *)
(* answers and the presses of a button come; except for a hang-up that     *)
(* fails on its way, a start or an answer whose answer is lost, and a call *)
(* that a late decline announces as ended.                                 *)
THEOREM NoSilentLeave == Spec => []LeftIsTold
<1>1. ASSUME TypeOK, Inv PROVE LeftIsTold
  <2>1. \A o \in ops, c \in Calls : Speaks(o, c) => (o.call = c /\ o.at # "failed") \/ o.prev = c
    BY DEF Speaks
  <2>2. QED
    BY <1>1, <2>1 DEF Inv, Spoken, Engaged, LeftIsTold
<1>2. QED
  BY <1>1, InvHolds, PTL

LEMMA MediaHolds == Spec => [](TypeOK /\ Media)
<1>1. Init => Media
  BY InitMedia
<1>2. TypeOK /\ Inv /\ Media /\ [Next]_vars => Media'
  BY NextMedia
<1>3. Spec => [](TypeOK /\ Inv)
  BY InvHolds
<1>4. QED
  BY <1>1, <1>2, <1>3, PTL DEF Spec

(* A live microphone belongs to the call on the screen, in both clients,   *)
(* unless a release overtook an attempt or an answer replaced a call.      *)
THEOREM MicrophoneHasCall == Spec => []MediaHasCall
<1>1. TypeOK /\ Media => MediaHasCall
  BY DEF Media, Rooms, WebRooms, MobileRooms, MediaHasCall
<1>2. QED
  BY <1>1, MediaHolds, PTL

(* A call the web client shows as active has media or is getting it,       *)
(* unless its own media failed or were lost, or a kick from another call   *)
(* or an older attempt that failed took its room.                          *)
THEOREM NoSilentCall == Spec => []ActiveHasMedia
<1>1. TypeOK /\ Media => ActiveHasMedia
  BY DEF Media
<1>2. QED
  BY <1>1, MediaHolds, PTL
=============================================================================
