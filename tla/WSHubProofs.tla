---------------------------- MODULE WSHubProofs ----------------------------
(* Proofs about WSHub, for any number of users, connections and workers.   *)
EXTENDS WSHub, TLAPS

(* A presence job that is created belongs to a user of the hub.            *)
LEMMA GoPresenceJobType ==
  ASSUME PresenceType, NEW u \in Users, NEW online \in BOOLEAN, GoPresenceJob(u, online)
  PROVE  job' \in [Slots -> {NoJob} \cup [user : Users, online : BOOLEAN]]
BY DEF GoPresenceJob, PresenceType

LEMMA TypeInit == Init => TypeOK
<1> SUFFICES ASSUME Init PROVE TypeOK
  OBVIOUS
<1>1. ConnType
  BY HubAssumption DEF Init, ConnType, ConnStep
<1>2. WorkType
  BY DEF Init, WorkType
<1>3. PresenceType
  BY DEF Init, PresenceType
<1>4. QED
  BY <1>1, <1>2, <1>3 DEF TypeOK

LEMMA EnqueueType ==
  ASSUME ConnType, NEW c \in Conns, Enqueue(c)
  PROVE  queue' \in [Conns -> 0..Buffer]
BY HubAssumption DEF ConnType, Enqueue

LEMMA TypeConn ==
  ASSUME TypeOK, NEW c \in Conns,
         Upgrade(c) \/ Handler(c) \/ Disconnect(c) \/ WriteFrame(c) \/ PumpEnds(c) \/ CloseVictim(c)
  PROVE  TypeOK'
<1>0. Owner[c] \in Users
  BY HubAssumption
<1>1. CASE Upgrade(c)
  BY <1>1 DEF Upgrade, TypeOK, ConnType, WorkType, PresenceType, ConnStep, hub, work, presence
<1>2. CASE Register(c)
  BY <1>2 DEF Register, TypeOK, ConnType, WorkType, PresenceType, ConnStep, work, presence
<1>3. CASE CountConnections(c)
  <2>1. job' \in [Slots -> {NoJob} \cup [user : Users, online : BOOLEAN]]
    BY <1>0, <1>3, GoPresenceJobType DEF CountConnections, TypeOK, PresenceType
  <2>2. QED
    BY <1>3, <2>1 DEF CountConnections, TypeOK, ConnType, WorkType, PresenceType, ConnStep, hub, work
<1>4. CASE ReadFails(c)
  BY <1>4 DEF ReadFails, TypeOK, ConnType, WorkType, PresenceType, ConnStep, hub, work, presence
<1>5. CASE Unregister(c)
  BY <1>5 DEF Unregister, TypeOK, ConnType, WorkType, PresenceType, ConnStep, work, presence
<1>6. CASE CheckOffline(c)
  <2>1. job' \in [Slots -> {NoJob} \cup [user : Users, online : BOOLEAN]]
    BY <1>0, <1>6, GoPresenceJobType DEF CheckOffline, TypeOK, PresenceType
  <2>2. QED
    BY <1>6, <2>1 DEF CheckOffline, TypeOK, ConnType, WorkType, PresenceType, ConnStep, hub, work
<1>7. CASE Disconnect(c)
  BY <1>7 DEF Disconnect, TypeOK, ConnType, WorkType, PresenceType, hub, work, presence
<1>8. CASE WriteFrame(c)
  <2>1. queue[c] - 1 \in 0..Buffer
    BY <1>8, HubAssumption DEF WriteFrame, TypeOK, ConnType
  <2>2. QED
    BY <1>8, <2>1 DEF WriteFrame, TypeOK, ConnType, WorkType, PresenceType, work, presence
<1>9. CASE PumpEnds(c)
  BY <1>9 DEF PumpEnds, TypeOK, ConnType, WorkType, PresenceType, hub, work, presence
<1>10. CASE CloseVictim(c)
  BY <1>10 DEF CloseVictim, TypeOK, ConnType, WorkType, PresenceType, hub, presence
<1>11. QED
  BY <1>1, <1>2, <1>3, <1>4, <1>5, <1>6, <1>7, <1>8, <1>9, <1>10 DEF Handler

(* Whatever is published, its targets are registered clients.              *)
LEMMA CollectedAreClients ==
  ASSUME NEW w, Publish(w)
  PROVE  \E to \in SUBSET clients : Collect(w, to)
<1>1. \A u : ClientsOf(u) \subseteq clients
  BY DEF ClientsOf
<1>2. \A u, d : OnDevice(u, d) \subseteq clients /\ OffDevice(u, d) \subseteq clients
  BY <1>1 DEF OnDevice, OffDevice
<1>3. CASE \E us \in SUBSET Users \ {{}} : Collect(w, UNION {ClientsOf(u) : u \in us})
  <2>1. PICK us \in SUBSET Users : Collect(w, UNION {ClientsOf(u) : u \in us})
    BY <1>3
  <2>2. UNION {ClientsOf(u) : u \in us} \in SUBSET clients
    BY <1>1
  <2>3. QED
    BY <2>1, <2>2
<1>4. CASE \E u \in Users, d \in Devices : Collect(w, OnDevice(u, d)) \/ Collect(w, OffDevice(u, d))
  BY <1>2, <1>4
<1>5. QED
  BY <1>3, <1>4 DEF Publish

LEMMA TypeWorker ==
  ASSUME TypeOK, NEW w \in Workers,
         Serve(w) \/ Publish(w) \/ (\E s \in Sessions : Kick(w, s))
  PROVE  TypeOK'
<1>1. CASE PublishTo(w)
  <2>1. PICK c \in targets[w] : /\ targets' = [targets EXCEPT ![w] = @ \ {c}]
                                /\ IF shut[c]
                                     THEN panics' = panics \cup {"publish"} /\ UNCHANGED queue
                                     ELSE Enqueue(c) /\ UNCHANGED panics
    BY <1>1 DEF PublishTo
  <2>2. queue' \in [Conns -> 0..Buffer]
    BY <2>1, EnqueueType DEF TypeOK, ConnType, WorkType
  <2>3. ConnType'
    BY <1>1, <2>2 DEF PublishTo, TypeOK, ConnType
  <2>4. WorkType' /\ PresenceType'
    BY <1>1, <2>1 DEF PublishTo, TypeOK, WorkType, PresenceType, presence
  <2>5. QED
    BY <2>3, <2>4 DEF TypeOK
<1>2. CASE PublishDone(w)
  BY <1>2 DEF PublishDone, TypeOK, ConnType, WorkType, PresenceType, presence
<1>3. CASE KickNext(w)
  <2>1. PICK c \in targets[w] :
          IF shut[c]
            THEN /\ panics' = panics \cup {"kick"}
                 /\ act' = [act EXCEPT ![w] = "idle"]
                 /\ targets' = [targets EXCEPT ![w] = {}]
                 /\ UNCHANGED <<queue, closing>>
            ELSE /\ Enqueue(c)
                 /\ closing' = closing \cup {c}
                 /\ targets' = [targets EXCEPT ![w] = @ \ {c}]
                 /\ UNCHANGED <<panics, act>>
    BY <1>3 DEF KickNext
  <2>2. queue' \in [Conns -> 0..Buffer]
    BY <2>1, EnqueueType DEF TypeOK, ConnType, WorkType
  <2>3. ConnType'
    BY <1>3, <2>2 DEF KickNext, TypeOK, ConnType
  <2>4. /\ act' = act \/ act' = [act EXCEPT ![w] = "idle"]
        /\ closing' \in SUBSET Conns
        /\ panics' \in SUBSET {"publish", "kick"}
        /\ targets' \in [Workers -> SUBSET Conns]
    <3>0. c \in Conns
      BY DEF TypeOK, WorkType
    <3>1. CASE shut[c]
      BY <2>1, <3>1 DEF TypeOK, WorkType
    <3>2. CASE ~shut[c]
      BY <2>1, <3>0, <3>2 DEF TypeOK, WorkType
    <3>3. QED
      BY <3>1, <3>2
  <2>5. WorkType'
    BY <1>3, <2>4 DEF KickNext, TypeOK, WorkType
  <2>6. PresenceType'
    BY <1>3 DEF KickNext, TypeOK, PresenceType, presence
  <2>7. QED
    BY <2>3, <2>5, <2>6 DEF TypeOK
<1>4. CASE KickDone(w)
  BY <1>4 DEF KickDone, TypeOK, ConnType, WorkType, PresenceType, hub, presence
<1>5. CASE Publish(w)
  <2>1. PICK to \in SUBSET clients : Collect(w, to)
    BY <1>5, CollectedAreClients
  <2>2. QED
    BY <2>1 DEF Collect, TypeOK, ConnType, WorkType, PresenceType, presence
<1>6. CASE \E s \in Sessions : Kick(w, s)
  BY <1>6 DEF Kick, TypeOK, ConnType, WorkType, PresenceType, hub, presence
<1>7. QED
  BY <1>1, <1>2, <1>3, <1>4, <1>5, <1>6 DEF Serve

LEMMA TypeStep == TypeOK /\ [Next]_vars => TypeOK'
<1> SUFFICES ASSUME TypeOK, [Next]_vars PROVE TypeOK'
  OBVIOUS
<1>1. ASSUME NEW s \in Slots, PublishPresence(s) PROVE TypeOK'
  BY <1>1 DEF PublishPresence, TypeOK, ConnType, WorkType, PresenceType, hub, work
<1>2. CASE UNCHANGED vars
  BY <1>2 DEF vars, TypeOK, ConnType, WorkType, PresenceType
<1>3. QED
  BY <1>1, <1>2, TypeConn, TypeWorker DEF Next

(* Every variable of the hub keeps its type; in particular no channel ever *)
(* holds more than its capacity.                                           *)
THEOREM TypeCorrect == Spec => []TypeOK
<1>1. QED
  BY TypeInit, TypeStep, PTL DEF Spec

-----------------------------------------------------------------------------
Safe == TypeOK /\ LockedTargets /\ PublishNeverPanics

LEMMA SafeStep == Safe /\ [Next]_vars => Safe'
<1> SUFFICES ASSUME Safe, [Next]_vars PROVE LockedTargets' /\ PublishNeverPanics'
  BY TypeStep DEF Safe
<1> USE DEF Safe, TypeOK, ConnType, WorkType, LockedTargets, PublishNeverPanics
<1>1. ASSUME NEW c \in Conns, Upgrade(c) PROVE LockedTargets' /\ PublishNeverPanics'
  BY <1>1 DEF Upgrade, hub, work
<1>2. ASSUME NEW c \in Conns, Register(c) PROVE LockedTargets' /\ PublishNeverPanics'
  BY <1>2 DEF Register, work
<1>3. ASSUME NEW c \in Conns, CountConnections(c) PROVE LockedTargets' /\ PublishNeverPanics'
  BY <1>3 DEF CountConnections, hub, work
<1>4. ASSUME NEW c \in Conns, ReadFails(c) PROVE LockedTargets' /\ PublishNeverPanics'
  BY <1>4 DEF ReadFails, hub, work
<1>5. ASSUME NEW c \in Conns, Unregister(c) PROVE LockedTargets' /\ PublishNeverPanics'
  BY <1>5 DEF Unregister, work
<1>6. ASSUME NEW c \in Conns, CheckOffline(c) PROVE LockedTargets' /\ PublishNeverPanics'
  BY <1>6 DEF CheckOffline, hub, work
<1>7. ASSUME NEW c \in Conns, Disconnect(c) \/ WriteFrame(c) \/ PumpEnds(c) \/ CloseVictim(c)
      PROVE  LockedTargets' /\ PublishNeverPanics'
  BY <1>7 DEF Disconnect, WriteFrame, PumpEnds, CloseVictim, hub, work
<1>8. ASSUME NEW w \in Workers, Publish(w) PROVE LockedTargets' /\ PublishNeverPanics'
  <2>1. PICK to \in SUBSET clients : Collect(w, to)
    BY <1>8, CollectedAreClients
  <2>2. QED
    BY <2>1 DEF Collect
<1>9. ASSUME NEW w \in Workers, PublishTo(w) PROVE LockedTargets' /\ PublishNeverPanics'
  <2>1. PICK c \in targets[w] : /\ targets' = [targets EXCEPT ![w] = @ \ {c}]
                                /\ shut[c] => panics' = panics \cup {"publish"}
                                /\ ~shut[c] => UNCHANGED panics
    BY <1>9 DEF PublishTo
  <2>2. ~shut[c]
    BY <1>9, <2>1 DEF PublishTo
  <2>3. QED
    BY <1>9, <2>1, <2>2 DEF PublishTo
<1>10. ASSUME NEW w \in Workers, PublishDone(w) PROVE LockedTargets' /\ PublishNeverPanics'
  BY <1>10 DEF PublishDone
<1>11. ASSUME NEW w \in Workers, NEW s \in Sessions, Kick(w, s)
       PROVE  LockedTargets' /\ PublishNeverPanics'
  BY <1>11 DEF Kick, hub
<1>12. ASSUME NEW w \in Workers, KickNext(w) PROVE LockedTargets' /\ PublishNeverPanics'
  <2>1. /\ UNCHANGED <<conn, clients, shut, readers>>
        /\ act[w] = "kick"
        /\ \A v \in Workers \ {w} : act'[v] = act[v] /\ targets'[v] = targets[v]
        /\ act'[w] # "publish"
        /\ panics' \subseteq panics \cup {"kick"}
    BY <1>12 DEF KickNext
  <2>2. QED
    BY <2>1
<1>13. ASSUME NEW w \in Workers, KickDone(w) PROVE LockedTargets' /\ PublishNeverPanics'
  BY <1>13 DEF KickDone, hub
<1>14. ASSUME NEW s \in Slots, PublishPresence(s) PROVE LockedTargets' /\ PublishNeverPanics'
  BY <1>14 DEF PublishPresence, hub, work
<1>15. CASE UNCHANGED vars
  BY <1>15 DEF vars
<1>16. QED
  BY <1>1, <1>2, <1>3, <1>4, <1>5, <1>6, <1>7, <1>8, <1>9, <1>10, <1>11, <1>12, <1>13, <1>14, <1>15
     DEF Next, Handler, Serve

(* However connections come and go while any number of requests publish,   *)
(* no publisher sends on a closed channel.                                 *)
THEOREM PublishersAreSafe == Spec => []PublishNeverPanics
<1>1. Init => LockedTargets /\ PublishNeverPanics
  BY DEF Init, LockedTargets, PublishNeverPanics
<1>2. Init => Safe
  BY <1>1, TypeInit DEF Safe
<1>3. Safe => PublishNeverPanics
  BY DEF Safe
<1>4. QED
  BY <1>2, <1>3, SafeStep, PTL DEF Spec

-----------------------------------------------------------------------------
(* What a kick relies on.  The channel of a connection is closed only when *)
(* its socket is, and a socket is opened once; a kick of a session with    *)
(* one connection has one victim, so the panic of a send on its closed     *)
(* channel leaves nobody else to serve.                                    *)
OneEach == \A c, d \in Conns : Session[c] = Session[d] => c = d

ClosedFirst == \A c \in Conns : conn[c] \in {"unregister", "check", "gone"} => ~open[c]

KickedOnce ==
  /\ \A c \in kicked : conn[c] \notin {"away", "register"}
  /\ \A w \in Workers : act[w] = "kick" => \A c, d \in targets[w] : c = d

Kicking == ClosedFirst /\ KickedOnce /\ KickedAreClosed

LEMMA KickConn ==
  ASSUME Safe, Kicking, NEW c \in Conns,
         Upgrade(c) \/ Handler(c) \/ Disconnect(c) \/ WriteFrame(c) \/ PumpEnds(c)
  PROVE  Kicking'
<1>1. UNCHANGED <<act, targets, closing, kicked>>
  BY DEF Upgrade, Handler, Register, CountConnections, ReadFails, Unregister, CheckOffline,
         Disconnect, WriteFrame, PumpEnds, hub, work
<1>2. conn \in [Conns -> ConnStep] /\ open \in [Conns -> BOOLEAN] /\ kicked \subseteq Conns
  BY DEF Safe, TypeOK, ConnType, WorkType
<1>3. CASE Upgrade(c)
  BY <1>1, <1>2, <1>3 DEF Upgrade, Kicking, ClosedFirst, KickedOnce, KickedAreClosed
<1>4. CASE Disconnect(c) \/ WriteFrame(c) \/ PumpEnds(c)
  <2>1. conn' = conn /\ (open' = open \/ open' = [open EXCEPT ![c] = FALSE])
    BY <1>4 DEF Disconnect, WriteFrame, PumpEnds
  <2>2. QED
    BY <1>1, <1>2, <2>1 DEF Kicking, ClosedFirst, KickedOnce, KickedAreClosed
<1>5. CASE Handler(c)
  <2>1. open' = open
    BY <1>5 DEF Handler, Register, CountConnections, ReadFails, Unregister, CheckOffline
  <2>2. PICK k \in {"count", "read", "unregister", "check", "gone"} :
          /\ conn' = [conn EXCEPT ![c] = k]
          /\ k \in {"unregister", "check", "gone"} => ~open[c]
    BY <1>5 DEF Handler, Register, CountConnections, ReadFails, Unregister, CheckOffline,
                Kicking, ClosedFirst
  <2>3. QED
    BY <1>1, <1>2, <2>1, <2>2 DEF Kicking, ClosedFirst, KickedOnce, KickedAreClosed
<1>6. QED
  BY <1>3, <1>4, <1>5

LEMMA KickWorker ==
  ASSUME OneEach, Safe, Kicking, NEW w \in Workers,
         Serve(w) \/ Publish(w) \/ (\E s \in Sessions : Kick(w, s))
  PROVE  Kicking'
<1>1. UNCHANGED <<conn, open>>
  BY DEF Serve, PublishTo, PublishDone, KickNext, KickDone, Publish, Collect, Kick
<1>2. ClosedFirst'
  BY <1>1 DEF Kicking, ClosedFirst
<1>3. /\ act \in [Workers -> {"idle", "publish", "kick"}]
      /\ targets \in [Workers -> SUBSET Conns] /\ kicked \subseteq Conns /\ clients \subseteq Conns
  BY DEF Safe, TypeOK, ConnType, WorkType
<1>4. ASSUME act[w] # "kick", UNCHANGED <<closing, kicked>>, NEW k \in {"idle", "publish"},
             act' = [act EXCEPT ![w] = k] \/ (act' = act /\ k = act[w]),
             \A v \in Workers \ {w} : targets'[v] = targets[v]
      PROVE  Kicking'
  <2>1. \A v \in Workers : act[v] = "kick" <=> act'[v] = "kick"
    BY <1>3, <1>4
  <2>2. \A v \in Workers : act[v] = "kick" => targets'[v] = targets[v]
    BY <1>4
  <2>3. KickedOnce'
    BY <1>1, <1>4, <2>1, <2>2 DEF Kicking, KickedOnce
  <2>4. KickedAreClosed'
    BY <1>1, <1>4, <2>1, <2>2 DEF Kicking, KickedAreClosed
  <2>5. QED
    BY <1>2, <2>3, <2>4 DEF Kicking
<1>5. CASE Publish(w)
  <2>1. PICK to \in SUBSET clients : Collect(w, to)
    BY <1>5, CollectedAreClients
  <2>2. QED
    BY <1>3, <1>4, <2>1 DEF Collect
<1>6. CASE PublishTo(w)
  <2>1. act[w] = "publish" /\ UNCHANGED <<act, closing, kicked>>
    BY <1>6 DEF PublishTo
  <2>2. \A v \in Workers \ {w} : targets'[v] = targets[v]
    BY <1>3, <1>6 DEF PublishTo
  <2>3. QED
    BY <1>4, <2>1, <2>2
<1>7. CASE PublishDone(w)
  BY <1>4, <1>7 DEF PublishDone
<1>8. CASE \E s \in Sessions : Kick(w, s)
  <2>1. PICK s \in Sessions : Kick(w, s)
    BY <1>8
  <2>2. DEFINE victims == {c \in clients : Session[c] = s}
  <2>3. /\ act' = [act EXCEPT ![w] = "kick"] /\ targets' = [targets EXCEPT ![w] = victims]
        /\ kicked' = kicked \cup victims /\ closing' = closing /\ act[w] = "idle"
    BY <2>1 DEF Kick
  <2>4. \A c, d \in victims : c = d
    BY <1>3 DEF OneEach
  <2>5. \A c \in victims : conn[c] \notin {"away", "register"}
    BY DEF Safe, LockedTargets
  <2>6. KickedOnce'
    BY <1>1, <1>3, <2>3, <2>4, <2>5 DEF Kicking, KickedOnce
  <2>7. KickedAreClosed'
    BY <1>1, <1>3, <2>3 DEF Kicking, KickedAreClosed
  <2>8. QED
    BY <1>2, <2>6, <2>7 DEF Kicking
<1>9. CASE KickNext(w)
  <2>1. PICK c \in targets[w] :
          IF shut[c]
            THEN /\ act' = [act EXCEPT ![w] = "idle"]
                 /\ targets' = [targets EXCEPT ![w] = {}]
                 /\ UNCHANGED closing
            ELSE /\ closing' = closing \cup {c}
                 /\ targets' = [targets EXCEPT ![w] = @ \ {c}]
                 /\ UNCHANGED act
    BY <1>9 DEF KickNext
  <2>2. /\ act[w] = "kick" /\ kicked' = kicked /\ c \in Conns
        /\ \A d \in targets[w] : d = c
    BY <1>3, <1>9 DEF KickNext, Kicking, KickedOnce
  <2>3. shut[c] => ~open[c]
    BY <2>2 DEF Safe, LockedTargets, Kicking, ClosedFirst
  <2>4. /\ \A v \in Workers \ {w} : act'[v] = act[v] /\ targets'[v] = targets[v]
        /\ targets'[w] \subseteq targets[w]
        /\ closing \subseteq closing' /\ (~open[c] \/ c \in closing')
    BY <1>3, <2>1, <2>3
  <2>5. KickedOnce'
    <3>1. \A v \in Workers : act'[v] = "kick" => act[v] = "kick" /\ targets'[v] \subseteq targets[v]
      BY <2>2, <2>4
    <3>2. QED
      BY <1>1, <2>2, <3>1 DEF Kicking, KickedOnce
  <2>6. KickedAreClosed'
    BY <1>1, <2>2, <2>4 DEF Kicking, KickedAreClosed
  <2>7. QED
    BY <1>2, <2>5, <2>6 DEF Kicking
<1>10. CASE KickDone(w)
  <2>1. /\ targets[w] = {} /\ UNCHANGED <<targets, closing, kicked>>
        /\ act' = [act EXCEPT ![w] = "idle"]
    BY <1>10 DEF KickDone
  <2>2. KickedOnce' /\ KickedAreClosed'
    BY <1>1, <1>3, <2>1 DEF Kicking, KickedOnce, KickedAreClosed
  <2>3. QED
    BY <1>2, <2>2 DEF Kicking
<1>11. QED
  BY <1>5, <1>6, <1>7, <1>8, <1>9, <1>10 DEF Serve

LEMMA KickStep == OneEach /\ Safe /\ Kicking /\ [Next]_vars => Kicking'
<1> SUFFICES ASSUME OneEach, Safe, Kicking, [Next]_vars PROVE Kicking'
  OBVIOUS
<1>1. ASSUME NEW c \in Conns, CloseVictim(c) PROVE Kicking'
  <2>1. /\ UNCHANGED <<conn, act, targets, kicked>> /\ closing' = closing \ {c}
        /\ open' = [open EXCEPT ![c] = FALSE]
    BY <1>1 DEF CloseVictim
  <2>2. open \in [Conns -> BOOLEAN] /\ kicked \subseteq Conns
    BY DEF Safe, TypeOK, ConnType, WorkType
  <2>3. QED
    BY <2>1, <2>2 DEF Kicking, ClosedFirst, KickedOnce, KickedAreClosed
<1>2. ASSUME UNCHANGED <<conn, open, act, targets, closing, kicked>> PROVE Kicking'
  BY <1>2 DEF Kicking, ClosedFirst, KickedOnce, KickedAreClosed
<1>3. ASSUME NEW s \in Slots, PublishPresence(s) PROVE Kicking'
  BY <1>2, <1>3 DEF PublishPresence, work
<1>4. CASE UNCHANGED vars
  BY <1>2, <1>4 DEF vars, work
<1>5. QED
  BY <1>1, <1>3, <1>4, KickConn, KickWorker DEF Next

(* Where every session has one connection, a connection that any of the    *)
(* overlapping kicks has collected is dead, about to be closed, or still   *)
(* being served, whatever happens to its socket meanwhile.                 *)
THEOREM KicksAreKept == OneEach => (Spec => []KickedAreClosed)
<1> SUFFICES ASSUME OneEach PROVE Spec => []KickedAreClosed
  OBVIOUS
<1>1. Init => Safe /\ Kicking
  BY TypeInit DEF Init, Safe, LockedTargets, PublishNeverPanics, Kicking, ClosedFirst,
                  KickedOnce, KickedAreClosed
<1>2. Safe /\ Kicking /\ [Next]_vars => (Safe /\ Kicking)'
  BY SafeStep, KickStep
<1>3. Safe /\ Kicking => KickedAreClosed
  BY DEF Kicking
<1>4. QED
  BY <1>1, <1>2, <1>3, PTL DEF Spec
=============================================================================
