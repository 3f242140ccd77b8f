------------------------------- MODULE WSHub -------------------------------
(***************************************************************************)
(* The WebSocket hub of one API process: services/api/internal/ws/hub.go   *)
(* and the pumps, presence jobs and worker pool around it                  *)
(* (internal/server/ws_calls_handlers.go, async_jobs.go).                  *)
(*                                                                         *)
(* A connection is two goroutines, the handler that reads and the pump     *)
(* that writes, joined by a buffered channel.  Request handlers publish    *)
(* events into the channels while they hold the hub's read lock; a kick    *)
(* collects its victims under the lock and sends after releasing it.       *)
(***************************************************************************)
EXTENDS Naturals, FiniteSets

CONSTANTS
  Users,
  Conns,        (* connections; each is opened at most once                *)
  Owner,        (* Owner[c]: the user connection c belongs to              *)
  Sessions,
  Session,      (* Session[c]: the login session of connection c           *)
  Devices,
  Device,       (* Device[c]: its device, None for a token without one     *)
  None,
  Workers,      (* request handlers that publish or kick                   *)
  Buffer,       (* ClientSendBuffer                                        *)
  Slots         (* presenceWorkerSlots: presence jobs that run at a time   *)

ASSUME HubAssumption ==
  /\ Owner \in [Conns -> Users]
  /\ Session \in [Conns -> Sessions]
  /\ Device \in [Conns -> Devices \cup {None}]
  /\ Buffer \in Nat

VARIABLES
  conn,         (* conn[c]: step of the goroutine of handleWS and readPump *)
  pump,         (* pump[c]: the goroutine of writePump                     *)
  open,         (* open[c]: the socket works                               *)
  clients,      (* Hub.clients                                             *)
  queue,        (* queue[c]: frames in the channel Send                    *)
  shut,         (* shut[c]: the channel Send has been closed               *)
  readers,      (* workers that hold mu.RLock                              *)
  act,          (* act[w]: what worker w is doing                          *)
  targets,      (* targets[w]: clients w has yet to send to                *)
  closing,      (* clients whose socket a kick closes after its delay      *)
  kicked,       (* clients some kick has collected                         *)
  panics,       (* kinds of send that have hit a closed channel            *)
  job,          (* job[s]: the presence job in slot s                      *)
  status        (* status[u]: users.status                                 *)

hub      == <<clients, queue, shut, readers>>
work     == <<act, targets, closing, kicked, panics>>
presence == <<job, status>>
vars     == <<conn, pump, open, clients, queue, shut, readers, act, targets, closing,
              kicked, panics, job, status>>

ConnStep == {"away", "register", "count", "read", "unregister", "check", "gone"}
NoJob    == [user |-> "none", online |-> FALSE]

Init ==
  /\ conn = [c \in Conns |-> "away"]
  /\ pump = [c \in Conns |-> "off"]
  /\ open = [c \in Conns |-> FALSE]
  /\ clients = {}
  /\ queue = [c \in Conns |-> 0]
  /\ shut = [c \in Conns |-> FALSE]
  /\ readers = {}
  /\ act = [w \in Workers |-> "idle"]
  /\ targets = [w \in Workers |-> {}]
  /\ closing = {}
  /\ kicked = {}
  /\ panics = {}
  /\ job = [s \in Slots |-> NoJob]
  /\ status = [u \in Users |-> "offline"]

ClientsOf(u) == {c \in clients : Owner[c] = u}

-----------------------------------------------------------------------------
(* Presence *)

(* goPresenceJob: without a free slot the update is skipped.               *)
GoPresenceJob(u, online) ==
  \/ \E s \in Slots : job[s] = NoJob /\ job' = [job EXCEPT ![s] = [user |-> u, online |-> online]]
  \/ (\A s \in Slots : job[s] # NoJob) /\ UNCHANGED job

(* publishPresence writes what was true when the job was created.          *)
PublishPresence(s) ==
  /\ job[s] # NoJob
  /\ status' = [status EXCEPT ![job[s].user] = IF job[s].online THEN "online" ELSE "offline"]
  /\ job' = [job EXCEPT ![s] = NoJob]
  /\ UNCHANGED <<conn, pump, open, hub, work>>

-----------------------------------------------------------------------------
(* handleWS and readPump *)

Upgrade(c) ==
  /\ conn[c] = "away"
  /\ conn' = [conn EXCEPT ![c] = "register"]
  /\ open' = [open EXCEPT ![c] = TRUE]
  /\ UNCHANGED <<pump, hub, work, presence>>

(* Hub.Register waits for the readers; the write pump starts after it.     *)
Register(c) ==
  /\ conn[c] = "register" /\ readers = {}
  /\ clients' = clients \cup {c}
  /\ pump' = [pump EXCEPT ![c] = "run"]
  /\ conn' = [conn EXCEPT ![c] = "count"]
  /\ UNCHANGED <<open, queue, shut, readers, work, presence>>

(* Only the first connection of a user announces it online.                *)
CountConnections(c) ==
  /\ conn[c] = "count"
  /\ IF Cardinality(ClientsOf(Owner[c])) = 1 THEN GoPresenceJob(Owner[c], TRUE) ELSE UNCHANGED job
  /\ conn' = [conn EXCEPT ![c] = "read"]
  /\ UNCHANGED <<pump, open, hub, work, status>>

(* The client leaves, the network fails or a deadline passes.              *)
Disconnect(c) ==
  /\ open[c]
  /\ open' = [open EXCEPT ![c] = FALSE]
  /\ UNCHANGED <<conn, pump, hub, work, presence>>

ReadFails(c) ==
  /\ conn[c] = "read" /\ ~open[c]
  /\ conn' = [conn EXCEPT ![c] = "unregister"]
  /\ UNCHANGED <<pump, open, hub, work, presence>>

(* Mutant: the channel is closed without taking the lock.                  *)
UnregisterUnlocked(c) ==
  /\ conn[c] = "unregister"
  /\ clients' = clients \ {c}
  /\ shut' = [shut EXCEPT ![c] = TRUE]
  /\ conn' = [conn EXCEPT ![c] = "check"]
  /\ UNCHANGED <<pump, open, queue, readers, work, presence>>

(* Hub.Unregister: leaves the map and closes the channel under the lock.   *)
Unregister(c) ==
  /\ conn[c] = "unregister" /\ readers = {}
  /\ clients' = clients \ {c}
  /\ shut' = [shut EXCEPT ![c] = TRUE]
  /\ conn' = [conn EXCEPT ![c] = "check"]
  /\ UNCHANGED <<pump, open, queue, readers, work, presence>>

(* IsOnline takes the lock again: other connections may have come or gone. *)
CheckOffline(c) ==
  /\ conn[c] = "check"
  /\ IF ClientsOf(Owner[c]) = {} THEN GoPresenceJob(Owner[c], FALSE) ELSE UNCHANGED job
  /\ conn' = [conn EXCEPT ![c] = "gone"]
  /\ UNCHANGED <<pump, open, hub, work, status>>

-----------------------------------------------------------------------------
(* writePump *)

WriteFrame(c) ==
  /\ pump[c] = "run" /\ queue[c] > 0 /\ open[c]
  /\ queue' = [queue EXCEPT ![c] = @ - 1]
  /\ UNCHANGED <<conn, pump, open, clients, shut, readers, work, presence>>

(* A write or a ping fails, or the closed channel is drained.              *)
PumpEnds(c) ==
  /\ pump[c] = "run"
  /\ ~open[c] \/ (shut[c] /\ queue[c] = 0)
  /\ pump' = [pump EXCEPT ![c] = "end"]
  /\ open' = [open EXCEPT ![c] = FALSE]
  /\ UNCHANGED <<conn, hub, work, presence>>

-----------------------------------------------------------------------------
(* Publishing and kicking *)

(* The outcome of a non-blocking send on the channel of c: enqueued, or    *)
(* dropped when the buffer is full.                                        *)
Enqueue(c) == queue' = [queue EXCEPT ![c] = IF @ < Buffer THEN @ + 1 ELSE @]

(* The clients of u on device d; those without a device if d has none.     *)
OnDevice(u, d) ==
  LET exact == {c \in ClientsOf(u) : Device[c] = d} IN
  IF exact # {} THEN exact ELSE {c \in ClientsOf(u) : Device[c] = None}

OffDevice(u, d) == {c \in ClientsOf(u) : Device[c] # d}

(* PublishToUsers, PublishToUserDevice or PublishToUserExceptDevice takes  *)
(* the read lock and collects its targets.                                 *)
Collect(w, to) ==
  /\ act[w] = "idle"
  /\ act' = [act EXCEPT ![w] = "publish"]
  /\ targets' = [targets EXCEPT ![w] = to]
  /\ readers' = readers \cup {w}
  /\ UNCHANGED <<conn, pump, open, clients, queue, shut, closing, kicked, panics, presence>>

Publish(w) ==
  \/ \E us \in SUBSET Users \ {{}} : Collect(w, UNION {ClientsOf(u) : u \in us})
  \/ \E u \in Users, d \in Devices : Collect(w, OnDevice(u, d)) \/ Collect(w, OffDevice(u, d))

PublishTo(w) ==
  /\ act[w] = "publish"
  /\ \E c \in targets[w] :
       /\ targets' = [targets EXCEPT ![w] = @ \ {c}]
       /\ IF shut[c]
            THEN panics' = panics \cup {"publish"} /\ UNCHANGED queue
            ELSE Enqueue(c) /\ UNCHANGED panics
  /\ UNCHANGED <<conn, pump, open, clients, shut, readers, act, closing, kicked, presence>>

PublishDone(w) ==
  /\ act[w] = "publish" /\ targets[w] = {}
  /\ act' = [act EXCEPT ![w] = "idle"]
  /\ readers' = readers \ {w}
  /\ UNCHANGED <<conn, pump, open, clients, queue, shut, targets, closing, kicked, panics, presence>>

(* kickSessionsLocal: the victims are collected under the read lock and    *)
(* served after it is released.                                            *)
Kick(w, s) ==
  /\ act[w] = "idle"
  /\ LET victims == {c \in clients : Session[c] = s} IN
     /\ targets' = [targets EXCEPT ![w] = victims]
     /\ kicked' = kicked \cup victims
  /\ act' = [act EXCEPT ![w] = "kick"]
  /\ UNCHANGED <<conn, pump, open, hub, closing, panics, presence>>

(* Mutant: only clients whose buffer took the event are disconnected.      *)
KickNextUnlessFull(w) ==
  /\ act[w] = "kick"
  /\ \E c \in targets[w] :
       IF shut[c]
         THEN /\ panics' = panics \cup {"kick"}
              /\ act' = [act EXCEPT ![w] = "idle"]
              /\ targets' = [targets EXCEPT ![w] = {}]
              /\ UNCHANGED <<queue, closing>>
         ELSE /\ Enqueue(c)
              /\ closing' = IF queue[c] < Buffer THEN closing \cup {c} ELSE closing
              /\ targets' = [targets EXCEPT ![w] = @ \ {c}]
              /\ UNCHANGED <<panics, act>>
  /\ UNCHANGED <<conn, pump, open, clients, shut, readers, kicked, presence>>

(* A send on a channel that has been closed since panics: the request ends *)
(* and its remaining victims are not served.                               *)
KickNext(w) ==
  /\ act[w] = "kick"
  /\ \E c \in targets[w] :
       IF shut[c]
         THEN /\ panics' = panics \cup {"kick"}
              /\ act' = [act EXCEPT ![w] = "idle"]
              /\ targets' = [targets EXCEPT ![w] = {}]
              /\ UNCHANGED <<queue, closing>>
         ELSE /\ Enqueue(c)
              /\ closing' = closing \cup {c}
              /\ targets' = [targets EXCEPT ![w] = @ \ {c}]
              /\ UNCHANGED <<panics, act>>
  /\ UNCHANGED <<conn, pump, open, clients, shut, readers, kicked, presence>>

KickDone(w) ==
  /\ act[w] = "kick" /\ targets[w] = {}
  /\ act' = [act EXCEPT ![w] = "idle"]
  /\ UNCHANGED <<conn, pump, open, hub, targets, closing, kicked, panics, presence>>

(* 80 ms after its event was sent the socket of a victim is closed.        *)
CloseVictim(c) ==
  /\ c \in closing
  /\ closing' = closing \ {c}
  /\ open' = [open EXCEPT ![c] = FALSE]
  /\ UNCHANGED <<conn, pump, hub, act, targets, kicked, panics, presence>>

-----------------------------------------------------------------------------
Handler(c) == Register(c) \/ CountConnections(c) \/ ReadFails(c) \/ Unregister(c) \/ CheckOffline(c)

Serve(w) == PublishTo(w) \/ PublishDone(w) \/ KickNext(w) \/ KickDone(w)

Next ==
  \/ \E c \in Conns : Upgrade(c) \/ Handler(c) \/ Disconnect(c) \/ WriteFrame(c) \/ PumpEnds(c)
                      \/ CloseVictim(c)
  \/ \E w \in Workers : Serve(w) \/ Publish(w)
  \/ \E w \in Workers, s \in Sessions : Kick(w, s)
  \/ \E s \in Slots : PublishPresence(s)

Spec == Init /\ [][Next]_vars

(* Goroutines that can run do run.  sync.RWMutex holds new readers back    *)
(* while a writer waits, so Register and Unregister are not starved.       *)
Fairness ==
  /\ \A c \in Conns : SF_vars(Handler(c)) /\ WF_vars(PumpEnds(c)) /\ WF_vars(CloseVictim(c))
  /\ \A w \in Workers : WF_vars(Serve(w))
  /\ \A s \in Slots : WF_vars(PublishPresence(s))

FairSpec == Spec /\ Fairness

-----------------------------------------------------------------------------
ConnType ==
  /\ conn \in [Conns -> ConnStep]
  /\ pump \in [Conns -> {"off", "run", "end"}]
  /\ open \in [Conns -> BOOLEAN]
  /\ clients \in SUBSET Conns
  /\ queue \in [Conns -> 0..Buffer]
  /\ shut \in [Conns -> BOOLEAN]

WorkType ==
  /\ readers \in SUBSET Workers
  /\ act \in [Workers -> {"idle", "publish", "kick"}]
  /\ targets \in [Workers -> SUBSET Conns]
  /\ closing \in SUBSET Conns
  /\ kicked \in SUBSET Conns
  /\ panics \in SUBSET {"publish", "kick"}

PresenceType ==
  /\ job \in [Slots -> {NoJob} \cup [user : Users, online : BOOLEAN]]
  /\ status \in [Users -> {"online", "offline"}]

TypeOK == ConnType /\ WorkType /\ PresenceType

(* What keeps publishers safe: a channel is closed only by a connection    *)
(* that has left the hub, and whoever holds the read lock sends only to    *)
(* connections that are still in it.                                       *)
LockedTargets ==
  /\ \A c \in Conns : shut[c] => conn[c] \in {"check", "gone"}
  /\ \A c \in clients : conn[c] \in {"count", "read", "unregister"}
  /\ \A w \in Workers : act[w] = "publish" => w \in readers /\ targets[w] \subseteq clients

(* No publisher ever sends on a channel that has been closed, which would  *)
(* panic, although clients disconnect all the time: the lock it holds from *)
(* collecting its targets to the last send keeps Unregister out.           *)
PublishNeverPanics == "publish" \notin panics

(* The comment on KickSessions: it "notifies matching clients then closes  *)
(* their sockets".  A connection a kick has collected is still being       *)
(* served, is about to be closed, or is dead.  Holds as long as a session  *)
(* has one connection.                                                     *)
KickedAreClosed ==
  \A c \in kicked :
    \/ ~open[c] \/ c \in closing
    \/ \E w \in Workers : act[w] = "kick" /\ c \in targets[w]

(* A kicked connection leaves the hub: its two goroutines end.             *)
KickedLeave == \A c \in Conns : c \in kicked ~> conn[c] = "gone" /\ pump[c] = "end"
=============================================================================
