---------------------------- MODULE MessageSync ----------------------------
(***************************************************************************)
(* One conversation as its clients see it: messages are sent, edited and   *)
(* recalled through the handlers of services/api/internal/server           *)
(* (message_handlers.go, status_edit_handlers.go), and every client keeps  *)
(* a list that it changes when an event arrives on its WebSocket, when one *)
(* of its own requests is answered, and when it loads the conversation     *)
(* (apps/web/src/lib/useChat.ts; the mobile client does the same).         *)
(*                                                                         *)
(* A handler writes the row and publishes in two steps.  The members are   *)
(* read under the context of the request: cut off in between, it publishes *)
(* nothing, and what it publishes may miss a client (a gap of its          *)
(* WebSocket, a full queue, another process).  Events that reach a client  *)
(* do so in the order they were published; answers to requests travel on   *)
(* other connections and overtake them, or are lost.  The clients are      *)
(* ordinary members: in a group a recalled message vanishes for them, in a *)
(* direct conversation a notice stays.                                     *)
(***************************************************************************)
EXTENDS Naturals, Sequences, FiniteSets

CONSTANTS
  Clients,
  Authors,      (* the clients of the user who writes                      *)
  Msgs,         (* client_msg_ids                                          *)
  Texts,        (* bodies                                                  *)
  Workers,      (* requests handled at the same time                       *)
  MaxAsks,      (* bound: edits, recalls and lists that are asked for      *)
  MaxAstray,    (* bound: clients and messages they are not told about     *)
  Dm            (* TRUE for a direct conversation, FALSE for a group       *)

ASSUME SyncAssumption ==
  /\ Authors \subseteq Clients
  /\ MaxAsks \in Nat /\ MaxAstray \in Nat
  /\ Dm \in BOOLEAN
  /\ Texts \cap {"none", "recalled", "absent", "pending", "failed", "notice"} = {}

VARIABLES
  row,          (* row[m]: "none", "recalled", or the body of the message  *)
  used,         (* client_msg_ids that have been taken                     *)
  asks,         (* edits, recalls and lists asked for, up to MaxAsks       *)
  step,         (* step[w]: next step of the request worker w handles      *)
  job,          (* job[w]: <<client, message, body>> of that request       *)
  ws,           (* ws[c]: events on their way to client c                  *)
  replies,      (* answers on their way to a client                        *)
  loads,        (* message lists on their way to a client                  *)
  view,         (* view[c][m]: "absent", "pending", "failed", "notice", or *)
                (* the body client c shows                                 *)
  overlapped,   (* two requests have been handled at the same time         *)
  loaded,       (* a client has opened the conversation                    *)
  astray        (* <<c, m>>: an event of m has not reached client c, or    *)
                (* spoke of a recall that was not stored                   *)

history == <<overlapped, loaded, astray>>
vars == <<row, used, asks, step, job, ws, replies, loads, view, overlapped, loaded, astray>>

Steps == {"idle", "insert", "announce", "update", "updated", "recall", "recalled"}
NoJob == <<>>

Live(m)  == row[m] \in Texts
Kept(c, m) == view[c][m] \in Texts \cup {"notice"}    (* has the server's id *)

Init ==
  /\ row = [m \in Msgs |-> "none"]
  /\ used = {}
  /\ asks = 0
  /\ step = [w \in Workers |-> "idle"]
  /\ job = [w \in Workers |-> NoJob]
  /\ ws = [c \in Clients |-> <<>>]
  /\ replies = {}
  /\ loads = {}
  /\ view = [c \in Clients |-> [m \in Msgs |-> "absent"]]
  /\ overlapped = FALSE
  /\ loaded = FALSE
  /\ astray = {}

-----------------------------------------------------------------------------
(* Requests *)

Start(w, l, j) ==
  /\ step[w] = "idle"
  /\ step' = [step EXCEPT ![w] = l]
  /\ job' = [job EXCEPT ![w] = j]
  /\ overlapped' = (overlapped \/ \E v \in Workers : step[v] # "idle")
  /\ UNCHANGED <<loaded, astray>>

Finish(w) ==
  /\ step' = [step EXCEPT ![w] = "idle"]
  /\ job' = [job EXCEPT ![w] = NoJob]

(* The clients in S are told nothing about m, or something wrong.          *)
Astray(S, m) ==
  /\ astray' = astray \cup (S \X {m})
  /\ Cardinality(astray') <= MaxAstray

(* PublishToUsers, for the members that memberIDs finds: none once the     *)
(* request is cut off.  A client that has a connection gets the event.     *)
Publish(kind, m, t) ==
  \E D \in SUBSET Clients :
    /\ ws' = [c \in Clients |-> IF c \in D THEN Append(ws[c], <<kind, m, t>>) ELSE ws[c]]
    /\ Astray(Clients \ D, m)
    /\ UNCHANGED <<overlapped, loaded>>

Reply(c, kind, m, t) == replies' = replies \cup {<<c, kind, m, t>>}

(* sendMessage: an optimistic entry with a new client_msg_id, then POST.   *)
Send(c, w, m, t) ==
  /\ m \notin used
  /\ used' = used \cup {m}
  /\ view' = [view EXCEPT ![c][m] = "pending"]
  /\ Start(w, "insert", <<c, m, t>>)
  /\ UNCHANGED <<row, asks, ws, replies, loads>>

(* retryMessage: the failed entry goes, and a new message is sent.         *)
Retry(c, w, m, n, t) ==
  /\ view[c][m] = "failed" /\ n \notin used
  /\ used' = used \cup {n}
  /\ view' = [view EXCEPT ![c][m] = "absent", ![c][n] = "pending"]
  /\ Start(w, "insert", <<c, n, t>>)
  /\ UNCHANGED <<row, asks, ws, replies, loads>>

(* handleSendMessage: the INSERT, or an error before it.                   *)
Insert(w) ==
  /\ step[w] = "insert"
  /\ LET c == job[w][1]  m == job[w][2]  t == job[w][3] IN
     \/ /\ row' = [row EXCEPT ![m] = t]
        /\ step' = [step EXCEPT ![w] = "announce"]
        /\ UNCHANGED <<job, replies>>
     \/ /\ Reply(c, "failed", m, t)
        /\ Finish(w)
        /\ UNCHANGED row
  /\ UNCHANGED <<used, asks, ws, loads, view>> /\ UNCHANGED history

(* The event goes to the members; the answer may be lost on its way, which *)
(* the client takes for a failure.                                         *)
Announce(w) ==
  /\ step[w] = "announce"
  /\ LET c == job[w][1]  m == job[w][2]  t == job[w][3] IN
     /\ Publish("new", m, t)
     /\ Reply(c, "sent", m, t) \/ Reply(c, "failed", m, t)
  /\ Finish(w)
  /\ UNCHANGED <<row, used, asks, loads, view>>

(* handleEditMessage: finds the message not recalled ...                   *)
Edit(c, w, m, t) ==
  /\ view[c][m] \in Texts /\ Live(m)
  /\ asks < MaxAsks /\ asks' = asks + 1
  /\ Start(w, "update", <<c, m, t>>)
  /\ UNCHANGED <<row, used, ws, replies, loads, view>>

(* Mutant: an update of the body brings the message back.                  *)
UpdateRevives(w) ==
  /\ step[w] = "update"
  /\ row' = [row EXCEPT ![job[w][2]] = job[w][3]]
  /\ step' = [step EXCEPT ![w] = "updated"]
  /\ UNCHANGED <<used, asks, job, ws, replies, loads, view>> /\ UNCHANGED history

(* ... and updates its body, which a recall in between keeps hidden, or    *)
(* fails.                                                                  *)
Update(w) ==
  /\ step[w] = "update"
  /\ \/ /\ row' = [row EXCEPT ![job[w][2]] = IF @ = "recalled" THEN @ ELSE job[w][3]]
        /\ step' = [step EXCEPT ![w] = "updated"]
        /\ UNCHANGED job
     \/ Finish(w) /\ UNCHANGED row
  /\ UNCHANGED <<used, asks, ws, replies, loads, view>> /\ UNCHANGED history

(* Mutant: only the client that edits learns of it.                        *)
UpdatedReplyOnly(w) ==
  /\ step[w] = "updated"
  /\ Reply(job[w][1], "edited", job[w][2], job[w][3])
  /\ Finish(w)
  /\ UNCHANGED <<row, used, asks, ws, loads, view>> /\ UNCHANGED history

Updated(w) ==
  /\ step[w] = "updated"
  /\ LET c == job[w][1]  m == job[w][2]  t == job[w][3] IN
     /\ Publish("updated", m, t)
     /\ Reply(c, "edited", m, t) \/ UNCHANGED replies
  /\ Finish(w)
  /\ UNCHANGED <<row, used, asks, loads, view>>

(* handleRecall                                                            *)
AskRecall(c, w, m) ==
  /\ view[c][m] \in Texts
  /\ asks < MaxAsks /\ asks' = asks + 1
  /\ Start(w, "recall", <<c, m, "recalled">>)
  /\ UNCHANGED <<row, used, ws, replies, loads, view>>

(* The error of the UPDATE is ignored: the recall is announced anyway.     *)
Recall(w) ==
  /\ step[w] = "recall"
  /\ \/ row' = [row EXCEPT ![job[w][2]] = "recalled"] /\ UNCHANGED astray
     \/ Astray(Clients, job[w][2]) /\ UNCHANGED row
  /\ step' = [step EXCEPT ![w] = "recalled"]
  /\ UNCHANGED <<used, asks, job, ws, replies, loads, view, overlapped, loaded>>

Recalled(w) ==
  /\ step[w] = "recalled"
  /\ LET c == job[w][1]  m == job[w][2]  t == job[w][3] IN
     /\ Publish("recalled", m, t)
     /\ Reply(c, "recalled", m, t) \/ UNCHANGED replies
  /\ Finish(w)
  /\ UNCHANGED <<row, used, asks, loads, view>>

(* handleListMessages: one SELECT.  Recalled messages are left out in a    *)
(* group and listed as such in a direct conversation.                      *)
Listed(m) ==
  CASE row[m] = "none"     -> "absent"
    [] row[m] = "recalled" -> IF Dm THEN "notice" ELSE "absent"
    [] OTHER               -> row[m]

Load(c) ==
  /\ \A l \in loads : l[1] # c
  /\ asks < MaxAsks /\ asks' = asks + 1
  /\ loaded' = TRUE
  /\ loads' = loads \cup {<<c, [m \in Msgs |-> Listed(m)]>>}
  /\ UNCHANGED <<row, used, step, job, ws, replies, view, overlapped, astray>>

-----------------------------------------------------------------------------
(* The client: useChat *)

Hide(c, m) == [view EXCEPT ![c][m] = IF Dm THEN "notice" ELSE "absent"]

(* Mutant: the echo of the user's own message is skipped.                  *)
IncomingOthersOnly(c) ==
  /\ ws[c] # <<>>
  /\ ws' = [ws EXCEPT ![c] = Tail(@)]
  /\ LET kind == Head(ws[c])[1]  m == Head(ws[c])[2]  t == Head(ws[c])[3] IN
     view' = IF kind = "new" /\ c \notin Authors THEN [view EXCEPT ![c][m] = t] ELSE view
  /\ UNCHANGED <<row, used, asks, step, job, replies, loads>> /\ UNCHANGED history

(* handleIncoming: message.new replaces an entry with its id or its        *)
(* client_msg_id or adds one; the others look for the server's id.         *)
Incoming(c) ==
  /\ ws[c] # <<>>
  /\ ws' = [ws EXCEPT ![c] = Tail(@)]
  /\ LET kind == Head(ws[c])[1]  m == Head(ws[c])[2]  t == Head(ws[c])[3] IN
     \/ kind = "new" /\ view' = [view EXCEPT ![c][m] = t]
     \/ kind = "updated" /\ view' = IF view[c][m] \in Texts THEN [view EXCEPT ![c][m] = t] ELSE view
     \/ kind = "recalled" /\ view' = IF Kept(c, m) THEN Hide(c, m) ELSE view
  /\ UNCHANGED <<row, used, asks, step, job, replies, loads>> /\ UNCHANGED history

(* sendMessage when the POST is answered: the entry is looked up by its    *)
(* client_msg_id and replaced.                                             *)
Sent(c, m, t) ==
  /\ <<c, "sent", m, t>> \in replies
  /\ replies' = replies \ {<<c, "sent", m, t>>}
  /\ view' = IF view[c][m] # "absent" THEN [view EXCEPT ![c][m] = t] ELSE view
  /\ UNCHANGED <<row, used, asks, step, job, ws, loads>> /\ UNCHANGED history

(* ... when it fails: only an entry that still has its temporary id.       *)
Failed(c, m, t) ==
  /\ <<c, "failed", m, t>> \in replies
  /\ replies' = replies \ {<<c, "failed", m, t>>}
  /\ view' = IF view[c][m] = "pending" THEN [view EXCEPT ![c][m] = "failed"] ELSE view
  /\ UNCHANGED <<row, used, asks, step, job, ws, loads>> /\ UNCHANGED history

(* editMessage *)
Edited(c, m, t) ==
  /\ <<c, "edited", m, t>> \in replies
  /\ replies' = replies \ {<<c, "edited", m, t>>}
  /\ view' = IF view[c][m] \in Texts THEN [view EXCEPT ![c][m] = t] ELSE view
  /\ UNCHANGED <<row, used, asks, step, job, ws, loads>> /\ UNCHANGED history

(* recallMessage *)
RecallDone(c, m, t) ==
  /\ <<c, "recalled", m, t>> \in replies
  /\ replies' = replies \ {<<c, "recalled", m, t>>}
  /\ view' = IF Kept(c, m) THEN Hide(c, m) ELSE view
  /\ UNCHANGED <<row, used, asks, step, job, ws, loads>> /\ UNCHANGED history

(* loadMessages: the list becomes what the server returned.                *)
Loaded(c, l) ==
  /\ <<c, l>> \in loads
  /\ loads' = loads \ {<<c, l>>}
  /\ view' = [view EXCEPT ![c] = l]
  /\ UNCHANGED <<row, used, asks, step, job, ws, replies>> /\ UNCHANGED history

-----------------------------------------------------------------------------
Ask(c, w) ==
  \E m \in Msgs :
    \/ \E t \in Texts : Send(c, w, m, t) \/ Edit(c, w, m, t) \/ (\E n \in Msgs : Retry(c, w, m, n, t))
    \/ AskRecall(c, w, m)

Serve(w) == Insert(w) \/ Announce(w) \/ Update(w) \/ Updated(w) \/ Recall(w) \/ Recalled(w)

Answered(c) ==
  \/ \E m \in Msgs, t \in Texts \cup {"recalled"} :
       Sent(c, m, t) \/ Failed(c, m, t) \/ Edited(c, m, t) \/ RecallDone(c, m, t)
  \/ \E l \in loads : Loaded(c, l[2])

Next ==
  \/ \E w \in Workers : Serve(w) \/ \E c \in Authors : Ask(c, w)
  \/ \E c \in Clients : Incoming(c) \/ Answered(c) \/ Load(c)

Spec == Init /\ [][Next]_vars

-----------------------------------------------------------------------------
Bodies == Texts \cup {"recalled"}
Request == Authors \X Msgs \X Bodies
Event == {"new", "updated", "recalled"} \X Msgs \X Bodies
Answer == Authors \X {"sent", "failed", "edited", "recalled"} \X Msgs \X Bodies
Entry == Texts \cup {"absent", "pending", "failed", "notice"}

TypeOK ==
  /\ row \in [Msgs -> Bodies \cup {"none"}]
  /\ used \subseteq Msgs /\ asks \in 0..MaxAsks
  /\ step \in [Workers -> Steps]
  /\ job \in [Workers -> {NoJob} \cup Request]
  /\ ws \in [Clients -> Seq(Event)]
  /\ replies \subseteq Answer
  /\ loads \subseteq Clients \X [Msgs -> Entry \ {"pending", "failed"}]
  /\ view \in [Clients -> [Msgs -> Entry]]
  /\ overlapped \in BOOLEAN /\ loaded \in BOOLEAN
  /\ astray \subseteq Clients \X Msgs

Quiet ==
  /\ \A w \in Workers : step[w] = "idle"
  /\ \A c \in Clients : ws[c] = <<>>
  /\ replies = {} /\ loads = {}

(* Once everything has arrived a client shows every message that is not    *)
(* recalled, and, "Groups: ordinary members never see recalled messages",  *)
(* in a group no other, if every event of that message has reached it and  *)
(* spoke the truth: whatever happens to the answers of its requests, in    *)
(* whatever order answers, the echo and events about other messages come,  *)
(* and whichever requests overlap; unless a list was asked for.            *)
EventsSuffice ==
  Quiet /\ ~loaded =>
    \A c \in Clients, m \in Msgs : <<c, m>> \notin astray =>
      /\ Live(m) => view[c][m] \in Texts
      /\ ~Dm /\ view[c][m] \in Texts => Live(m)

(* Once everything has arrived the clients that only read show a message   *)
(* as it is stored if all of its events have reached them, unless the      *)
(* server has handled two requests at a time or a list was asked for.      *)
ReadersAgree ==
  Quiet /\ ~overlapped /\ ~loaded =>
    \A c \in Clients \ Authors, m \in Msgs :
      Live(m) /\ <<c, m>> \notin astray => view[c][m] = row[m]

(* An entry the user is offered to send again is not one that was stored,  *)
(* once everything has arrived, if its event has reached the client: it    *)
(* repairs the entry whose answer was lost, before or after that loss is   *)
(* noticed, also if a list replaced the entry in between.                  *)
FailedIsRepaired ==
  Quiet => \A c \in Clients, m \in Msgs :
             view[c][m] = "failed" /\ <<c, m>> \notin astray => row[m] = "none"
=============================================================================
