---------------------------- MODULE MessageProofs ----------------------------
(***************************************************************************)
(* Proofs about the two modules that follow a message, for any number of   *)
(* them.  Outbox, in the client that sends it: what was cancelled in time  *)
(* is never sent, what an entry says is true, and a stored message is in   *)
(* the list.  MessageSync, from its row to the clients that show it: the   *)
(* events are enough, readers agree with the row, and an entry whose       *)
(* message was stored is repaired.                                         *)
(***************************************************************************)
EXTENDS Outbox, MessageSync, TLAPS

-----------------------------------------------------------------------------
(* Outbox                                                                  *)

(* Nothing of the message has left the client.                             *)
Unposted(e) == post[e] = "none" /\ e \notin stored /\ e \notin echo

(* A send that has not been posted has left nothing on the server; one that *)
(* was cancelled by then has no way to get there.                          *)
Posts(e) ==
  /\ kind[e] = "none" <=> at[e] = "idle"
  /\ at[e] \in {"idle", "prepare", "paint", "upload"} => Unposted(e)
  /\ post[e] = "ok" => e \in stored
  /\ e \in echo => e \in stored
  /\ Stopped(e) => e \in early \cup late
  /\ e \in late => at[e] \in {"post", "done"}
  /\ e \in early => /\ Unposted(e) /\ e \in aborted
                    /\ at[e] \in {"paint", "upload", "done"}

(* What the entry may be, by what has happened to the message.             *)
Shows(e) ==
  /\ shown[e] = "pending" => at[e] \in {"paint", "upload", "post"} /\ ~Stopped(e)
  /\ shown[e] = "sent" => e \in stored
  /\ shown[e] = "failed" => kind[e] # "none"
  /\ e \in early => shown[e] = "absent"
  /\ e \in stored /\ e \notin echo /\ e \notin missed =>
       shown[e] # "pending" /\ (shown[e] = "failed" => kind[e] = "remote")
  /\ e \in stored /\ e \notin echo /\ shown[e] = "absent" =>
       e \in late \cup missed \cup stale \cup retried

Lists == \A l \in load : l \subseteq stored

SendInv == Lists /\ \A e \in Sends : Posts(e) /\ Shows(e)

-----------------------------------------------------------------------------
(* Each step of a send, and each thing that happens meanwhile.             *)
LEMMA BeginStep ==
  ASSUME OutboxTypeOK, SendInv, NEW a \in {"web", "mobile"}, NEW k \in Kinds, Begin(a, k)
  PROVE  OutboxTypeOK' /\ SendInv'
<1>1. OutboxTypeOK'
  BY DEF OutboxTypeOK, Begin, Call, ShowAs, AfterShow, marks, Kinds, Uploading, Prepares
<1>2. Lists'
  BY DEF
     OutboxTypeOK, SendInv, Lists, Begin, Call, ShowAs, AfterShow, marks, Kinds,
     Uploading, Prepares
<1>3. ASSUME NEW d \in Sends PROVE Posts(d)'
  BY <1>1 DEF
     OutboxTypeOK, SendInv, Posts, Stopped, Unposted, Begin, Call, ShowAs,
     AfterShow, marks, Kinds, Uploading, Prepares
<1>4. ASSUME NEW d \in Sends PROVE Shows(d)'
  BY <1>1 DEF
     OutboxTypeOK, SendInv, Lists, Posts, Shows, Stopped, Unposted, Begin, Call,
     ShowAs, AfterShow, marks, Kinds, Uploading, Prepares
<1>5. QED
  BY <1>2, <1>3, <1>4, <1>1 DEF SendInv

LEMMA ShowStep ==
  ASSUME OutboxTypeOK, SendInv, NEW e \in Sends, Show(e)
  PROVE  OutboxTypeOK' /\ SendInv'
<1>1. OutboxTypeOK'
  BY DEF OutboxTypeOK, Show, ShowAs, AfterShow, marks, Uploading, Kinds
<1>2. Lists'
  BY DEF OutboxTypeOK, SendInv, Lists, Show, ShowAs, AfterShow, marks, Uploading, Kinds
<1>3. ASSUME NEW d \in Sends PROVE Posts(d)'
  BY <1>1 DEF
     OutboxTypeOK, SendInv, Posts, Stopped, Unposted, Show, ShowAs, AfterShow,
     marks, Uploading, Kinds
<1>4. ASSUME NEW d \in Sends PROVE Shows(d)'
  <2>1. CASE d = e
    BY <1>1, <2>1 DEF
       OutboxTypeOK, SendInv, Lists, Posts, Shows, Stopped, Unposted, Show, ShowAs,
       AfterShow, marks, Uploading, Kinds
  <2>2. CASE d # e
    BY <1>1, <2>2 DEF
       OutboxTypeOK, SendInv, Lists, Posts, Shows, Stopped, Unposted, Show, ShowAs,
       AfterShow, marks, Uploading, Kinds
  <2>3. QED
    BY <2>1, <2>2
<1>5. QED
  BY <1>2, <1>3, <1>4, <1>1 DEF SendInv

LEMMA PaintedStep ==
  ASSUME OutboxTypeOK, SendInv, NEW e \in Sends, Painted(e)
  PROVE  OutboxTypeOK' /\ SendInv'
<1>1. OutboxTypeOK'
  BY DEF OutboxTypeOK, Painted, Return, server, marks
<1>2. Lists'
  BY DEF OutboxTypeOK, SendInv, Lists, Painted, Return, server, marks
<1>3. ASSUME NEW d \in Sends PROVE Posts(d)'
  BY <1>1 DEF OutboxTypeOK, SendInv, Posts, Stopped, Unposted, Painted, Return, server, marks
<1>4. ASSUME NEW d \in Sends PROVE Shows(d)'
  <2>1. CASE d = e
    BY <1>1, <2>1 DEF
       OutboxTypeOK, SendInv, Lists, Posts, Shows, Stopped, Unposted, Painted,
       Return, server, marks
  <2>2. CASE d # e
    BY <1>1, <2>2 DEF
       OutboxTypeOK, SendInv, Lists, Posts, Shows, Stopped, Unposted, Painted,
       Return, server, marks
  <2>3. QED
    BY <2>1, <2>2
<1>5. QED
  BY <1>2, <1>3, <1>4, <1>1 DEF SendInv

LEMMA UploadedStep ==
  ASSUME OutboxTypeOK, SendInv, NEW e \in Sends, Uploaded(e)
  PROVE  OutboxTypeOK' /\ SendInv'
<1>1. OutboxTypeOK'
  BY DEF OutboxTypeOK, Uploaded, Return, marks
<1>2. Lists'
  BY DEF OutboxTypeOK, SendInv, Lists, Uploaded, Return, marks
<1>3. ASSUME NEW d \in Sends PROVE Posts(d)'
  BY <1>1 DEF OutboxTypeOK, SendInv, Posts, Stopped, Unposted, Uploaded, Return, marks
<1>4. ASSUME NEW d \in Sends PROVE Shows(d)'
  <2>1. CASE d = e
    BY <1>1, <2>1 DEF
       OutboxTypeOK, SendInv, Lists, Posts, Shows, Stopped, Unposted, Uploaded,
       Return, marks
  <2>2. CASE d # e
    BY <1>1, <2>2 DEF
       OutboxTypeOK, SendInv, Lists, Posts, Shows, Stopped, Unposted, Uploaded,
       Return, marks
  <2>3. QED
    BY <2>1, <2>2
<1>5. QED
  BY <1>2, <1>3, <1>4, <1>1 DEF SendInv

LEMMA ConfirmedStep ==
  ASSUME OutboxTypeOK, SendInv, NEW e \in Sends, Confirmed(e)
  PROVE  OutboxTypeOK' /\ SendInv'
<1>1. OutboxTypeOK'
  BY DEF OutboxTypeOK, Confirmed, Return, server, marks
<1>2. Lists'
  BY DEF OutboxTypeOK, SendInv, Lists, Confirmed, Return, server, marks
<1>3. ASSUME NEW d \in Sends PROVE Posts(d)'
  BY <1>1 DEF OutboxTypeOK, SendInv, Posts, Stopped, Unposted, Confirmed, Return, server, marks
<1>4. ASSUME NEW d \in Sends PROVE Shows(d)'
  <2>1. CASE d = e
    BY <1>1, <2>1 DEF
       OutboxTypeOK, SendInv, Lists, Posts, Shows, Stopped, Unposted, Confirmed,
       Return, server, marks
  <2>2. CASE d # e
    BY <1>1, <2>2 DEF
       OutboxTypeOK, SendInv, Lists, Posts, Shows, Stopped, Unposted, Confirmed,
       Return, server, marks
  <2>3. QED
    BY <2>1, <2>2
<1>5. QED
  BY <1>2, <1>3, <1>4, <1>1 DEF SendInv

LEMMA RejectedStep ==
  ASSUME OutboxTypeOK, SendInv, NEW e \in Sends, Rejected(e)
  PROVE  OutboxTypeOK' /\ SendInv'
<1>1. OutboxTypeOK'
  BY DEF OutboxTypeOK, Rejected, Mark, Return, server, marks
<1>2. Lists'
  BY DEF OutboxTypeOK, SendInv, Lists, Rejected, Mark, Return, server, marks
<1>3. ASSUME NEW d \in Sends PROVE Posts(d)'
  BY <1>1 DEF OutboxTypeOK, SendInv, Posts, Stopped, Unposted, Rejected, Mark, Return, server, marks
<1>4. ASSUME NEW d \in Sends PROVE Shows(d)'
  BY <1>1 DEF
     OutboxTypeOK, SendInv, Lists, Posts, Shows, Stopped, Unposted, Rejected, Mark,
     Return, server, marks
<1>5. QED
  BY <1>2, <1>3, <1>4, <1>1 DEF SendInv

LEMMA ResendStep ==
  ASSUME OutboxTypeOK, SendInv, NEW r \in Sends, NEW k \in Kinds, Resend(r, k)
  PROVE  OutboxTypeOK' /\ SendInv'
<1>1. OutboxTypeOK'
  BY DEF OutboxTypeOK, Resend, Call, ShowAs, AfterShow, Uploading, Kinds, Prepares
<1>2. Lists'
  BY DEF OutboxTypeOK, SendInv, Lists, Resend, Call, ShowAs, AfterShow, Uploading, Kinds, Prepares
<1>3. ASSUME NEW d \in Sends PROVE Posts(d)'
  BY <1>1 DEF
     OutboxTypeOK, SendInv, Posts, Stopped, Unposted, Resend, Call, ShowAs,
     AfterShow, Uploading, Kinds, Prepares
<1>4. ASSUME NEW d \in Sends PROVE Shows(d)'
  BY <1>1 DEF
     OutboxTypeOK, SendInv, Lists, Posts, Shows, Stopped, Unposted, Resend, Call,
     ShowAs, AfterShow, Uploading, Kinds, Prepares
<1>5. QED
  BY <1>2, <1>3, <1>4, <1>1 DEF SendInv

LEMMA CancelStep ==
  ASSUME OutboxTypeOK, SendInv, NEW e \in Sends, Cancel(e)
  PROVE  OutboxTypeOK' /\ SendInv'
<1>1. OutboxTypeOK'
  BY DEF OutboxTypeOK, Cancel, server, Uploading
<1>2. Lists'
  BY DEF OutboxTypeOK, SendInv, Lists, Cancel, server, Uploading
<1>3. ASSUME NEW d \in Sends PROVE Posts(d)'
  <2>1. CASE d = e
    BY <1>1, <2>1 DEF
       OutboxTypeOK, SendInv, Posts, Shows, Stopped, Unposted, Cancel, server,
       Uploading
  <2>2. CASE d # e
    BY <1>1, <2>2 DEF
       OutboxTypeOK, SendInv, Posts, Shows, Stopped, Unposted, Cancel, server,
       Uploading
  <2>3. QED
    BY <2>1, <2>2
<1>4. ASSUME NEW d \in Sends PROVE Shows(d)'
  BY <1>1 DEF
     OutboxTypeOK, SendInv, Lists, Posts, Shows, Stopped, Unposted, Cancel, server,
     Uploading
<1>5. QED
  BY <1>2, <1>3, <1>4, <1>1 DEF SendInv

LEMMA AcceptStep ==
  ASSUME OutboxTypeOK, SendInv, NEW e \in Sends, Accept(e)
  PROVE  OutboxTypeOK' /\ SendInv'
<1>1. OutboxTypeOK'
  BY DEF OutboxTypeOK, Accept, client, marks
<1>2. Lists'
  BY DEF OutboxTypeOK, SendInv, Lists, Accept, client, marks
<1>3. ASSUME NEW d \in Sends PROVE Posts(d)'
  BY <1>1 DEF OutboxTypeOK, SendInv, Posts, Stopped, Unposted, Accept, client, marks
<1>4. ASSUME NEW d \in Sends PROVE Shows(d)'
  BY <1>1 DEF OutboxTypeOK, SendInv, Lists, Posts, Shows, Stopped, Unposted, Accept, client, marks
<1>5. QED
  BY <1>2, <1>3, <1>4, <1>1 DEF SendInv

LEMMA LoseStep ==
  ASSUME OutboxTypeOK, SendInv, NEW e \in Sends, Lose(e)
  PROVE  OutboxTypeOK' /\ SendInv'
<1>1. OutboxTypeOK'
  BY DEF OutboxTypeOK, Lose, client, marks
<1>2. Lists'
  BY DEF OutboxTypeOK, SendInv, Lists, Lose, client, marks
<1>3. ASSUME NEW d \in Sends PROVE Posts(d)'
  BY <1>1 DEF OutboxTypeOK, SendInv, Posts, Stopped, Unposted, Lose, client, marks
<1>4. ASSUME NEW d \in Sends PROVE Shows(d)'
  BY <1>1 DEF OutboxTypeOK, SendInv, Lists, Posts, Shows, Stopped, Unposted, Lose, client, marks
<1>5. QED
  BY <1>2, <1>3, <1>4, <1>1 DEF SendInv

LEMMA EchoStep ==
  ASSUME OutboxTypeOK, SendInv, NEW e \in Sends, webEcho(e) \/ mobileEcho(e)
  PROVE  OutboxTypeOK' /\ SendInv'
<1>1. OutboxTypeOK'
  BY DEF OutboxTypeOK, webEcho, mobileEcho, marks
<1>2. Lists'
  BY DEF OutboxTypeOK, SendInv, Lists, webEcho, mobileEcho, marks
<1>3. ASSUME NEW d \in Sends PROVE Posts(d)'
  BY <1>1 DEF OutboxTypeOK, SendInv, Posts, Stopped, Unposted, webEcho, mobileEcho, marks
<1>4. ASSUME NEW d \in Sends PROVE Shows(d)'
  <2>1. CASE d = e
    BY <1>1, <2>1 DEF
       OutboxTypeOK, SendInv, Lists, Posts, Shows, Stopped, Unposted, webEcho,
       mobileEcho, marks
  <2>2. CASE d # e
    BY <1>1, <2>2 DEF
       OutboxTypeOK, SendInv, Lists, Posts, Shows, Stopped, Unposted, webEcho,
       mobileEcho, marks
  <2>3. QED
    BY <2>1, <2>2
<1>5. QED
  BY <1>2, <1>3, <1>4, <1>1 DEF SendInv

LEMMA MissStep ==
  ASSUME OutboxTypeOK, SendInv, NEW e \in Sends, Miss(e)
  PROVE  OutboxTypeOK' /\ SendInv'
<1>1. OutboxTypeOK'
  BY DEF OutboxTypeOK, Miss, client
<1>2. Lists'
  BY DEF OutboxTypeOK, SendInv, Lists, Miss, client
<1>3. ASSUME NEW d \in Sends PROVE Posts(d)'
  BY <1>1 DEF OutboxTypeOK, SendInv, Posts, Stopped, Unposted, Miss, client
<1>4. ASSUME NEW d \in Sends PROVE Shows(d)'
  BY <1>1 DEF OutboxTypeOK, SendInv, Lists, Posts, Shows, Stopped, Unposted, Miss, client
<1>5. QED
  BY <1>2, <1>3, <1>4, <1>1 DEF SendInv

LEMMA HistoryStep ==
  ASSUME OutboxTypeOK, SendInv, History
  PROVE  OutboxTypeOK' /\ SendInv'
<1>1. OutboxTypeOK'
  BY DEF OutboxTypeOK, History, client, server, marks
<1>2. Lists'
  BY DEF OutboxTypeOK, SendInv, Lists, History, client, server, marks
<1>3. ASSUME NEW d \in Sends PROVE Posts(d)'
  BY <1>1 DEF OutboxTypeOK, SendInv, Posts, Stopped, Unposted, History, client, server, marks
<1>4. ASSUME NEW d \in Sends PROVE Shows(d)'
  BY <1>1 DEF
     OutboxTypeOK, SendInv, Lists, Posts, Shows, Stopped, Unposted, History,
     client, server, marks
<1>5. QED
  BY <1>2, <1>3, <1>4, <1>1 DEF SendInv

LEMMA ReplaceStep ==
  ASSUME OutboxTypeOK, SendInv, NEW l \in load, Replace(l)
  PROVE  OutboxTypeOK' /\ SendInv'
<1>1. OutboxTypeOK'
  BY DEF OutboxTypeOK, Replace, server
<1>2. Lists'
  BY DEF OutboxTypeOK, SendInv, Lists, Replace, server
<1>3. ASSUME NEW d \in Sends PROVE Posts(d)'
  BY <1>1 DEF OutboxTypeOK, SendInv, Posts, Stopped, Unposted, Replace, server
<1>4. ASSUME NEW d \in Sends PROVE Shows(d)'
  BY <1>1 DEF OutboxTypeOK, SendInv, Lists, Posts, Shows, Stopped, Unposted, Replace, server
<1>5. QED
  BY <1>2, <1>3, <1>4, <1>1 DEF SendInv

-----------------------------------------------------------------------------
(* Posting and the functions, whose steps these are.                       *)
LEMMA PostingStep ==
  ASSUME OutboxTypeOK, SendInv, NEW e \in Sends, Posting(e)
  PROVE  OutboxTypeOK' /\ SendInv'
  BY ConfirmedStep, RejectedStep DEF Posting

LEMMA SendStep ==
  ASSUME OutboxTypeOK, SendInv,
         \/ webSendMessage \/ webSendRemoteImage \/ webSendMediaMessage \/ webSendVoiceMessage
         \/ mobileSendMessage \/ mobileSendRemoteImage
         \/ mobileSendMediaMessage \/ mobileSendVoiceMessage
  PROVE  OutboxTypeOK' /\ SendInv'
<1>1. CASE \E a \in {"web", "mobile"}, k \in Kinds : Begin(a, k)
  BY <1>1, BeginStep
<1>2. CASE \E e \in Sends : Show(e) \/ Painted(e) \/ Uploaded(e) \/ Posting(e)
  BY <1>2, ShowStep, PaintedStep, UploadedStep, PostingStep
<1>3. CASE webSendMessage \/ webSendRemoteImage
  BY <1>1, <1>2, <1>3 DEF webSendMessage, webSendRemoteImage, Kinds
<1>4. CASE webSendMediaMessage \/ webSendVoiceMessage
  BY <1>1, <1>2, <1>4 DEF webSendMediaMessage, webSendVoiceMessage, Kinds
<1>5. CASE mobileSendMessage \/ mobileSendRemoteImage
  BY <1>1, <1>2, <1>5 DEF mobileSendMessage, mobileSendRemoteImage, Kinds
<1>6. CASE mobileSendMediaMessage \/ mobileSendVoiceMessage
  BY <1>1, <1>2, <1>6 DEF mobileSendMediaMessage, mobileSendVoiceMessage, Kinds
<1>7. QED
  BY <1>3, <1>4, <1>5, <1>6

LEMMA RetryStep ==
  ASSUME OutboxTypeOK, SendInv, NEW d \in Sends, webRetryMessage(d) \/ mobileRetryMessage(d)
  PROVE  OutboxTypeOK' /\ SendInv'
<1>1. shown[d] = "failed"
  BY DEF webRetryMessage, mobileRetryMessage, Resend
<1>2. kind[d] \in Kinds
  BY <1>1 DEF SendInv, Shows, OutboxTypeOK
<1>3. QED
  BY <1>2, ResendStep DEF webRetryMessage, mobileRetryMessage, Kinds

LEMMA SendInit == OutboxInit => OutboxTypeOK /\ SendInv
  BY DEF OutboxInit, OutboxTypeOK, SendInv, Lists, Posts, Shows, Stopped, Unposted

LEMMA SendNext == OutboxTypeOK /\ SendInv /\ [OutboxNext]_outboxVars => OutboxTypeOK' /\ SendInv'
<1> SUFFICES ASSUME OutboxTypeOK, SendInv, [OutboxNext]_outboxVars PROVE OutboxTypeOK' /\ SendInv'
  OBVIOUS
<1>1. CASE \/ webSendMessage \/ webSendRemoteImage \/ webSendMediaMessage \/ webSendVoiceMessage
          \/ mobileSendMessage \/ mobileSendRemoteImage
          \/ mobileSendMediaMessage \/ mobileSendVoiceMessage
  BY <1>1, SendStep
<1>2. CASE \E e \in Sends : webRetryMessage(e) \/ mobileRetryMessage(e)
  BY <1>2, RetryStep
<1>3. CASE \E e \in Sends : webCancelUpload(e) \/ mobileCancelUpload(e)
  BY <1>3, CancelStep DEF webCancelUpload, mobileCancelUpload
<1>4. CASE \E e \in Sends : Accept(e) \/ Lose(e) \/ webEcho(e) \/ mobileEcho(e) \/ Miss(e)
  BY <1>4, AcceptStep, LoseStep, EchoStep, MissStep
<1>5. CASE History
  BY <1>5, HistoryStep
<1>6. CASE \E l \in load : webLoadMessages(l) \/ mobileLoadMessages(l)
  BY <1>6, ReplaceStep DEF webLoadMessages, mobileLoadMessages
<1>7. CASE UNCHANGED outboxVars
  BY <1>7 DEF
     outboxVars, client, server, marks, OutboxTypeOK, SendInv, Lists, Posts, Shows,
     Stopped, Unposted
<1>8. QED
  BY <1>1, <1>2, <1>3, <1>4, <1>5, <1>6, <1>7 DEF OutboxNext

THEOREM SendInvariance == OutboxSpec => [](OutboxTypeOK /\ SendInv)
  BY SendInit, SendNext, PTL DEF OutboxSpec

-----------------------------------------------------------------------------
(* The variables of Outbox always have their types.                        *)
THEOREM OutboxType == OutboxSpec => []OutboxTypeOK
  BY SendInvariance, PTL

(* A cancel of useChat.ts or ChatContext.tsx that comes before the POST     *)
(* wins: the message is never stored and its entry never comes back.       *)
THEOREM CancelWins == OutboxSpec => []CancelledIsGone
<1>1. OutboxTypeOK /\ SendInv => CancelledIsGone
  BY DEF SendInv, Posts, Shows, Unposted, CancelledIsGone, OutboxTypeOK
<1>2. QED
  BY <1>1, SendInvariance, PTL

(* When everything about a message has arrived, its entry tells the truth.  *)
THEOREM EntriesAreTrue == OutboxSpec => []SettledTruth
<1>1. SendInv => SettledTruth
  BY DEF SendInv, Posts, Shows, Unposted, SettledTruth, Over
<1>2. QED
  BY <1>1, SendInvariance, PTL

(* When everything about a stored message has arrived, it is in the list,   *)
(* or one of the named things happened to it.                              *)
THEOREM StoredMessagesShow == OutboxSpec => []StoredIsShown
<1>1. OutboxTypeOK /\ SendInv => StoredIsShown
  BY DEF SendInv, Posts, Shows, Unposted, StoredIsShown, Over, OutboxTypeOK
<1>2. QED
  BY <1>1, SendInvariance, PTL

-----------------------------------------------------------------------------
(* MessageSync                                                             *)

(* A message is stored and announced by one request; every other request   *)
(* is about one that is stored.                                            *)
Fresh(w) == step[w] \in {"insert", "announce"}
Jobs ==
  /\ \A w \in Workers : step[w] # "idle" =>
       /\ job[w] \in Authors \X Msgs \X (Texts \cup {"recalled"})
       /\ job[w][2] \in used
       /\ step[w] \in {"insert", "announce", "update", "updated"} => job[w][3] \in Texts
       /\ step[w] = "insert" <=> row[job[w][2]] = "none"
       /\ step[w] = "recalled" =>
            row[job[w][2]] = "recalled" \/ \A c \in Clients : <<c, job[w][2]>> \in astray
  /\ \A v, w \in Workers : Fresh(v) /\ Fresh(w) /\ job[v][2] = job[w][2] => v = w
  /\ \A m \in Msgs : m \notin used => row[m] = "none"

(* What is on its way, and what is shown, was stored; a recall is final,   *)
(* and true unless the client has been led astray.                         *)
Facts ==
  /\ \A c \in Clients : \A i \in 1 .. Len(ws[c]) :
       /\ row[ws[c][i][2]] # "none"
       /\ IF ws[c][i][1] = "recalled"
            THEN row[ws[c][i][2]] = "recalled" \/ <<c, ws[c][i][2]>> \in astray
            ELSE ws[c][i][3] \in Texts
  /\ \A r \in replies :
       /\ r[1] \in Authors
       /\ r[2] # "failed" => row[r[3]] # "none"
       /\ r[2] = "recalled" => row[r[3]] = "recalled" \/ <<r[1], r[3]>> \in astray
       /\ r[2] \in {"sent", "edited"} => r[4] \in Texts
  /\ \A l \in loads : loaded /\ \A m \in Msgs : l[2][m] \in Texts => row[m] # "none"
  /\ \A c \in Clients, m \in Msgs : view[c][m] \in Texts => row[m] # "none"

NewAt(q, i, m) == q[i][1] = "new" /\ q[i][2] = m
NewComing(c, m) ==
  \/ \E w \in Workers : step[w] = "announce" /\ job[w][2] = m
  \/ \E i \in 1 .. Len(ws[c]) : NewAt(ws[c], i, m)

(* An entry without the server's id whose message is stored will get it.   *)
Repaired ==
  \A c \in Clients, m \in Msgs :
    view[c][m] \in {"pending", "failed"} /\ row[m] # "none" /\ <<c, m>> \notin astray => NewComing(c, m)

(* Until a list is asked for, nobody knows a message before its event is   *)
(* published, and that is the first about it.                              *)
Unknown(m) ==
  /\ row[m] # "recalled"
  /\ \A c \in Clients : view[c][m] \notin Texts /\ \A i \in 1 .. Len(ws[c]) : ws[c][i][2] # m
  /\ \A r \in replies : r[3] = m => r[2] = "failed"
  /\ \A v \in Workers : step[v] # "idle" /\ job[v][2] = m => Fresh(v)
NewFirst(q) ==
  \A i, j \in 1 .. Len(q) : j < i /\ q[i][1] = "new" => q[j][2] # q[i][2]
Order ==
  /\ \A w \in Workers : Fresh(w) => Unknown(job[w][2])
  /\ \A c \in Clients : NewFirst(ws[c])

Arrives ==
  \A c \in Clients, m \in Msgs :
    Live(m) /\ <<c, m>> \notin astray /\ view[c][m] \notin Texts => NewComing(c, m)

(* In a group a recall follows whatever may show the message.              *)
RecallAfter(c, m, i) ==
  \/ \E w \in Workers : step[w] = "recalled" /\ job[w][2] = m
  \/ \E j \in 1 .. Len(ws[c]) : j > i /\ ws[c][j][1] = "recalled" /\ ws[c][j][2] = m
Leaves ==
  \A c \in Clients, m \in Msgs :
    /\ view[c][m] # "notice"
    /\ row[m] = "recalled" /\ <<c, m>> \notin astray =>
         /\ view[c][m] \in Texts => RecallAfter(c, m, 0)
         /\ \A i \in 1 .. Len(ws[c]) : NewAt(ws[c], i, m) => RecallAfter(c, m, i)

(* The last event about a message has the text that is stored.             *)
Telling(m) == \E w \in Workers : step[w] \in {"announce", "updated"} /\ job[w][2] = m
Carries(q, m, s, v) ==
  \E i \in 0 .. Len(q) :
    /\ i = 0 => s = v
    /\ i # 0 => q[i][2] = m /\ q[i][3] = v
    /\ \A j \in 1 .. Len(q) : j > i => q[j][2] # m
Agrees ==
  /\ \A v, w \in Workers : step[v] # "idle" /\ step[w] # "idle" => v = w
  /\ \A w \in Workers :
       step[w] \in {"announce", "updated"} /\ Live(job[w][2]) => job[w][3] = row[job[w][2]]
  /\ \A c \in Clients \ Authors, m \in Msgs :
       Live(m) /\ <<c, m>> \notin astray => Telling(m) \/ Carries(ws[c], m, view[c][m], row[m])

SyncInv ==
  /\ Jobs /\ Facts /\ Repaired
  /\ ~loaded => Order /\ Arrives
  /\ ~loaded /\ ~Dm => Leaves
  /\ ~loaded /\ ~overlapped => Agrees

-----------------------------------------------------------------------------
(* What the parts of a step do                                             *)

LEMMA Bodied ==
  /\ "none" \notin Bodies /\ "recalled" \notin Texts /\ "recalled" \in Bodies
  /\ Texts \subseteq Bodies /\ Texts \subseteq Entry
  /\ \A x \in {"none", "absent", "pending", "failed", "notice"} : x \notin Texts
  /\ \A x \in Bodies : x \in Texts \/ x = "recalled"
BY SyncAssumption DEF Bodies, Entry

LEMMA Started ==
  ASSUME TypeOK, NEW w \in Workers, NEW l \in Steps, NEW j \in Request, Start(w, l, j)
  PROVE  /\ step' \in [Workers -> Steps] /\ job' \in [Workers -> {NoJob} \cup Request]
         /\ step'[w] = l /\ job'[w] = j /\ step[w] = "idle"
         /\ \A v \in Workers \ {w} : step'[v] = step[v] /\ job'[v] = job[v]
         /\ loaded' = loaded /\ astray' = astray /\ overlapped' \in BOOLEAN
         /\ ~overlapped' => ~overlapped /\ \A v \in Workers : step[v] = "idle"
BY DEF TypeOK, Start

LEMMA Finished ==
  ASSUME TypeOK, NEW w \in Workers, Finish(w)
  PROVE  /\ step' \in [Workers -> Steps] /\ job' \in [Workers -> {NoJob} \cup Request]
         /\ step'[w] = "idle"
         /\ \A v \in Workers \ {w} : step'[v] = step[v] /\ job'[v] = job[v]
BY DEF TypeOK, Finish, Steps

LEMMA Published ==
  ASSUME TypeOK, NEW k \in {"new", "updated", "recalled"}, NEW m \in Msgs, NEW t \in Bodies,
         Publish(k, m, t)
  PROVE  /\ ws' \in [Clients -> Seq(Event)] /\ astray' \subseteq Clients \X Msgs
         /\ astray \subseteq astray' /\ loaded' = loaded /\ overlapped' = overlapped
         /\ \A c \in Clients, n \in Msgs : <<c, n>> \in astray' => <<c, n>> \in astray \/ n = m
         /\ \A c \in Clients :
              /\ Len(ws[c]) \in Nat /\ Len(ws'[c]) \in {Len(ws[c]), Len(ws[c]) + 1}
              /\ \A i \in 1 .. Len(ws[c]) : ws'[c][i] = ws[c][i]
              /\ LET e == ws'[c][Len(ws[c]) + 1] IN
                 Len(ws'[c]) = Len(ws[c]) + 1 => e[1] = k /\ e[2] = m /\ e[3] = t
              /\ Len(ws'[c]) = Len(ws[c]) => <<c, m>> \in astray'
<1> DEFINE e == <<k, m, t>>
<1>1. e \in Event /\ e[1] = k /\ e[2] = m /\ e[3] = t
  BY DEF Event
<1>2. PICK D \in SUBSET Clients :
        /\ ws' = [c \in Clients |-> IF c \in D THEN Append(ws[c], e) ELSE ws[c]]
        /\ astray' = astray \cup ((Clients \ D) \X {m})
        /\ loaded' = loaded /\ overlapped' = overlapped
  BY DEF Publish, Astray
<1> HIDE DEF e
<1>3. \A q \in Seq(Event) :
        /\ Append(q, e) \in Seq(Event) /\ Len(q) \in Nat /\ Len(Append(q, e)) = Len(q) + 1
        /\ \A i \in 1 .. Len(q) : Append(q, e)[i] = q[i]
        /\ Append(q, e)[Len(q) + 1] = e
  BY <1>1
<1>4. \A c \in Clients : ws[c] \in Seq(Event)
  BY DEF TypeOK
<1>5. \A c \in Clients : IF c \in D THEN ws'[c] = Append(ws[c], e)
                         ELSE ws'[c] = ws[c] /\ <<c, m>> \in astray'
  BY <1>2
<1>6. astray' \subseteq Clients \X Msgs
  BY <1>2 DEF TypeOK
<1>7. ws' \in [Clients -> Seq(Event)]
  BY <1>2, <1>3, <1>4
<1>8. ASSUME NEW c \in Clients
      PROVE  /\ Len(ws[c]) \in Nat /\ Len(ws'[c]) \in {Len(ws[c]), Len(ws[c]) + 1}
             /\ \A i \in 1 .. Len(ws[c]) : ws'[c][i] = ws[c][i]
             /\ Len(ws'[c]) = Len(ws[c]) + 1 => ws'[c][Len(ws[c]) + 1] = e
             /\ Len(ws'[c]) = Len(ws[c]) => <<c, m>> \in astray'
  <2>1. CASE c \in D
    <3>1. ws'[c] = Append(ws[c], e) /\ ws[c] \in Seq(Event)
      BY <1>4, <1>5, <2>1
    <3>2. Len(ws[c]) \in Nat /\ Len(ws'[c]) = Len(ws[c]) + 1
      BY <1>3, <3>1
    <3>3. QED
      BY <1>3, <3>1, <3>2
  <2>2. CASE c \notin D
    <3>1. Len(ws[c]) \in Nat
      BY <1>3, <1>4
    <3>2. QED
      BY <1>5, <2>2, <3>1
  <2>3. QED
    BY <2>1, <2>2
<1>9. QED
  BY <1>1, <1>2, <1>6, <1>7, <1>8

LEMMA Taken ==
  ASSUME TypeOK, NEW c \in Clients, ws[c] # <<>>, ws' = [ws EXCEPT ![c] = Tail(@)]
  PROVE  /\ ws' \in [Clients -> Seq(Event)]
         /\ \A d \in Clients \ {c} : ws'[d] = ws[d]
         /\ Head(ws[c]) = ws[c][1] /\ ws[c][1] \in Event
         /\ Len(ws[c]) \in Nat \ {0} /\ Len(ws'[c]) = Len(ws[c]) - 1
         /\ \A i \in 1 .. Len(ws'[c]) : ws'[c][i] = ws[c][i + 1]
<1>1. ws \in [Clients -> Seq(Event)] /\ ws[c] \in Seq(Event)
  BY DEF TypeOK
<1>2. ws'[c] = Tail(ws[c]) /\ \A d \in Clients \ {c} : ws'[d] = ws[d]
  BY <1>1
<1>3. Tail(ws[c]) \in Seq(Event) /\ Len(ws[c]) \in Nat \ {0} /\ Len(Tail(ws[c])) = Len(ws[c]) - 1
  BY <1>1
<1>4. /\ \A i \in 1 .. Len(ws[c]) - 1 : Tail(ws[c])[i] = ws[c][i + 1]
      /\ Head(ws[c]) = ws[c][1] /\ ws[c][1] \in Event
  BY <1>1, <1>3
<1>5. QED
  BY <1>1, <1>2, <1>3, <1>4

LEMMA Shown ==
  ASSUME TypeOK, NEW c \in Clients, NEW m \in Msgs, NEW v \in Entry,
         view' = [view EXCEPT ![c][m] = v]
  PROVE  /\ view' \in [Clients -> [Msgs -> Entry]]
         /\ \A d \in Clients, n \in Msgs :
              view'[d][n] = IF d = c /\ n = m THEN v ELSE view[d][n]
BY DEF TypeOK

(* The request a worker handles.                                           *)
LEMMA Handled ==
  ASSUME TypeOK, Jobs, NEW w \in Workers, step[w] # "idle"
  PROVE  /\ job[w][1] \in Authors /\ job[w][1] \in Clients
         /\ job[w][2] \in Msgs /\ job[w][3] \in Bodies
BY SyncAssumption DEF Jobs, Bodies

-----------------------------------------------------------------------------
(* A request arrives                                                       *)

(* sendMessage and retryMessage: a message that nobody has heard of.       *)
LEMMA NewAsked ==
  ASSUME TypeOK, SyncInv, NEW c \in Authors, NEW w \in Workers, NEW n \in Msgs, NEW t \in Texts,
         n \notin used, used' = used \cup {n}, Start(w, "insert", <<c, n, t>>),
         UNCHANGED <<row, asks, ws, replies, loads>>,
         view' \in [Clients -> [Msgs -> Entry]], view'[c][n] = "pending",
         \A d \in Clients, m \in Msgs :
           d # c \/ m # n => \/ view'[d][m] = view[d][m]
                             \/ d = c /\ view[d][m] = "failed" /\ view'[d][m] = "absent"
  PROVE  TypeOK' /\ SyncInv'
<1> DEFINE j == <<c, n, t>>
<1>1. j \in Request /\ j[1] = c /\ j[2] = n /\ j[3] = t /\ c \in Clients /\ "insert" \in Steps
  BY SyncAssumption DEF Request, Bodies, Steps
<1>2. Start(w, "insert", j)
  OBVIOUS
<1> HIDE DEF j
<1>3. /\ step' \in [Workers -> Steps] /\ job' \in [Workers -> {NoJob} \cup Request]
      /\ step'[w] = "insert" /\ job'[w] = j /\ step[w] = "idle"
      /\ \A v \in Workers \ {w} : step'[v] = step[v] /\ job'[v] = job[v]
      /\ loaded' = loaded /\ astray' = astray /\ overlapped' \in BOOLEAN
      /\ ~overlapped' => ~overlapped /\ \A v \in Workers : step[v] = "idle"
  BY <1>1, <1>2, Started
<1>4. TypeOK'
  BY <1>3 DEF TypeOK
<1>5. row[n] = "none" /\ \A v \in Workers : step[v] # "idle" => job[v][2] # n
  BY DEF SyncInv, Jobs
<1>6. Jobs'
  <2>1. ASSUME NEW v \in Workers, step'[v] # "idle"
        PROVE  /\ job'[v] \in Authors \X Msgs \X (Texts \cup {"recalled"})
               /\ job'[v][2] \in used'
               /\ step'[v] \in {"insert", "announce", "update", "updated"} => job'[v][3] \in Texts
               /\ step'[v] = "insert" <=> row'[job'[v][2]] = "none"
               /\ step'[v] = "recalled" =>
                    row'[job'[v][2]] = "recalled" \/ \A d \in Clients : <<d, job'[v][2]>> \in astray'
    <3>1. CASE v = w
      BY <1>1, <1>3, <1>5, <3>1 DEF Request, Bodies
    <3>2. CASE v # w
      BY <1>3, <2>1, <3>2 DEF SyncInv, Jobs
    <3>3. QED
      BY <3>1, <3>2
  <2>2. ASSUME NEW v \in Workers, NEW u \in Workers, Fresh(v)', Fresh(u)', job'[v][2] = job'[u][2]
        PROVE  v = u
    BY <1>1, <1>3, <1>5, <2>2 DEF SyncInv, Jobs, Fresh
  <2>3. \A m \in Msgs : m \notin used' => row'[m] = "none"
    BY DEF SyncInv, Jobs
  <2>4. QED
    BY <2>1, <2>2, <2>3 DEF Jobs
<1>7. \A d \in Clients, m \in Msgs :
        /\ view'[d][m] \in Texts <=> view[d][m] \in Texts /\ (d # c \/ m # n)
        /\ view'[d][m] = "notice" => view[d][m] = "notice"
        /\ view'[d][m] \in {"pending", "failed"} =>
             view[d][m] \in {"pending", "failed"} \/ row[m] = "none"
        /\ d \notin Authors => view'[d][m] = view[d][m]
  BY <1>1, <1>5, Bodied
<1>8. Facts'
  BY <1>3, <1>7 DEF SyncInv, Facts
<1>9. \A d \in Clients, m \in Msgs : NewComing(d, m) => NewComing(d, m)'
  BY <1>3 DEF NewComing, NewAt
<1>10. Repaired'
  BY <1>3, <1>7, <1>9 DEF SyncInv, Repaired
<1>11. view[c][n] \notin Texts
  BY <1>1, <1>5 DEF SyncInv, Facts
<1>12. ASSUME ~loaded' PROVE Order' /\ Arrives'
  <2>1. Order /\ Arrives
    BY <1>3, <1>12 DEF SyncInv
  <2>2. ASSUME NEW v \in Workers, Fresh(v)' PROVE Unknown(job[v][2])'
    <3>1. CASE v = w
      <4>1. /\ row'[n] # "recalled"
            /\ \A d \in Clients : view'[d][n] \notin Texts
            /\ \A d \in Clients : \A i \in 1 .. Len(ws'[d]) : ws'[d][i][2] # n
            /\ \A r \in replies' : r[3] = n => r[2] = "failed"
        <5>1. \A d \in Clients : \A i \in 1 .. Len(ws[d]) : ws[d][i][2] # n
          <6>1. \A d \in Clients : \A i \in 1 .. Len(ws[d]) : row[ws[d][i][2]] # "none"
            BY DEF SyncInv, Facts
          <6>2. QED
            BY <1>5, <6>1
        <5>2. \A r \in replies : r[3] = n => r[2] = "failed"
          BY <1>5 DEF SyncInv, Facts
        <5>3. \A d \in Clients : view[d][n] \notin Texts
          BY <1>5 DEF SyncInv, Facts
        <5>4. QED
          BY <1>5, <1>7, <5>1, <5>2, <5>3, Bodied
      <4>2. \A u \in Workers : step'[u] # "idle" /\ job'[u][2] = n => Fresh(u)'
        BY <1>3, <1>5 DEF Fresh
      <4>3. QED
        BY <1>1, <1>3, <3>1, <4>1, <4>2 DEF Unknown
    <3>2. CASE v # w
      <4>1. Fresh(v) /\ Unknown(job[v][2]) /\ job'[v] = job[v] /\ job[v][2] # n
        BY <1>3, <1>5, <2>1, <2>2, <3>2 DEF Order, Fresh
      <4>2. job[v][2] \in Msgs
        BY <4>1, Handled DEF SyncInv, Fresh
      <4>3. /\ row'[job[v][2]] # "recalled"
            /\ \A d \in Clients : /\ view'[d][job[v][2]] \notin Texts
                                  /\ \A i \in 1 .. Len(ws'[d]) : ws'[d][i][2] # job[v][2]
            /\ \A r \in replies' : r[3] = job[v][2] => r[2] = "failed"
        BY <1>7, <4>1, <4>2 DEF Unknown
      <4>4. \A u \in Workers : step'[u] # "idle" /\ job'[u][2] = job[v][2] => Fresh(u)'
        BY <1>1, <1>3, <4>1 DEF Unknown, Fresh
      <4>5. QED
        BY <4>1, <4>3, <4>4 DEF Unknown
    <3>3. QED
      BY <3>1, <3>2
  <2>3. \A d \in Clients : NewFirst(ws[d])'
    BY <2>1 DEF Order, NewFirst
  <2>4. Arrives'
    BY <1>3, <1>5, <1>7, <1>9, <2>1, Bodied DEF Arrives, Live
  <2>5. QED
    BY <2>2, <2>3, <2>4 DEF Order
<1>13. ASSUME ~loaded', ~Dm PROVE Leaves'
  <2>1. Leaves
    BY <1>3, <1>13 DEF SyncInv
  <2>2. \A d \in Clients, m \in Msgs, i \in Nat : RecallAfter(d, m, i) => RecallAfter(d, m, i)'
    BY <1>3 DEF RecallAfter
  <2>3. ws \in [Clients -> Seq(Event)]
    BY DEF TypeOK
  <2>4. \A d \in Clients : 1 .. Len(ws[d]) \subseteq Nat /\ 0 \in Nat
    BY <2>3
  <2>5. QED
    <3>1. \A d \in Clients, m \in Msgs : view'[d][m] # "notice"
      <4>1. \A d \in Clients, m \in Msgs : view[d][m] # "notice"
        BY <2>1 DEF Leaves
      <4>2. QED
        BY <1>7, <4>1
    <3>2. ASSUME NEW d \in Clients, NEW m \in Msgs, row[m] = "recalled", <<d, m>> \notin astray
          PROVE  /\ view'[d][m] \in Texts => RecallAfter(d, m, 0)'
                 /\ \A i \in 1 .. Len(ws[d]) : NewAt(ws[d], i, m) => RecallAfter(d, m, i)'
      BY <1>7, <2>1, <2>2, <2>4, <3>2 DEF Leaves
    <3>3. QED
      BY <1>3, <3>1, <3>2 DEF Leaves, NewAt
<1>14. ASSUME ~loaded', ~overlapped' PROVE Agrees'
  <2>1. Agrees
    BY <1>3, <1>14 DEF SyncInv
  <2>2. \A d \in Clients, m \in Msgs : Telling(m) => Telling(m)'
    BY <1>3 DEF Telling
  <2>3. \A d \in Clients \ Authors, m \in Msgs :
          Live(m)' /\ <<d, m>> \notin astray' => Telling(m)' \/ Carries(ws'[d], m, view'[d][m], row'[m])
    BY <1>3, <1>7, <2>1, <2>2 DEF Agrees, Live
  <2>4. QED
    BY <1>3, <1>14, <2>3 DEF Agrees, Carries
<1>15. QED
  BY <1>4, <1>6, <1>8, <1>10, <1>12, <1>13, <1>14 DEF SyncInv

(* handleEditMessage and handleRecall: a message that somebody shows.      *)
LEMMA OldAsked ==
  ASSUME TypeOK, SyncInv, NEW c \in Authors, NEW w \in Workers, NEW m \in Msgs, NEW t \in Bodies,
         NEW l \in {"update", "recall"}, l = "update" => t \in Texts, view[c][m] \in Texts,
         asks' \in 0 .. MaxAsks, Start(w, l, <<c, m, t>>),
         UNCHANGED <<row, used, ws, replies, loads, view>>
  PROVE  TypeOK' /\ SyncInv'
<1> DEFINE j == <<c, m, t>>
<1>1. j \in Request /\ j[1] = c /\ j[2] = m /\ j[3] = t /\ c \in Clients /\ l \in Steps
  BY SyncAssumption DEF Request, Steps
<1>2. Start(w, l, j)
  OBVIOUS
<1> HIDE DEF j
<1>3. /\ step' \in [Workers -> Steps] /\ job' \in [Workers -> {NoJob} \cup Request]
      /\ step'[w] = l /\ job'[w] = j /\ step[w] = "idle"
      /\ \A v \in Workers \ {w} : step'[v] = step[v] /\ job'[v] = job[v]
      /\ loaded' = loaded /\ astray' = astray /\ overlapped' \in BOOLEAN
      /\ ~overlapped' => ~overlapped /\ \A v \in Workers : step[v] = "idle"
  BY <1>1, <1>2, Started
<1>4. TypeOK'
  BY <1>3 DEF TypeOK
<1>5. row[m] # "none" /\ m \in used
  BY <1>1 DEF SyncInv, Facts, Jobs
<1>6. Jobs'
  <2>1. ASSUME NEW v \in Workers, step'[v] # "idle"
        PROVE  /\ job'[v] \in Authors \X Msgs \X (Texts \cup {"recalled"})
               /\ job'[v][2] \in used'
               /\ step'[v] \in {"insert", "announce", "update", "updated"} => job'[v][3] \in Texts
               /\ step'[v] = "insert" <=> row'[job'[v][2]] = "none"
               /\ step'[v] = "recalled" =>
                    row'[job'[v][2]] = "recalled" \/ \A d \in Clients : <<d, job'[v][2]>> \in astray'
    <3>1. CASE v = w
      BY <1>1, <1>3, <1>5, <3>1 DEF Request, Bodies
    <3>2. CASE v # w
      BY <1>3, <2>1, <3>2 DEF SyncInv, Jobs
    <3>3. QED
      BY <3>1, <3>2
  <2>2. \A v, u \in Workers : Fresh(v)' /\ Fresh(u)' /\ job'[v][2] = job'[u][2] => v = u
    BY <1>3 DEF SyncInv, Jobs, Fresh
  <2>3. QED
    BY <2>1, <2>2 DEF SyncInv, Jobs
<1>7. Facts'
  BY <1>3 DEF SyncInv, Facts
<1>8. \A d \in Clients, n \in Msgs : NewComing(d, n) => NewComing(d, n)'
  BY <1>3 DEF NewComing, NewAt
<1>9. Repaired'
  BY <1>3, <1>8 DEF SyncInv, Repaired
<1>10. ASSUME ~loaded' PROVE Order' /\ Arrives'
  <2>1. Order /\ Arrives
    BY <1>3, <1>10 DEF SyncInv
  <2>2. ASSUME NEW v \in Workers, Fresh(v)' PROVE Unknown(job[v][2])'
    <3>1. Fresh(v) /\ Unknown(job[v][2]) /\ job'[v] = job[v]
      BY <1>3, <2>1, <2>2 DEF Order, Fresh
    <3>2. job[v][2] # m
      BY <1>1, <3>1 DEF Unknown
    <3>3. \A u \in Workers : step'[u] # "idle" /\ job'[u][2] = job[v][2] => Fresh(u)'
      BY <1>1, <1>3, <3>1, <3>2 DEF Unknown, Fresh
    <3>4. QED
      BY <3>1, <3>3 DEF Unknown
  <2>3. \A d \in Clients : NewFirst(ws[d])'
    BY <2>1 DEF Order, NewFirst
  <2>4. Arrives'
    BY <1>3, <1>8, <2>1 DEF Arrives, Live
  <2>5. QED
    BY <2>2, <2>3, <2>4 DEF Order
<1>11. ASSUME ~loaded', ~Dm PROVE Leaves'
  <2>1. Leaves
    BY <1>3, <1>11 DEF SyncInv
  <2>2. \A d \in Clients, n \in Msgs, i \in Nat : RecallAfter(d, n, i) => RecallAfter(d, n, i)'
    BY <1>3 DEF RecallAfter
  <2>3. ws \in [Clients -> Seq(Event)]
    BY DEF TypeOK
  <2>4. \A d \in Clients : 1 .. Len(ws[d]) \subseteq Nat /\ 0 \in Nat
    BY <2>3
  <2>5. QED
    BY <1>3, <2>1, <2>2, <2>4 DEF Leaves, NewAt
<1>12. ASSUME ~loaded', ~overlapped' PROVE Agrees'
  <2>1. Agrees
    BY <1>3, <1>12 DEF SyncInv
  <2>2. \A d \in Clients, n \in Msgs : Telling(n) => Telling(n)'
    BY <1>3 DEF Telling
  <2>3. \A d \in Clients \ Authors, n \in Msgs :
          Live(n)' /\ <<d, n>> \notin astray' => Telling(n)' \/ Carries(ws'[d], n, view'[d][n], row'[n])
    BY <1>3, <2>1, <2>2 DEF Agrees, Live
  <2>4. QED
    BY <1>3, <1>12, <2>3 DEF Agrees, Carries
<1>13. QED
  BY <1>4, <1>6, <1>7, <1>9, <1>10, <1>11, <1>12 DEF SyncInv

-----------------------------------------------------------------------------
(* A request writes the row                                                *)

LEMMA Written ==
  ASSUME TypeOK, NEW w \in Workers, NEW m \in Msgs, NEW x \in Bodies, NEW l \in Steps,
         row' = [row EXCEPT ![m] = x], step' = [step EXCEPT ![w] = l],
         UNCHANGED <<used, asks, job, ws, replies, loads, view>> /\ UNCHANGED history
  PROVE  /\ TypeOK'
         /\ row'[m] = x /\ \A n \in Msgs \ {m} : row'[n] = row[n]
         /\ step'[w] = l /\ \A v \in Workers \ {w} : step'[v] = step[v]
BY DEF TypeOK, history

LEMMA InsertInv ==
  ASSUME TypeOK, SyncInv, NEW w \in Workers, step[w] = "insert",
         row' = [row EXCEPT ![job[w][2]] = job[w][3]], step' = [step EXCEPT ![w] = "announce"],
         UNCHANGED <<used, asks, job, ws, replies, loads, view>> /\ UNCHANGED history
  PROVE  TypeOK' /\ SyncInv'
<1> DEFINE m == job[w][2]  t == job[w][3]
<1>1. m \in Msgs /\ t \in Texts /\ t \in Bodies /\ row[m] = "none" /\ m \in used
  BY Handled, Bodied DEF SyncInv, Jobs
<1>2. /\ TypeOK'
      /\ row'[m] = t /\ \A n \in Msgs \ {m} : row'[n] = row[n]
      /\ step'[w] = "announce" /\ \A v \in Workers \ {w} : step'[v] = step[v]
  BY <1>1, Written DEF Steps
<1> HIDE DEF m, t
<1>3. UNCHANGED <<used, job, ws, replies, loads, view, overlapped, loaded, astray>>
  BY DEF history
<1>4. \A v \in Workers : Fresh(v)' <=> Fresh(v)
  BY <1>2 DEF Fresh
<1>5. \A v \in Workers \ {w} : step[v] # "idle" => job[v][2] # m /\ job[v][2] \in Msgs
  BY <1>1, Handled DEF SyncInv, Jobs, Fresh, m
<1>6. \A n \in Msgs : /\ row[n] # "none" => row'[n] = row[n]
                      /\ row'[n] = "recalled" <=> row[n] = "recalled"
  BY <1>1, <1>2, Bodied
<1>7. Jobs'
  <2>1. ASSUME NEW v \in Workers, step'[v] # "idle"
        PROVE  /\ job'[v] \in Authors \X Msgs \X (Texts \cup {"recalled"})
               /\ job'[v][2] \in used'
               /\ step'[v] \in {"insert", "announce", "update", "updated"} => job'[v][3] \in Texts
               /\ step'[v] = "insert" <=> row'[job'[v][2]] = "none"
               /\ step'[v] = "recalled" =>
                    row'[job'[v][2]] = "recalled" \/ \A d \in Clients : <<d, job'[v][2]>> \in astray'
    <3>1. CASE v = w
      BY <1>1, <1>2, <1>3, <3>1, Bodied DEF SyncInv, Jobs, m, t
    <3>2. CASE v # w
      BY <1>2, <1>3, <1>5, <2>1, <3>2 DEF SyncInv, Jobs
    <3>3. QED
      BY <3>1, <3>2
  <2>2. QED
    BY <1>1, <1>2, <1>3, <1>4, <2>1 DEF SyncInv, Jobs
<1>8. Facts'
  BY <1>3, <1>6 DEF SyncInv, Facts, TypeOK, Event, Answer
<1>9. \A d \in Clients, n \in Msgs :
        /\ NewComing(d, n) => NewComing(d, n)'
        /\ n = m => NewComing(d, n)'
  BY <1>2, <1>3 DEF NewComing, NewAt, m
<1>10. Repaired'
  BY <1>2, <1>3, <1>9 DEF SyncInv, Repaired
<1>11. ASSUME ~loaded' PROVE Order' /\ Arrives'
  <2>1. Order /\ Arrives
    BY <1>3, <1>11 DEF SyncInv
  <2>2. ASSUME NEW v \in Workers, Fresh(v)' PROVE Unknown(job[v][2])'
    <3>1. Fresh(v) /\ Unknown(job[v][2]) /\ job[v][2] \in Msgs
      BY <1>4, <2>1, <2>2, Handled DEF Order, Fresh, SyncInv
    <3>2. \A u \in Workers : step'[u] # "idle" => step[u] # "idle"
      BY <1>2
    <3>3. QED
      BY <1>3, <1>4, <1>6, <3>1, <3>2 DEF Unknown
  <2>3. Arrives'
    BY <1>2, <1>3, <1>9, <2>1 DEF Arrives, Live
  <2>4. QED
    BY <1>3, <2>1, <2>2, <2>3 DEF Order, NewFirst
<1>12. ASSUME ~loaded', ~Dm PROVE Leaves'
  <2>1. Leaves
    BY <1>3, <1>12 DEF SyncInv
  <2>2. \A d \in Clients, n \in Msgs, i \in Nat : RecallAfter(d, n, i) => RecallAfter(d, n, i)'
    BY <1>2, <1>3 DEF RecallAfter
  <2>3. \A d \in Clients : 1 .. Len(ws[d]) \subseteq Nat /\ 0 \in Nat
    BY DEF TypeOK
  <2>4. QED
    BY <1>3, <1>6, <2>1, <2>2, <2>3 DEF Leaves, NewAt
<1>13. ASSUME ~loaded', ~overlapped' PROVE Agrees'
  <2>1. Agrees
    BY <1>3, <1>13 DEF SyncInv
  <2>2. \A v, u \in Workers : step'[v] # "idle" /\ step'[u] # "idle" => v = u
    BY <1>2, <2>1 DEF Agrees
  <2>3. \A v \in Workers : step'[v] \in {"announce", "updated"} => v = w
    BY <1>2, <2>2
  <2>4. Telling(m)' /\ \A n \in Msgs \ {m} : ~Telling(n)
    BY <1>2, <1>3, <2>1 DEF Telling, Agrees, m
  <2>5. ASSUME NEW d \in Clients \ Authors, NEW n \in Msgs, Live(n)', <<d, n>> \notin astray'
        PROVE  Telling(n)' \/ Carries(ws'[d], n, view'[d][n], row'[n])
    <3>1. CASE n # m
      <4>1. row'[n] = row[n] /\ Live(n)
        BY <1>2, <2>5, <3>1 DEF Live
      <4>2. Carries(ws[d], n, view[d][n], row[n])
        BY <1>3, <2>1, <2>4, <2>5, <3>1, <4>1 DEF Agrees
      <4>3. QED
        BY <1>3, <4>1, <4>2
    <3>2. QED
      BY <1>2, <1>3, <3>1 DEF Telling, m
  <2>6. job'[w][3] = row'[job'[w][2]]
    BY <1>2, <1>3 DEF m, t
  <2>7. \A d \in Clients \ Authors, n \in Msgs :
          Live(n)' /\ <<d, n>> \notin astray' => Telling(n)' \/ Carries(ws'[d], n, view'[d][n], row'[n])
    BY <2>5
  <2>8. QED
    BY <2>2, <2>3, <2>6, <2>7 DEF Agrees, Carries
<1>14. QED
  BY <1>2, <1>7, <1>8, <1>10, <1>11, <1>12, <1>13 DEF SyncInv

(* The UPDATE of an edit or of a recall: the message is stored already.    *)
LEMMA UpdateInv ==
  ASSUME TypeOK, SyncInv, NEW w \in Workers, NEW x \in Bodies, NEW l \in {"updated", "recalled"},
         \/ /\ l = "updated" /\ step[w] = "update"
            /\ x = IF row[job[w][2]] = "recalled" THEN "recalled" ELSE job[w][3]
         \/ l = "recalled" /\ step[w] = "recall" /\ x = "recalled",
         row' = [row EXCEPT ![job[w][2]] = x], step' = [step EXCEPT ![w] = l],
         UNCHANGED <<used, asks, job, ws, replies, loads, view>> /\ UNCHANGED history
  PROVE  TypeOK' /\ SyncInv'
<1> DEFINE m == job[w][2]  t == job[w][3]
<1>1. /\ m \in Msgs /\ row[m] # "none" /\ m \in used
      /\ l = "updated" => t \in Texts /\ x = IF row[m] = "recalled" THEN "recalled" ELSE t
      /\ l = "recalled" => x = "recalled"
      /\ row[m] = "recalled" => x = "recalled"
  BY Handled, Bodied DEF SyncInv, Jobs
<1>2. /\ TypeOK'
      /\ row'[m] = x /\ \A n \in Msgs \ {m} : row'[n] = row[n]
      /\ step'[w] = l /\ \A v \in Workers \ {w} : step'[v] = step[v]
  BY <1>1, Written DEF Steps
<1>3. UNCHANGED <<used, job, ws, replies, loads, view, overlapped, loaded, astray>>
  BY DEF history
<1>4. /\ \A v \in Workers : Fresh(v)' <=> Fresh(v)
      /\ \A v \in Workers : step'[v] # "idle" <=> step[v] # "idle"
      /\ \A v \in Workers : step'[v] = "insert" <=> step[v] = "insert"
      /\ ~Fresh(w)
  BY <1>2 DEF Fresh
<1>5. \A n \in Msgs : /\ row'[n] = "none" <=> row[n] = "none"
                      /\ row[n] = "recalled" => row'[n] = "recalled"
                      /\ row'[n] # "recalled" /\ row[n] # "none" => row[n] \in Texts /\ row'[n] \in Texts
  BY <1>1, <1>2, Bodied DEF TypeOK
<1>6. Jobs'
  <2>1. ASSUME NEW v \in Workers, step'[v] # "idle"
        PROVE  /\ job'[v] \in Authors \X Msgs \X (Texts \cup {"recalled"})
               /\ job'[v][2] \in used'
               /\ step'[v] \in {"insert", "announce", "update", "updated"} => job'[v][3] \in Texts
               /\ step'[v] = "insert" <=> row'[job'[v][2]] = "none"
               /\ step'[v] = "recalled" =>
                    row'[job'[v][2]] = "recalled" \/ \A d \in Clients : <<d, job'[v][2]>> \in astray'
    <3>1. job[v][2] \in Msgs
      BY <1>4, <2>1, Handled DEF SyncInv
    <3>2. CASE v = w
      BY <1>1, <1>2, <1>3, <1>4, <1>5, <3>1, <3>2 DEF SyncInv, Jobs, m, t
    <3>3. CASE v # w
      BY <1>2, <1>3, <1>5, <2>1, <3>1, <3>3 DEF SyncInv, Jobs
    <3>4. QED
      BY <3>2, <3>3
  <2>2. QED
    BY <1>3, <1>4, <1>5, <2>1 DEF SyncInv, Jobs
<1>7. Facts'
  BY <1>3, <1>5 DEF SyncInv, Facts, TypeOK, Event, Answer
<1>8. \A d \in Clients, n \in Msgs : NewComing(d, n) => NewComing(d, n)'
  BY <1>2, <1>3, <1>4 DEF NewComing, NewAt, Fresh
<1>9. Repaired'
  BY <1>3, <1>5, <1>8 DEF SyncInv, Repaired
<1>10. ASSUME ~loaded' PROVE Order' /\ Arrives'
  <2>1. Order /\ Arrives
    BY <1>3, <1>10 DEF SyncInv
  <2>2. ASSUME NEW v \in Workers, Fresh(v)' PROVE Unknown(job[v][2])'
    <3>1. Fresh(v) /\ Unknown(job[v][2]) /\ job[v][2] \in Msgs
      BY <1>4, <2>1, <2>2, Handled DEF Order, Fresh, SyncInv
    <3>2. job[v][2] # m
      BY <1>4, <3>1 DEF Unknown, Fresh, m
    <3>3. row'[job[v][2]] # "recalled"
      BY <1>2, <3>1, <3>2 DEF Unknown
    <3>4. QED
      BY <1>3, <1>4, <3>1, <3>3 DEF Unknown
  <2>3. \A n \in Msgs : Live(n)' => Live(n)
    BY <1>5, Bodied DEF Live
  <2>4. Arrives'
    BY <1>3, <1>8, <2>1, <2>3 DEF Arrives
  <2>5. QED
    BY <1>3, <2>1, <2>2, <2>4 DEF Order, NewFirst
<1>11. ASSUME ~loaded', ~Dm PROVE Leaves'
  <2>1. Leaves
    BY <1>3, <1>11 DEF SyncInv
  <2>2. \A d \in Clients, n \in Msgs, i \in Nat :
          /\ RecallAfter(d, n, i) => RecallAfter(d, n, i)'
          /\ row'[n] = "recalled" => row[n] = "recalled" \/ RecallAfter(d, n, i)'
    BY <1>1, <1>2, <1>3, Bodied DEF RecallAfter, m
  <2>3. \A d \in Clients : 1 .. Len(ws[d]) \subseteq Nat /\ 0 \in Nat
    BY DEF TypeOK
  <2>4. QED
    BY <1>3, <2>1, <2>2, <2>3 DEF Leaves, NewAt
<1>12. ASSUME ~loaded', ~overlapped' PROVE Agrees'
  <2>1. Agrees
    BY <1>3, <1>12 DEF SyncInv
  <2>2. \A v, u \in Workers : step'[v] # "idle" /\ step'[u] # "idle" => v = u
    BY <1>4, <2>1 DEF Agrees
  <2>3. \A v \in Workers : step'[v] \in {"announce", "updated"} => v = w /\ l = "updated"
    BY <1>2, <2>2
  <2>4. l = "updated" => Telling(m)'
    BY <1>2, <1>3 DEF Telling, m
  <2>5. \A n \in Msgs : ~Telling(n)
    BY <1>2, <1>4, <2>1 DEF Telling, Agrees, Fresh
  <2>6. ASSUME NEW d \in Clients \ Authors, NEW n \in Msgs, Live(n)', <<d, n>> \notin astray'
        PROVE  Telling(n)' \/ Carries(ws'[d], n, view'[d][n], row'[n])
    <3>1. CASE n # m
      <4>1. row'[n] = row[n] /\ Live(n)
        BY <1>2, <2>6, <3>1 DEF Live
      <4>2. Carries(ws[d], n, view[d][n], row[n])
        BY <1>3, <2>1, <2>5, <2>6, <4>1 DEF Agrees
      <4>3. QED
        BY <1>3, <4>1, <4>2
    <3>2. CASE n = m
      BY <1>1, <1>2, <2>4, <2>6, <3>2, Bodied DEF Live
    <3>3. QED
      BY <3>1, <3>2
  <2>7. l = "updated" /\ Live(m)' => job'[w][3] = row'[job'[w][2]]
    BY <1>1, <1>2, <1>3, Bodied DEF Live
  <2>8. QED
    BY <1>3, <2>2, <2>3, <2>6, <2>7 DEF Agrees, m
<1>13. QED
  BY <1>2, <1>6, <1>7, <1>9, <1>10, <1>11, <1>12 DEF SyncInv

(* The UPDATE of a recall fails unnoticed: everybody is led astray.        *)
LEMMA UnstoredInv ==
  ASSUME TypeOK, SyncInv, NEW w \in Workers, step[w] = "recall",
         Astray(Clients, job[w][2]), step' = [step EXCEPT ![w] = "recalled"],
         UNCHANGED <<row, used, asks, job, ws, replies, loads, view, overlapped, loaded>>
  PROVE  TypeOK' /\ SyncInv'
<1> DEFINE m == job[w][2]
<1>1. m \in Msgs
  BY Handled DEF SyncInv
<1>2. /\ step' \in [Workers -> Steps]
      /\ step'[w] = "recalled" /\ \A v \in Workers \ {w} : step'[v] = step[v]
  BY DEF TypeOK, Steps
<1>3. /\ astray' \subseteq Clients \X Msgs /\ astray \subseteq astray'
      /\ \A d \in Clients : <<d, m>> \in astray'
  BY <1>1 DEF TypeOK, Astray
<1>4. TypeOK'
  BY <1>2, <1>3 DEF TypeOK
<1> HIDE DEF m
<1>5. /\ \A v \in Workers : Fresh(v)' <=> Fresh(v)
      /\ \A v \in Workers : step'[v] # "idle" <=> step[v] # "idle"
      /\ \A v \in Workers : step'[v] # step[v] => v = w
  BY <1>2 DEF Fresh
<1>6. Jobs'
  <2>1. ASSUME NEW v \in Workers, step'[v] # "idle"
        PROVE  /\ job'[v] \in Authors \X Msgs \X (Texts \cup {"recalled"})
               /\ job'[v][2] \in used'
               /\ step'[v] \in {"insert", "announce", "update", "updated"} => job'[v][3] \in Texts
               /\ step'[v] = "insert" <=> row'[job'[v][2]] = "none"
               /\ step'[v] = "recalled" =>
                    row'[job'[v][2]] = "recalled" \/ \A d \in Clients : <<d, job'[v][2]>> \in astray'
    <3>1. CASE v = w
      BY <1>2, <1>3, <3>1 DEF SyncInv, Jobs, m
    <3>2. CASE v # w
      BY <1>2, <1>3, <2>1, <3>2 DEF SyncInv, Jobs
    <3>3. QED
      BY <3>1, <3>2
  <2>2. QED
    BY <1>5, <2>1 DEF SyncInv, Jobs
<1>7. Facts'
  BY <1>3 DEF SyncInv, Facts
<1>8. \A d \in Clients, n \in Msgs : NewComing(d, n) => NewComing(d, n)'
  BY <1>2 DEF NewComing, NewAt
<1>9. Repaired'
  BY <1>3, <1>8 DEF SyncInv, Repaired
<1>10. ASSUME ~loaded' PROVE Order' /\ Arrives'
  <2>1. Order /\ Arrives
    BY <1>10 DEF SyncInv
  <2>2. ASSUME NEW v \in Workers, Fresh(v)' PROVE Unknown(job[v][2])'
    <3>1. Fresh(v) /\ Unknown(job[v][2])
      BY <1>5, <2>1, <2>2 DEF Order
    <3>2. QED
      BY <1>5, <3>1 DEF Unknown
  <2>3. Arrives'
    BY <1>3, <1>8, <2>1 DEF Arrives, Live
  <2>4. QED
    BY <2>1, <2>2, <2>3 DEF Order, NewFirst
<1>11. ASSUME ~loaded', ~Dm PROVE Leaves'
  <2>1. Leaves
    BY <1>11 DEF SyncInv
  <2>2. \A d \in Clients, n \in Msgs, i \in Nat : RecallAfter(d, n, i) => RecallAfter(d, n, i)'
    BY <1>2 DEF RecallAfter
  <2>3. \A d \in Clients : 1 .. Len(ws[d]) \subseteq Nat /\ 0 \in Nat
    BY DEF TypeOK
  <2>4. QED
    BY <1>3, <2>1, <2>2, <2>3 DEF Leaves, NewAt
<1>12. ASSUME ~loaded', ~overlapped' PROVE Agrees'
  <2>1. Agrees
    BY <1>12 DEF SyncInv
  <2>2. \A d \in Clients, n \in Msgs : Telling(n) => Telling(n)'
    BY <1>2 DEF Telling
  <2>3. \A d \in Clients \ Authors, n \in Msgs :
          Live(n)' /\ <<d, n>> \notin astray' => Telling(n)' \/ Carries(ws'[d], n, view'[d][n], row'[n])
    BY <1>3, <2>1, <2>2 DEF Agrees, Live, Carries
  <2>4. \A v \in Workers :
          step'[v] \in {"announce", "updated"} /\ Live(job[v][2]) => job[v][3] = row[job[v][2]]
    BY <1>2, <2>1 DEF Agrees
  <2>5. \A v, u \in Workers : step'[v] # "idle" /\ step'[u] # "idle" => v = u
    BY <1>5, <2>1 DEF Agrees
  <2>6. QED
    BY <2>3, <2>4, <2>5 DEF Agrees, Live
<1>13. QED
  BY <1>4, <1>6, <1>7, <1>9, <1>10, <1>11, <1>12 DEF SyncInv

(* Nothing is written: the message is refused, or the UPDATE fails.        *)
LEMMA RefusedInv ==
  ASSUME TypeOK, SyncInv, NEW w \in Workers, step[w] \in {"insert", "update"},
         NEW r \in Answer, r[2] = "failed", replies' \in {replies, replies \cup {r}}, Finish(w),
         UNCHANGED <<row, used, asks, ws, loads, view>> /\ UNCHANGED history
  PROVE  TypeOK' /\ SyncInv'
<1>1. /\ step' \in [Workers -> Steps] /\ job' \in [Workers -> {NoJob} \cup Request]
      /\ step'[w] = "idle"
      /\ \A v \in Workers \ {w} : step'[v] = step[v] /\ job'[v] = job[v]
  BY Finished
<1>2. UNCHANGED <<row, used, asks, ws, loads, view, overlapped, loaded, astray>>
  BY DEF history
<1>3. TypeOK'
  BY <1>1, <1>2 DEF TypeOK
<1>4. \A v \in Workers : step'[v] # "idle" => step'[v] = step[v] /\ job'[v] = job[v]
  BY <1>1
<1>5. Jobs'
  BY <1>2, <1>4 DEF SyncInv, Jobs, Fresh
<1>6. r[1] \in Authors
  BY DEF Answer
<1>7. Facts'
  BY <1>2, <1>6 DEF SyncInv, Facts
<1>8. \A d \in Clients, n \in Msgs : NewComing(d, n) => NewComing(d, n)'
  BY <1>1, <1>2 DEF NewComing, NewAt
<1>9. Repaired'
  BY <1>2, <1>8 DEF SyncInv, Repaired
<1>10. ASSUME ~loaded' PROVE Order' /\ Arrives'
  <2>1. Order /\ Arrives
    BY <1>2, <1>10 DEF SyncInv
  <2>2. ASSUME NEW v \in Workers, Fresh(v)' PROVE Unknown(job[v][2])' /\ job'[v] = job[v]
    <3>1. Fresh(v) /\ Unknown(job[v][2]) /\ job'[v] = job[v]
      BY <1>4, <2>1, <2>2 DEF Order, Fresh
    <3>2. \A u \in Workers : step'[u] # "idle" /\ job'[u][2] = job[v][2] => Fresh(u)'
      BY <1>4, <3>1 DEF Unknown, Fresh
    <3>3. \A x \in replies' : x[3] = job[v][2] => x[2] = "failed"
      BY <3>1 DEF Unknown
    <3>4. QED
      BY <1>2, <3>1, <3>2, <3>3 DEF Unknown
  <2>3. Arrives'
    BY <1>2, <1>8, <2>1 DEF Arrives, Live
  <2>4. QED
    BY <1>2, <2>1, <2>2, <2>3 DEF Order, NewFirst
<1>11. ASSUME ~loaded', ~Dm PROVE Leaves'
  <2>1. Leaves
    BY <1>2, <1>11 DEF SyncInv
  <2>2. \A d \in Clients, n \in Msgs, i \in Nat : RecallAfter(d, n, i) => RecallAfter(d, n, i)'
    BY <1>1, <1>2 DEF RecallAfter
  <2>3. \A d \in Clients : 1 .. Len(ws[d]) \subseteq Nat /\ 0 \in Nat
    BY DEF TypeOK
  <2>4. QED
    BY <1>2, <2>1, <2>2, <2>3 DEF Leaves, NewAt
<1>12. ASSUME ~loaded', ~overlapped' PROVE Agrees'
  <2>1. Agrees
    BY <1>2, <1>12 DEF SyncInv
  <2>2. \A d \in Clients, n \in Msgs : Telling(n) => Telling(n)'
    BY <1>1 DEF Telling
  <2>3. \A d \in Clients \ Authors, n \in Msgs :
          Live(n)' /\ <<d, n>> \notin astray' => Telling(n)' \/ Carries(ws'[d], n, view'[d][n], row'[n])
    BY <1>2, <2>1, <2>2 DEF Agrees, Live
  <2>4. QED
    BY <1>2, <1>4, <2>1, <2>3 DEF Agrees, Live
<1>13. QED
  BY <1>3, <1>5, <1>7, <1>9, <1>10, <1>11, <1>12 DEF SyncInv

-----------------------------------------------------------------------------
(* A request publishes and replies                                         *)

(* The last event about a message, and one about another.                  *)
LEMMA CarriesLast ==
  ASSUME NEW q, NEW n \in Nat, Len(q) = n + 1, NEW m, NEW s, NEW v,
         q[n + 1][2] = m, q[n + 1][3] = v
  PROVE  Carries(q, m, s, v)
BY DEF Carries

LEMMA CarriesMore ==
  ASSUME NEW q, NEW p, Len(q) \in Nat, Len(p) = Len(q) + 1,
         \A i \in 1 .. Len(q) : p[i] = q[i],
         NEW m, NEW s, NEW v, Carries(q, m, s, v), p[Len(q) + 1][2] # m
  PROVE  Carries(p, m, s, v)
<1>1. PICK i \in 0 .. Len(q) :
        /\ i = 0 => s = v
        /\ i # 0 => q[i][2] = m /\ q[i][3] = v
        /\ \A j \in 1 .. Len(q) : j > i => q[j][2] # m
  BY DEF Carries
<1>2. i \in 0 .. Len(p) /\ (i # 0 => p[i] = q[i])
  BY <1>1
<1>3. \A j \in 1 .. Len(p) : j \in 1 .. Len(q) \/ j = Len(q) + 1
  OBVIOUS
<1>4. \A j \in 1 .. Len(p) : j > i => p[j][2] # m
  BY <1>1, <1>3
<1>5. QED
  BY <1>1, <1>2, <1>4 DEF Carries

LEMMA Publishes ==
  ASSUME TypeOK, SyncInv, NEW w \in Workers, NEW k \in {"new", "updated", "recalled"}, NEW r \in Answer,
         \/ k = "new" /\ step[w] = "announce" /\ r[2] \in {"sent", "failed"}
         \/ k = "updated" /\ step[w] = "updated" /\ r[2] = "edited"
         \/ k = "recalled" /\ step[w] = "recalled" /\ r[2] = "recalled",
         r[1] = job[w][1], r[3] = job[w][2], r[4] = job[w][3],
         replies' \in {replies, replies \cup {r}},
         Publish(k, job[w][2], job[w][3]), Finish(w),
         UNCHANGED <<row, used, asks, loads, view>>
  PROVE  TypeOK' /\ SyncInv'
<1> DEFINE m == job[w][2]  t == job[w][3]
           e(c) == ws'[c][Len(ws[c]) + 1]
<1>1. /\ m \in Msgs /\ t \in Bodies /\ row[m] # "none"
      /\ k # "recalled" => t \in Texts
      /\ k = "recalled" => row[m] = "recalled" \/ \A c \in Clients : <<c, m>> \in astray
      /\ r[1] \in Authors /\ r[1] \in Clients /\ r \in Answer
  BY Handled, SyncAssumption DEF SyncInv, Jobs, Answer
<1>2. /\ ws' \in [Clients -> Seq(Event)] /\ astray' \subseteq Clients \X Msgs
      /\ astray \subseteq astray' /\ loaded' = loaded /\ overlapped' = overlapped
      /\ \A c \in Clients :
           /\ Len(ws[c]) \in Nat /\ Len(ws'[c]) \in {Len(ws[c]), Len(ws[c]) + 1}
           /\ \A i \in 1 .. Len(ws[c]) : ws'[c][i] = ws[c][i]
           /\ Len(ws'[c]) = Len(ws[c]) + 1 => e(c)[1] = k /\ e(c)[2] = m /\ e(c)[3] = t
           /\ Len(ws'[c]) = Len(ws[c]) => <<c, m>> \in astray'
  BY <1>1, Published
<1>2a. /\ \A c \in Clients : Len(ws[c]) \in Nat
       /\ \A c \in Clients : Len(ws'[c]) = Len(ws[c]) \/ Len(ws'[c]) = Len(ws[c]) + 1
       /\ \A c \in Clients : \A i \in 1 .. Len(ws[c]) : ws'[c][i] = ws[c][i]
  BY <1>2
<1>3. /\ step' \in [Workers -> Steps] /\ job' \in [Workers -> {NoJob} \cup Request]
      /\ step'[w] = "idle" /\ step[w] # "idle"
      /\ \A v \in Workers \ {w} : step'[v] = step[v] /\ job'[v] = job[v]
  BY Finished
<1>4. TypeOK'
  BY <1>1, <1>2, <1>3 DEF TypeOK
<1> HIDE DEF m, t
<1>5. UNCHANGED <<row, used, loads, view, overlapped, loaded>>
  BY <1>2
<1>6. r[3] = m /\ r[4] = t
  BY DEF m, t
<1>7. \A c \in Clients :
        /\ 1 .. Len(ws[c]) \subseteq 1 .. Len(ws'[c])
        /\ <<c, m>> \notin astray' => Len(ws'[c]) = Len(ws[c]) + 1 /\ Len(ws[c]) + 1 \in 1 .. Len(ws'[c])
        /\ \A i \in 1 .. Len(ws'[c]) :
             \/ i \in 1 .. Len(ws[c])
             \/ i = Len(ws[c]) + 1 /\ Len(ws'[c]) = Len(ws[c]) + 1
  BY <1>2
<1>8. Jobs'
  <2>1. \A v \in Workers : step'[v] # "idle" => v # w /\ step'[v] = step[v] /\ job'[v] = job[v]
    BY <1>3
  <2>2. QED
    BY <1>2, <1>5, <2>1 DEF SyncInv, Jobs, Fresh
<1>9. Facts'
  <2>1. ASSUME NEW c \in Clients, NEW i \in 1 .. Len(ws'[c])
        PROVE  /\ row'[ws'[c][i][2]] # "none"
               /\ IF ws'[c][i][1] = "recalled"
                    THEN row'[ws'[c][i][2]] = "recalled" \/ <<c, ws'[c][i][2]>> \in astray'
                    ELSE ws'[c][i][3] \in Texts
    <3>1. CASE i \in 1 .. Len(ws[c])
      <4>1. ws'[c][i] = ws[c][i] /\ astray \subseteq astray'
        BY <1>2, <1>2a, <3>1
      <4>2. QED
        BY <1>5, <3>1, <4>1 DEF SyncInv, Facts
    <3>2. CASE i = Len(ws[c]) + 1 /\ Len(ws'[c]) = Len(ws[c]) + 1
      BY <1>1, <1>2, <1>5, <3>2
    <3>3. QED
      BY <1>7, <3>1, <3>2
  <2>2. ASSUME NEW x \in replies'
        PROVE  /\ x[1] \in Authors
               /\ x[2] # "failed" => row'[x[3]] # "none"
               /\ x[2] = "recalled" => row'[x[3]] = "recalled" \/ <<x[1], x[3]>> \in astray'
               /\ x[2] \in {"sent", "edited"} => x[4] \in Texts
    <3>1. CASE x = r
      BY <1>1, <1>2, <1>5, <1>6, <3>1
    <3>2. CASE x # r
      BY <1>2, <1>5, <3>2 DEF SyncInv, Facts
    <3>3. QED
      BY <3>1, <3>2
  <2>3. QED
    BY <1>5, <2>1, <2>2 DEF SyncInv, Facts
<1>10. ASSUME NEW c \in Clients, NEW n \in Msgs, NewComing(c, n), <<c, n>> \notin astray'
       PROVE  NewComing(c, n)'
  <2>1. CASE \E i \in 1 .. Len(ws[c]) : NewAt(ws[c], i, n)
    BY <1>2, <1>7, <2>1 DEF NewComing, NewAt
  <2>2. CASE \E v \in Workers \ {w} : step[v] = "announce" /\ job[v][2] = n
    BY <1>3, <2>2 DEF NewComing
  <2>3. CASE step[w] = "announce" /\ job[w][2] = n
    <3>1. n = m /\ Len(ws'[c]) = Len(ws[c]) + 1 /\ k = "new"
      BY <1>7, <1>10, <2>3 DEF m
    <3>2. QED
      BY <1>2, <1>7, <1>10, <3>1 DEF NewComing, NewAt
  <2>4. QED
    BY <1>10, <2>1, <2>2, <2>3 DEF NewComing
<1>11. Repaired'
  BY <1>2, <1>5, <1>10 DEF SyncInv, Repaired
<1>12. ASSUME ~loaded' PROVE Order' /\ Arrives'
  <2>1. Order /\ Arrives
    BY <1>5, <1>12 DEF SyncInv
  <2>2. ASSUME NEW v \in Workers, Fresh(v)' PROVE Unknown(job[v][2])' /\ job'[v] = job[v]
    <3>1. v # w /\ Fresh(v) /\ Unknown(job[v][2]) /\ job'[v] = job[v]
      BY <1>3, <2>1, <2>2 DEF Order, Fresh
    <3>2. job[v][2] # m
      BY <1>3, <3>1 DEF Unknown, SyncInv, Jobs, m
    <3>3. ASSUME NEW c \in Clients
          PROVE  view'[c][job[v][2]] \notin Texts /\ \A i \in 1 .. Len(ws'[c]) : ws'[c][i][2] # job[v][2]
      BY <1>2, <1>5, <1>7, <3>1, <3>2 DEF Unknown
    <3>4. \A x \in replies' : x[3] = job[v][2] => x[2] = "failed"
      BY <1>6, <3>1, <3>2 DEF Unknown
    <3>5. \A u \in Workers : step'[u] # "idle" => u # w /\ step'[u] = step[u] /\ job'[u] = job[u]
      BY <1>3
    <3>6. \A u \in Workers : step'[u] # "idle" /\ job'[u][2] = job[v][2] => Fresh(u)'
      BY <3>1, <3>5 DEF Unknown, Fresh
    <3>7. QED
      BY <1>5, <3>1, <3>3, <3>4, <3>6 DEF Unknown
  <2>3. ASSUME NEW c \in Clients PROVE NewFirst(ws'[c])
    <3>1. SUFFICES ASSUME NEW i \in 1 .. Len(ws'[c]), NEW j \in 1 .. Len(ws'[c]), j < i, ws'[c][i][1] = "new"
                   PROVE  ws'[c][j][2] # ws'[c][i][2]
      BY DEF NewFirst
    <3>2. j \in 1 .. Len(ws[c])
      BY <1>2a, <3>1
    <3>3. CASE i \in 1 .. Len(ws[c])
      <4>1. ws'[c][i] = ws[c][i] /\ ws'[c][j] = ws[c][j]
        BY <1>2a, <3>2, <3>3
      <4>2. QED
        BY <2>1, <3>1, <3>2, <3>3, <4>1 DEF Order, NewFirst
    <3>4. CASE i = Len(ws[c]) + 1 /\ Len(ws'[c]) = Len(ws[c]) + 1
      <4>1. k = "new" /\ Unknown(m)
        BY <1>2, <2>1, <3>1, <3>4 DEF Order, Fresh, m
      <4>2. QED
        BY <1>2, <3>2, <3>4, <4>1 DEF Unknown
    <3>5. QED
      BY <1>7, <3>3, <3>4
  <2>4. Arrives'
    BY <1>2, <1>5, <1>10, <2>1 DEF Arrives, Live
  <2>5. QED
    BY <2>2, <2>3, <2>4 DEF Order
<1>13. ASSUME ~loaded', ~Dm PROVE Leaves'
  <2>1. Leaves /\ Order
    BY <1>5, <1>13 DEF SyncInv
  <2>2. ASSUME NEW c \in Clients, NEW n \in Msgs, NEW i \in 0 .. Len(ws[c]), RecallAfter(c, n, i),
               <<c, n>> \notin astray'
        PROVE  RecallAfter(c, n, i)'
    <3>1. CASE \E j \in 1 .. Len(ws[c]) : j > i /\ ws[c][j][1] = "recalled" /\ ws[c][j][2] = n
      BY <1>2, <1>7, <3>1 DEF RecallAfter
    <3>2. CASE \E v \in Workers \ {w} : step[v] = "recalled" /\ job[v][2] = n
      BY <1>3, <3>2 DEF RecallAfter
    <3>3. CASE step[w] = "recalled" /\ job[w][2] = n
      <4>1. Len(ws[c]) + 1 > i /\ k = "recalled"
        BY <1>2, <3>3
      <4>2. n = m /\ Len(ws'[c]) = Len(ws[c]) + 1
        BY <1>7, <2>2, <3>3 DEF m
      <4>3. QED
        BY <1>2, <1>7, <2>2, <3>3, <4>1, <4>2 DEF RecallAfter
    <3>4. QED
      BY <2>2, <3>1, <3>2, <3>3 DEF RecallAfter
  <2>3. k = "new" => row[m] # "recalled"
    BY <2>1 DEF Order, Unknown, Fresh, m
  <2>4. ASSUME NEW c \in Clients, NEW n \in Msgs
        PROVE  /\ view'[c][n] # "notice"
               /\ row'[n] = "recalled" /\ <<c, n>> \notin astray' =>
                    /\ view'[c][n] \in Texts => RecallAfter(c, n, 0)'
                    /\ \A i \in 1 .. Len(ws'[c]) : NewAt(ws'[c], i, n) => RecallAfter(c, n, i)'
    <3>1. 0 \in 0 .. Len(ws[c]) /\ 1 .. Len(ws[c]) \subseteq 0 .. Len(ws[c])
      BY <1>2
    <3>2. /\ view'[c][n] # "notice"
          /\ row'[n] = "recalled" /\ <<c, n>> \notin astray' /\ view'[c][n] \in Texts => RecallAfter(c, n, 0)'
      BY <1>2, <1>5, <2>1, <2>2, <3>1 DEF Leaves
    <3>3. ASSUME NEW i \in 1 .. Len(ws'[c]), NewAt(ws'[c], i, n), row'[n] = "recalled", <<c, n>> \notin astray'
          PROVE  RecallAfter(c, n, i)'
      <4>1. i \in 1 .. Len(ws[c])
        BY <1>2, <1>5, <1>7, <2>3, <3>3 DEF NewAt
      <4>2. NewAt(ws[c], i, n)
        BY <1>2, <3>3, <4>1 DEF NewAt
      <4>3. QED
        BY <1>2, <1>5, <2>1, <2>2, <3>1, <3>3, <4>1, <4>2 DEF Leaves
    <3>4. QED
      BY <3>2, <3>3
  <2>5. QED
    BY <2>4 DEF Leaves
<1>14. ASSUME ~loaded', ~overlapped' PROVE Agrees'
  <2>1. Agrees
    BY <1>5, <1>14 DEF SyncInv
  <2>2. \A v \in Workers : step'[v] = "idle"
    BY <1>3, <2>1 DEF Agrees
  <2>3. ASSUME NEW d \in Clients \ Authors, NEW n \in Msgs, Live(n)', <<d, n>> \notin astray'
        PROVE  Carries(ws'[d], n, view'[d][n], row'[n])
    <3>1. CASE n # m
      <4>1. ~Telling(n)
        BY <1>3, <2>1, <3>1 DEF Telling, Agrees, m
      <4>2. Carries(ws[d], n, view[d][n], row[n])
        BY <1>2, <1>5, <2>1, <2>3, <4>1 DEF Agrees, Live
      <4>3. CASE Len(ws'[d]) = Len(ws[d]) + 1
        <5>1. Len(ws[d]) \in Nat
          BY <1>2
        <5>2. \A i \in 1 .. Len(ws[d]) : ws'[d][i] = ws[d][i]
          BY <1>2
        <5>3. ws'[d][Len(ws[d]) + 1][2] # n
          BY <1>2, <3>1, <4>3
        <5>4. Carries(ws'[d], n, view[d][n], row[n])
          BY <4>2, <4>3, <5>1, <5>2, <5>3, CarriesMore
        <5>5. QED
          BY <1>5, <5>4
      <4>4. CASE Len(ws'[d]) = Len(ws[d])
        <5>1. \A i \in 1 .. Len(ws[d]) : ws'[d][i] = ws[d][i]
          BY <1>2a
        <5>2. \A i \in 0 .. Len(ws[d]) : i # 0 => i \in 1 .. Len(ws[d])
          BY <1>2a
        <5>3. Carries(ws'[d], n, view[d][n], row[n])
          BY <4>2, <4>4, <5>1, <5>2 DEF Carries
        <5>4. QED
          BY <1>5, <5>3
      <4>5. QED
        BY <1>2, <4>3, <4>4
    <3>2. CASE n = m
      <4>1. Live(m)
        BY <1>5, <2>3, <3>2 DEF Live
      <4>2. k # "recalled"
        BY <1>1, <1>2, <2>3, <3>2, <4>1, Bodied DEF Live
      <4>3. t = row[m]
        BY <2>1, <4>1, <4>2 DEF Agrees, m, t
      <4>4. Carries(ws'[d], n, view'[d][n], row[m])
        BY <1>2, <1>7, <2>3, <3>2, <4>3, CarriesLast
      <4>5. QED
        BY <1>5, <3>2, <4>4
    <3>3. QED
      BY <3>1, <3>2
  <2>4. QED
    BY <2>2, <2>3 DEF Agrees
<1>15. QED
  BY <1>4, <1>8, <1>9, <1>11, <1>12, <1>13, <1>14 DEF SyncInv

-----------------------------------------------------------------------------
(* A request is answered                                                   *)

(* The entry of the message m in one client of the writer becomes x.       *)
LEMMA Applied ==
  ASSUME TypeOK, SyncInv, NEW c \in Authors, NEW m \in Msgs, NEW x \in Entry, NEW r \in replies,
         replies' = replies \ {r},
         view' \in [Clients -> [Msgs -> Entry]],
         \A d \in Clients, n \in Msgs : view'[d][n] = IF d = c /\ n = m THEN x ELSE view[d][n],
         UNCHANGED <<row, used, asks, step, job, ws, loads>> /\ UNCHANGED history,
         x \in Texts => row[m] # "none",
         x \in {"pending", "failed"} => view[c][m] \in {"pending", "failed"},
         x \notin Texts /\ view[c][m] \in Texts => row[m] = "recalled" \/ <<c, m>> \in astray,
         x = "notice" /\ ~Dm => view[c][m] = "notice",
         x \in Texts => view[c][m] # "absent",
         x \in Texts /\ ~loaded => \A w \in Workers : Fresh(w) => job[w][2] # m
  PROVE  TypeOK' /\ SyncInv'
<1>1. TypeOK'
  BY DEF TypeOK, history
<1>2. UNCHANGED <<row, used, step, job, ws, loads, overlapped, loaded, astray>> /\ replies' \subseteq replies
      /\ c \in Clients
  BY SyncAssumption DEF history
<1>3. Jobs' /\ Facts'
  <2>1. \A d \in Clients, n \in Msgs : view'[d][n] \in Texts => row'[n] # "none"
    BY <1>2 DEF SyncInv, Facts
  <2>2. Facts'
    BY <1>2, <2>1 DEF SyncInv, Facts
  <2>3. QED
    BY <1>2, <2>2 DEF SyncInv, Jobs, Fresh
<1>4. \A d \in Clients, n \in Msgs : NewComing(d, n)' <=> NewComing(d, n)
  BY <1>2 DEF NewComing, NewAt
<1>5. Repaired'
  BY <1>2, <1>4 DEF SyncInv, Repaired
<1>6. ASSUME ~loaded' PROVE Order' /\ Arrives'
  <2>1. Order /\ Arrives
    BY <1>2, <1>6 DEF SyncInv
  <2>2. ASSUME NEW v \in Workers, Fresh(v)' PROVE Unknown(job[v][2])'
    <3>1. Fresh(v) /\ Unknown(job[v][2]) /\ job[v][2] \in Msgs
      BY <1>2, <2>1, <2>2, Handled DEF Order, Fresh, SyncInv
    <3>2. \A d \in Clients : view'[d][job[v][2]] \notin Texts
      BY <1>2, <1>6, <3>1 DEF Unknown
    <3>3. QED
      BY <1>2, <3>1, <3>2 DEF Unknown, Fresh
  <2>3. Arrives'
    BY <1>2, <1>4, <2>1, Bodied DEF Arrives, Live
  <2>4. QED
    BY <1>2, <2>1, <2>2, <2>3 DEF Order, NewFirst
<1>7. ASSUME ~loaded', ~Dm PROVE Leaves'
  <2>1. Leaves /\ Order /\ Arrives
    BY <1>2, <1>7 DEF SyncInv
  <2>2. \A d \in Clients, n \in Msgs, i \in Nat : RecallAfter(d, n, i) => RecallAfter(d, n, i)'
    BY <1>2 DEF RecallAfter
  <2>3. \A d \in Clients : 1 .. Len(ws[d]) \subseteq Nat /\ 0 \in Nat
    BY DEF TypeOK
  <2>4. ASSUME x \in Texts, view[c][m] \notin Texts, row[m] = "recalled", <<c, m>> \notin astray
        PROVE  RecallAfter(c, m, 0)
    <3>1. view[c][m] \in {"pending", "failed"}
      BY <1>2, <2>1, <2>4 DEF TypeOK, Entry, Leaves
    <3>2. NewComing(c, m)
      BY <1>2, <2>4, <3>1, Bodied DEF SyncInv, Repaired
    <3>3. ~\E w \in Workers : step[w] = "announce" /\ job[w][2] = m
      BY <2>1, <2>4 DEF Order, Unknown, Fresh
    <3>4. PICK i \in 1 .. Len(ws[c]) : NewAt(ws[c], i, m)
      BY <3>2, <3>3 DEF NewComing
    <3>5. RecallAfter(c, m, i) /\ i \in Nat
      BY <1>2, <2>1, <2>3, <2>4, <3>4 DEF Leaves
    <3>6. QED
      BY <3>5, <2>3, <1>2 DEF RecallAfter, TypeOK
  <2>5. \A d \in Clients, n \in Msgs :
          /\ view'[d][n] # "notice"
          /\ row[n] = "recalled" /\ <<d, n>> \notin astray /\ view'[d][n] \in Texts => RecallAfter(d, n, 0)
    BY <1>2, <1>7, <2>1, <2>4 DEF Leaves
  <2>6. QED
    BY <1>2, <2>1, <2>2, <2>3, <2>5 DEF Leaves, NewAt
<1>8. ASSUME ~loaded', ~overlapped' PROVE Agrees'
  <2>1. Agrees
    BY <1>2, <1>8 DEF SyncInv
  <2>2. \A d \in Clients \ Authors, n \in Msgs : view'[d][n] = view[d][n]
    BY <1>2
  <2>3. \A d \in Clients \ Authors, n \in Msgs :
         
          Live(n)' /\ <<d, n>> \notin astray' => Telling(n)' \/ Carries(ws'[d], n, view'[d][n], row'[n])
    BY <1>2, <2>1, <2>2 DEF Agrees, Live, Telling
  <2>4. QED
    BY <1>2, <2>1, <2>3 DEF Agrees, Live
<1>9. QED
  BY <1>1, <1>3, <1>5, <1>6, <1>7, <1>8 DEF SyncInv

(* An entry that already shows a text is not that of a fresh message.      *)
LEMMA NotFresh ==
  ASSUME TypeOK, SyncInv, ~loaded, NEW c \in Clients, NEW m \in Msgs, NEW w \in Workers, Fresh(w),
         \/ view[c][m] \in Texts
         \/ \E r \in replies : r[3] = m /\ r[2] # "failed"
  PROVE  job[w][2] # m
BY DEF SyncInv, Order, Unknown

LEMMA AnsweredInv ==
  ASSUME TypeOK, SyncInv, NEW c \in Clients, NEW m \in Msgs, NEW t,
         Sent(c, m, t) \/ Failed(c, m, t) \/ Edited(c, m, t) \/ RecallDone(c, m, t)
  PROVE  TypeOK' /\ SyncInv'
<1>1. ASSUME NEW k, NEW x \in Entry, <<c, k, m, t>> \in replies,
             replies' = replies \ {<<c, k, m, t>>},
             UNCHANGED <<row, used, asks, step, job, ws, loads>> /\ UNCHANGED history,
             \/ view' = [view EXCEPT ![c][m] = x]
             \/ view' = view /\ x = view[c][m],
             \/ k \in {"sent", "edited"} /\ x = t /\ view[c][m] # "absent"
             \/ x = "failed" /\ view[c][m] = "pending"
             \/ k = "recalled" /\ x = IF Dm THEN "notice" ELSE "absent"
             \/ x = view[c][m]
      PROVE  TypeOK' /\ SyncInv'
  <2> DEFINE r == <<c, k, m, t>>
  <2>1. r \in replies /\ r[1] = c /\ r[2] = k /\ r[3] = m /\ r[4] = t /\ c \in Authors
    BY <1>1 DEF SyncInv, Facts
  <2> HIDE DEF r
  <2>2. /\ view' \in [Clients -> [Msgs -> Entry]]
        /\ \A d \in Clients, n \in Msgs : view'[d][n] = IF d = c /\ n = m THEN x ELSE view[d][n]
    <3>1. CASE view' = [view EXCEPT ![c][m] = x]
      BY <3>1, Shown
    <3>2. CASE view' = view /\ x = view[c][m]
      BY <3>2 DEF TypeOK
    <3>3. QED
      BY <1>1, <3>1, <3>2
  <2>3. /\ k \in {"sent", "edited"} => t \in Texts /\ row[m] # "none"
        /\ k = "recalled" => row[m] = "recalled" \/ <<c, m>> \in astray
        /\ view[c][m] \in Texts => row[m] # "none"
    BY <2>1 DEF SyncInv, Facts
  <2>4. /\ x \in Texts => row[m] # "none"
        /\ x \in {"pending", "failed"} => view[c][m] \in {"pending", "failed"}
        /\ x \notin Texts /\ view[c][m] \in Texts => row[m] = "recalled" \/ <<c, m>> \in astray
        /\ x = "notice" /\ ~Dm => view[c][m] = "notice"
        /\ x \in Texts => view[c][m] # "absent"
        /\ x \in Texts => view[c][m] \in Texts \/ k # "failed"
    BY <1>1, <2>3, Bodied
  <2>5. x \in Texts /\ ~loaded => \A w \in Workers : Fresh(w) => job[w][2] # m
    BY <2>1, <2>4, NotFresh
  <2>6. replies' = replies \ {r}
    BY <1>1 DEF r
  <2>7. QED
    BY <1>1, <2>1, <2>2, <2>4, <2>5, <2>6, Applied
<1>2. CASE Sent(c, m, t)
  <2>1. t \in Entry
    BY <1>2, Bodied DEF Sent, SyncInv, Facts
  <2>2. view[c][m] \in Entry
    BY DEF TypeOK
  <2>3. CASE view[c][m] # "absent"
    BY <1>1, <1>2, <2>1, <2>3 DEF Sent
  <2>4. CASE view[c][m] = "absent"
    BY <1>1, <1>2, <2>2, <2>4 DEF Sent
  <2>5. QED
    BY <2>3, <2>4
<1>3. CASE Failed(c, m, t)
  <2>1. "failed" \in Entry /\ view[c][m] \in Entry
    BY DEF TypeOK, Entry
  <2>2. CASE view[c][m] = "pending"
    BY <1>1, <1>3, <2>1, <2>2 DEF Failed
  <2>3. CASE view[c][m] # "pending"
    BY <1>1, <1>3, <2>1, <2>3 DEF Failed
  <2>4. QED
    BY <2>2, <2>3
<1>4. CASE Edited(c, m, t)
  <2>1. t \in Entry /\ view[c][m] \in Entry
    <3>1. t \in Texts
      BY <1>4 DEF Edited, SyncInv, Facts
    <3>2. QED
      BY <3>1, Bodied DEF TypeOK
  <2>2. CASE view[c][m] \in Texts
    BY <1>1, <1>4, <2>1, <2>2, Bodied DEF Edited
  <2>3. CASE view[c][m] \notin Texts
    BY <1>1, <1>4, <2>1, <2>3 DEF Edited
  <2>4. QED
    BY <2>2, <2>3
<1>5. CASE RecallDone(c, m, t)
  <2> DEFINE x == IF Dm THEN "notice" ELSE "absent"
  <2>1. x \in Entry /\ view[c][m] \in Entry
    BY DEF TypeOK, Entry
  <2>2. CASE Kept(c, m)
    BY <1>1, <1>5, <2>1, <2>2 DEF RecallDone, Hide
  <2>3. CASE ~Kept(c, m)
    BY <1>1, <1>5, <2>1, <2>3 DEF RecallDone
  <2>4. QED
    BY <2>2, <2>3
<1>6. QED
  BY <1>2, <1>3, <1>4, <1>5

-----------------------------------------------------------------------------
(* A list is asked for and arrives                                         *)

LEMMA LoadInv ==
  ASSUME TypeOK, SyncInv, NEW c \in Clients, Load(c)
  PROVE  TypeOK' /\ SyncInv'
<1> DEFINE f == [m \in Msgs |-> Listed(m)]
<1>1. /\ \A m \in Msgs : Listed(m) \in Entry \ {"pending", "failed"}
      /\ \A m \in Msgs : Listed(m) \in Texts => row[m] # "none"
  BY Bodied DEF Listed, TypeOK, Bodies, Entry
<1>2. f \in [Msgs -> Entry \ {"pending", "failed"}] /\ \A m \in Msgs : f[m] \in Texts => row[m] # "none"
  BY <1>1
<1>3. loads' = loads \cup {<<c, f>>}
  BY DEF Load
<1> HIDE DEF f
<1>4. TypeOK'
  <2>1. loads' \subseteq Clients \X [Msgs -> Entry \ {"pending", "failed"}]
    BY <1>2, <1>3 DEF TypeOK
  <2>2. asks' \in 0 .. MaxAsks
    BY SyncAssumption DEF TypeOK, Load
  <2>3. QED
    BY <2>1, <2>2 DEF TypeOK, Load
<1>5. loaded'
  BY DEF Load
<1>6. Jobs' /\ Repaired'
  BY DEF Load, SyncInv, Jobs, Fresh, Repaired, NewComing, NewAt
<1>7. \A l \in loads' : loaded' /\ \A m \in Msgs : l[2][m] \in Texts => row'[m] # "none"
  BY <1>2, <1>3, <1>5 DEF SyncInv, Facts, Load
<1>8. Facts'
  BY <1>7 DEF SyncInv, Facts, Load
<1>9. QED
  BY <1>4, <1>5, <1>6, <1>8 DEF SyncInv

LEMMA LoadedInv ==
  ASSUME TypeOK, SyncInv, NEW c \in Clients, NEW f, Loaded(c, f)
  PROVE  TypeOK' /\ SyncInv'
<1>1. /\ f \in [Msgs -> Entry \ {"pending", "failed"}]
      /\ loaded /\ \A m \in Msgs : f[m] \in Texts => row[m] # "none"
  BY DEF TypeOK, Loaded, SyncInv, Facts
<1>2. view' \in [Clients -> [Msgs -> Entry]] /\ view'[c] = f /\ \A d \in Clients \ {c} : view'[d] = view[d]
  BY <1>1 DEF Loaded, TypeOK
<1>3. UNCHANGED <<row, used, asks, step, job, ws, replies, overlapped, loaded, astray>> /\ loads' \subseteq loads
  BY DEF Loaded, history
<1>4. TypeOK'
  BY <1>2, <1>3 DEF TypeOK
<1>5. Jobs' /\ \A d \in Clients, m \in Msgs : NewComing(d, m)' <=> NewComing(d, m)
  BY <1>3 DEF SyncInv, Jobs, Fresh, NewComing, NewAt
<1>6. Repaired'
  BY <1>1, <1>2, <1>3, <1>5 DEF SyncInv, Repaired
<1>7. \A d \in Clients, m \in Msgs : view'[d][m] \in Texts => row'[m] # "none"
  BY <1>1, <1>2, <1>3 DEF SyncInv, Facts
<1>8. Facts'
  BY <1>3, <1>7 DEF SyncInv, Facts
<1>9. QED
  BY <1>1, <1>3, <1>4, <1>5, <1>6, <1>8 DEF SyncInv

-----------------------------------------------------------------------------
(* An event arrives                                                        *)

LEMMA IncomingInv ==
  ASSUME TypeOK, SyncInv, NEW c \in Clients, Incoming(c)
  PROVE  TypeOK' /\ SyncInv'
<1> DEFINE e == ws[c][1]  k == e[1]  m == e[2]  t == e[3]  v == view'[c][m]
<1>1. /\ ws' \in [Clients -> Seq(Event)]
      /\ \A d \in Clients \ {c} : ws'[d] = ws[d]
      /\ Head(ws[c]) = e /\ e \in Event
      /\ Len(ws[c]) \in Nat \ {0} /\ Len(ws'[c]) = Len(ws[c]) - 1
      /\ \A i \in 1 .. Len(ws'[c]) : ws'[c][i] = ws[c][i + 1]
  BY Taken DEF Incoming
<1>2. /\ k \in {"new", "updated", "recalled"} /\ m \in Msgs /\ row[m] # "none"
      /\ k = "recalled" => row[m] = "recalled" \/ <<c, m>> \in astray
      /\ k # "recalled" => t \in Texts
  BY <1>1 DEF Event, SyncInv, Facts
<1>3. UNCHANGED <<row, used, asks, step, job, replies, loads, overlapped, loaded, astray>>
  BY DEF Incoming, history
<1>4. \/ k = "new" /\ view' = [view EXCEPT ![c][m] = t]
      \/ k = "updated" /\ view[c][m] \in Texts /\ view' = [view EXCEPT ![c][m] = t]
      \/ k = "recalled" /\ Kept(c, m) /\ view' = [view EXCEPT ![c][m] = IF Dm THEN "notice" ELSE "absent"]
      \/ k = "updated" /\ view[c][m] \notin Texts /\ view' = view
      \/ k = "recalled" /\ ~Kept(c, m) /\ view' = view
  BY <1>1 DEF Incoming, Hide
<1> HIDE DEF e
<1>5. /\ view' \in [Clients -> [Msgs -> Entry]]
      /\ \A d \in Clients, n \in Msgs : d # c \/ n # m => view'[d][n] = view[d][n]
      /\ \/ k = "new" /\ v = t
         \/ k = "updated" /\ view[c][m] \in Texts /\ v = t
         \/ k = "recalled" /\ Kept(c, m) /\ v = IF Dm THEN "notice" ELSE "absent"
         \/ k = "updated" /\ view[c][m] \notin Texts /\ v = view[c][m]
         \/ k = "recalled" /\ ~Kept(c, m) /\ v = view[c][m]
  <2>1. "notice" \in Entry /\ "absent" \in Entry /\ (k # "recalled" => t \in Entry)
    BY <1>2, Bodied DEF Entry
  <2>2. CASE k = "new"
    BY <1>2, <1>4, <2>1, <2>2, Shown
  <2>3. CASE k = "updated"
    <3>1. CASE view[c][m] \in Texts
      BY <1>2, <1>4, <2>1, <2>3, <3>1, Shown
    <3>2. CASE view[c][m] \notin Texts
      BY <1>2, <1>4, <2>3, <3>2 DEF TypeOK
    <3>3. QED
      BY <3>1, <3>2
  <2>4. CASE k = "recalled"
    <3>1. CASE Kept(c, m)
      BY <1>2, <1>4, <2>1, <2>4, <3>1, Shown
    <3>2. CASE ~Kept(c, m)
      BY <1>2, <1>4, <2>4, <3>2 DEF TypeOK
    <3>3. QED
      BY <3>1, <3>2
  <2>5. QED
    BY <1>2, <2>2, <2>3, <2>4
<1>6. TypeOK'
  BY <1>1, <1>3, <1>5 DEF TypeOK
<1>7. /\ \A d \in Clients : \A i \in 1 .. Len(ws'[d]) : \E j \in 1 .. Len(ws[d]) : ws'[d][i] = ws[d][j]
      /\ \A i \in 1 .. Len(ws'[c]) : i + 1 \in 1 .. Len(ws[c]) /\ i \in Nat /\ i + 1 > 1
      /\ \A j \in 1 .. Len(ws[c]) : j = 1 \/ (j - 1 \in 1 .. Len(ws'[c]) /\ ws'[c][j - 1] = ws[c][j] /\ j \in Nat)
  <2>1. \A i \in 1 .. Len(ws'[c]) : i + 1 \in 1 .. Len(ws[c]) /\ i \in Nat /\ i + 1 > 1
    BY <1>1
  <2>2. \A j \in 1 .. Len(ws[c]) : j = 1 \/ (j - 1 \in 1 .. Len(ws'[c]) /\ j \in Nat /\ (j - 1) + 1 = j)
    BY <1>1
  <2>3. QED
    BY <1>1, <2>1, <2>2
<1>8. Jobs'
  BY <1>3 DEF SyncInv, Jobs, Fresh
<1>9. Facts'
  <2>1. \A d \in Clients : \A i \in 1 .. Len(ws'[d]) :
          /\ row'[ws'[d][i][2]] # "none"
          /\ IF ws'[d][i][1] = "recalled"
               THEN row'[ws'[d][i][2]] = "recalled" \/ <<d, ws'[d][i][2]>> \in astray'
               ELSE ws'[d][i][3] \in Texts
    <3>1. SUFFICES ASSUME NEW d \in Clients, NEW i \in 1 .. Len(ws'[d])
                   PROVE  /\ row'[ws'[d][i][2]] # "none"
                          /\ IF ws'[d][i][1] = "recalled"
                               THEN row'[ws'[d][i][2]] = "recalled" \/ <<d, ws'[d][i][2]>> \in astray'
                               ELSE ws'[d][i][3] \in Texts
      OBVIOUS
    <3>2. PICK j \in 1 .. Len(ws[d]) : ws'[d][i] = ws[d][j]
      BY <1>7
    <3>3. QED
      BY <1>3, <3>2 DEF SyncInv, Facts
  <2>2. \A d \in Clients, n \in Msgs : view'[d][n] \in Texts => row'[n] # "none"
    BY <1>2, <1>3, <1>5 DEF SyncInv, Facts
  <2>3. QED
    BY <1>3, <2>1, <2>2 DEF SyncInv, Facts
<1>10. ASSUME NEW d \in Clients, NEW n \in Msgs, NewComing(d, n), d # c \/ n # m \/ k # "new"
       PROVE  NewComing(d, n)'
  <2>1. CASE \E w \in Workers : step[w] = "announce" /\ job[w][2] = n
    BY <1>3, <2>1 DEF NewComing
  <2>2. CASE d # c
    BY <1>1, <1>3, <1>10, <2>2 DEF NewComing, NewAt
  <2>3. ASSUME d = c, NEW j \in 1 .. Len(ws[c]), NewAt(ws[c], j, n) PROVE NewComing(d, n)'
    <3>1. j # 1
      BY <1>10, <2>3 DEF NewAt, e
    <3>2. j - 1 \in 1 .. Len(ws'[c]) /\ NewAt(ws'[c], j - 1, n)
      BY <1>7, <2>3, <3>1 DEF NewAt
    <3>3. QED
      BY <2>3, <3>2 DEF NewComing
  <2>4. QED
    BY <1>10, <2>1, <2>2, <2>3 DEF NewComing
<1>11. Repaired'
  <2>1. SUFFICES ASSUME NEW d \in Clients, NEW n \in Msgs,
                        view'[d][n] \in {"pending", "failed"}, row'[n] # "none",
                        <<d, n>> \notin astray'
                 PROVE  NewComing(d, n)'
    BY DEF Repaired
  <2>2. view[d][n] = view'[d][n] /\ (d # c \/ n # m \/ k # "new")
    BY <1>2, <1>5, <2>1, Bodied
  <2>3. QED
    BY <1>3, <1>10, <2>1, <2>2 DEF SyncInv, Repaired
<1>12. ASSUME ~loaded' PROVE Order' /\ Arrives'
  <2>1. Order /\ Arrives
    BY <1>3, <1>12 DEF SyncInv
  <2>2. ASSUME NEW u \in Workers, Fresh(u)' PROVE Unknown(job[u][2])'
    <3>1. Fresh(u) /\ Unknown(job[u][2]) /\ job[u][2] \in Msgs
      BY <1>3, <2>1, <2>2, Handled DEF Order, Fresh, SyncInv
    <3>2. 1 \in 1 .. Len(ws[c])
      BY <1>1
    <3>3. job[u][2] # m
      BY <3>1, <3>2 DEF Unknown, e
    <3>4. \A d \in Clients : view'[d][job[u][2]] \notin Texts
      BY <1>5, <3>1, <3>3 DEF Unknown
    <3>5. ASSUME NEW d \in Clients, NEW i \in 1 .. Len(ws'[d]) PROVE ws'[d][i][2] # job[u][2]
      <4>1. PICK j \in 1 .. Len(ws[d]) : ws'[d][i] = ws[d][j]
        BY <1>7
      <4>2. QED
        BY <3>1, <4>1 DEF Unknown
    <3>6. QED
      BY <1>3, <3>1, <3>4, <3>5 DEF Unknown, Fresh
  <2>3. NewFirst(ws'[c])
    <3>1. SUFFICES ASSUME NEW i \in 1 .. Len(ws'[c]), NEW j \in 1 .. Len(ws'[c]), j < i, ws'[c][i][1] = "new"
                   PROVE  ws'[c][j][2] # ws'[c][i][2]
      BY DEF NewFirst
    <3>2. j + 1 < i + 1
      BY <1>7, <3>1
    <3>3. QED
      <4>1. ws'[c][i] = ws[c][i + 1] /\ ws'[c][j] = ws[c][j + 1]
        BY <1>1
      <4>2. i + 1 \in 1 .. Len(ws[c]) /\ j + 1 \in 1 .. Len(ws[c])
        BY <1>7
      <4>3. QED
        BY <2>1, <3>1, <3>2, <4>1, <4>2 DEF Order, NewFirst
  <2>4. \A d \in Clients : NewFirst(ws'[d])
    BY <1>1, <2>1, <2>3 DEF Order
  <2>5. Arrives'
    <3>1. SUFFICES ASSUME NEW d \in Clients, NEW n \in Msgs, Live(n)', <<d, n>> \notin astray',
                          view'[d][n] \notin Texts
                   PROVE  NewComing(d, n)'
      BY DEF Arrives
    <3>2. Live(n)
      BY <1>3, <3>1 DEF Live
    <3>3. view[d][n] \notin Texts /\ (d # c \/ n # m \/ k # "new")
      BY <1>2, <1>3, <1>5, <3>1, <3>2, Bodied DEF Live
    <3>4. QED
      BY <1>3, <1>10, <2>1, <3>1, <3>2, <3>3 DEF Arrives
  <2>6. QED
    BY <1>3, <2>2, <2>4, <2>5 DEF Order
<1>13. ASSUME ~loaded', ~Dm PROVE Leaves'
  <2>1. Leaves
    BY <1>3, <1>13 DEF SyncInv
  <2>2. ASSUME NEW d \in Clients, NEW n \in Msgs, NEW i \in Nat,
               RecallAfter(d, n, IF d = c THEN i + 1 ELSE i)
        PROVE  RecallAfter(d, n, i)'
    <3>1. CASE \E w \in Workers : step[w] = "recalled" /\ job[w][2] = n
      BY <1>3, <3>1 DEF RecallAfter
    <3>2. CASE d # c
      BY <1>1, <1>3, <2>2, <3>2 DEF RecallAfter
    <3>3. ASSUME d = c, NEW j \in 1 .. Len(ws[c]), j > i + 1, ws[c][j][1] = "recalled", ws[c][j][2] = n
          PROVE  RecallAfter(d, n, i)'
      <4>1. j # 1 /\ j - 1 > i
        BY <1>1, <3>3
      <4>2. j - 1 \in 1 .. Len(ws'[c]) /\ ws'[c][j - 1] = ws[c][j]
        BY <1>7, <3>3, <4>1
      <4>3. QED
        BY <3>3, <4>1, <4>2 DEF RecallAfter
    <3>4. QED
      BY <2>2, <3>1, <3>2, <3>3 DEF RecallAfter
  <2>3. ASSUME NEW n \in Msgs, RecallAfter(c, n, 0), n # m \/ k # "recalled"
        PROVE  RecallAfter(c, n, 0)'
    <3>1. CASE \E w \in Workers : step[w] = "recalled" /\ job[w][2] = n
      BY <1>3, <3>1 DEF RecallAfter
    <3>2. ASSUME NEW j \in 1 .. Len(ws[c]), ws[c][j][1] = "recalled", ws[c][j][2] = n
          PROVE  RecallAfter(c, n, 0)'
      <4>1. j # 1
        BY <2>3, <3>2 DEF e
      <4>2. j - 1 \in 1 .. Len(ws'[c]) /\ ws'[c][j - 1] = ws[c][j] /\ j - 1 > 0
        BY <1>7, <3>2, <4>1
      <4>3. QED
        BY <3>2, <4>2 DEF RecallAfter
    <3>3. QED
      BY <2>3, <3>1, <3>2 DEF RecallAfter
  <2>4. ASSUME NEW d \in Clients, NEW n \in Msgs, row[n] = "recalled", <<d, n>> \notin astray,
               view'[d][n] \in Texts
        PROVE  RecallAfter(d, n, 0)'
    <3>1. CASE d # c
      BY <1>5, <2>1, <2>2, <2>4, <3>1 DEF Leaves
    <3>2. CASE d = c /\ (n # m \/ k = "updated")
      <4>1. view[d][n] \in Texts
        BY <1>5, <2>4, <3>2
      <4>2. QED
        BY <2>1, <2>3, <2>4, <3>2, <4>1 DEF Leaves
    <3>3. CASE d = c /\ n = m /\ k = "new"
      <4>1. 1 \in 1 .. Len(ws[c]) /\ NewAt(ws[c], 1, m)
        BY <1>1, <3>3 DEF NewAt, e
      <4>2. RecallAfter(c, m, 1)
        BY <1>2, <2>1, <2>4, <3>3, <4>1 DEF Leaves
      <4>3. RecallAfter(d, n, IF d = c THEN 0 + 1 ELSE 0)
        BY <3>3, <4>2
      <4>4. QED
        BY <2>2, <4>3
    <3>4. CASE d = c /\ n = m /\ k = "recalled"
      BY <1>2, <1>5, <1>13, <2>4, <3>4, Bodied DEF Kept
    <3>5. QED
      BY <1>2, <3>1, <3>2, <3>3, <3>4
  <2>5. ASSUME NEW d \in Clients, NEW n \in Msgs, row[n] = "recalled", <<d, n>> \notin astray,
               NEW i \in 1 .. Len(ws'[d]), NewAt(ws'[d], i, n)
        PROVE  RecallAfter(d, n, i)'
    <3>1. CASE d # c
      <4>1. i \in Nat /\ i \in 1 .. Len(ws[d]) /\ NewAt(ws[d], i, n)
        BY <1>1, <2>5, <3>1 DEF NewAt
      <4>2. RecallAfter(d, n, i)
        BY <2>1, <2>5, <4>1 DEF Leaves
      <4>3. QED
        BY <2>2, <3>1, <4>1, <4>2
    <3>2. CASE d = c
      <4>1. i \in Nat /\ i + 1 \in 1 .. Len(ws[c]) /\ NewAt(ws[c], i + 1, n)
        BY <1>1, <1>7, <2>5, <3>2 DEF NewAt
      <4>2. RecallAfter(c, n, i + 1)
        BY <2>1, <2>5, <3>2, <4>1 DEF Leaves
      <4>3. QED
        BY <2>2, <3>2, <4>1, <4>2
    <3>3. QED
      BY <3>1, <3>2
  <2>6. \A d \in Clients, n \in Msgs : view'[d][n] # "notice"
    BY <1>2, <1>5, <1>13, <2>1, Bodied DEF Leaves
  <2>7. QED
    BY <1>3, <2>4, <2>5, <2>6 DEF Leaves
<1>14. ASSUME ~loaded', ~overlapped' PROVE Agrees'
  <2>1. Agrees /\ Order /\ Arrives
    BY <1>3, <1>14 DEF SyncInv
  <2>2. ASSUME NEW d \in Clients \ Authors, NEW n \in Msgs, Live(n), ~Telling(n),
               <<d, n>> \notin astray
        PROVE  Carries(ws'[d], n, view'[d][n], row[n])
    <3>1. Carries(ws[d], n, view[d][n], row[n])
      BY <2>1, <2>2 DEF Agrees
    <3>2. CASE d # c
      BY <1>1, <1>5, <3>1, <3>2
    <3>3. CASE d = c
      <4>1. PICK i \in 0 .. Len(ws[c]) :
              /\ i = 0 => view[c][n] = row[n]
              /\ i # 0 => ws[c][i][2] = n /\ ws[c][i][3] = row[n]
              /\ \A j \in 1 .. Len(ws[c]) : j > i => ws[c][j][2] # n
        BY <3>1, <3>3 DEF Carries
      <4>2. \A j \in 1 .. Len(ws'[c]) : j + 1 \in 1 .. Len(ws[c]) /\ ws'[c][j] = ws[c][j + 1]
        BY <1>1, <1>7
      <4>3. CASE i \in {0, 1}
        <5>1. \A j \in 1 .. Len(ws'[c]) : ws'[c][j][2] # n
          BY <4>1, <4>2, <4>3
        <5>2. view'[c][n] = row[n]
          <6>1. CASE i = 0
            <7>1. 1 \in 1 .. Len(ws[c]) /\ 1 > i
              BY <1>1, <6>1
            <7>2. n # m
              BY <4>1, <7>1 DEF e
            <7>3. QED
              BY <1>5, <4>1, <6>1, <7>2
          <6>2. CASE i = 1
            <7>1. n = m /\ t = row[n]
              BY <4>1, <6>2 DEF e
            <7>2. k # "recalled"
              BY <1>2, <2>2, <3>3, <7>1, Bodied DEF Live
            <7>3. ASSUME k = "updated" PROVE view[c][m] \in Texts
              <8>1. SUFFICES ASSUME NewComing(c, m) PROVE FALSE
                BY <2>1, <2>2, <3>3, <7>1 DEF Arrives
              <8>2. 1 \in 1 .. Len(ws[c]) /\ \A j \in 1 .. Len(ws[c]) : j = 1 \/ 1 < j
                BY <1>1
              <8>3. ASSUME NEW w \in Workers, step[w] = "announce", job[w][2] = m PROVE FALSE
                BY <2>1, <8>2, <8>3 DEF Order, Unknown, Fresh, e
              <8>4. ASSUME NEW j \in 1 .. Len(ws[c]), NewAt(ws[c], j, m) PROVE FALSE
                <9>1. j # 1
                  BY <7>3, <8>4 DEF NewAt, e
                <9>2. QED
                  BY <2>1, <8>2, <8>4, <9>1 DEF Order, NewFirst, NewAt, e
              <8>5. QED
                BY <8>1, <8>3, <8>4 DEF NewComing
            <7>4. QED
              BY <1>2, <1>5, <7>1, <7>2, <7>3
          <6>3. QED
            BY <4>3, <6>1, <6>2
        <5>3. 0 \in 0 .. Len(ws'[c])
          BY <1>1
        <5>4. QED
          BY <3>3, <5>1, <5>2, <5>3 DEF Carries
      <4>4. CASE i \notin {0, 1}
        <5>1. i - 1 \in 0 .. Len(ws'[c]) /\ i - 1 # 0 /\ i - 1 \in 1 .. Len(ws'[c]) /\ (i - 1) + 1 = i
          BY <1>1, <4>1, <4>4
        <5>2. ws'[c][i - 1] = ws[c][i]
          BY <4>2, <5>1
        <5>3. \A j \in 1 .. Len(ws'[c]) : j > i - 1 => j + 1 > i
          BY <4>1
        <5>4. \A j \in 1 .. Len(ws'[c]) : j > i - 1 => ws'[c][j][2] # n
          BY <4>1, <4>2, <5>3
        <5>5. ws'[c][i - 1][2] = n /\ ws'[c][i - 1][3] = row[n]
          BY <4>1, <4>4, <5>2
        <5>6. QED
          BY <3>3, <5>1, <5>4, <5>5 DEF Carries
      <4>5. QED
        BY <4>3, <4>4
    <3>4. QED
      BY <3>2, <3>3
  <2>3. ASSUME NEW d \in Clients \ Authors, NEW n \in Msgs, Live(n)', <<d, n>> \notin astray'
        PROVE  Telling(n)' \/ Carries(ws'[d], n, view'[d][n], row'[n])
    <3>1. Live(n) /\ row'[n] = row[n]
      BY <1>3, <2>3 DEF Live
    <3>2. CASE Telling(n)
      BY <1>3, <3>2 DEF Telling
    <3>3. QED
      BY <1>3, <2>2, <2>3, <3>1, <3>2
  <2>4. QED
    BY <1>3, <2>1, <2>3 DEF Agrees, Live
<1>15. QED
  BY <1>6, <1>8, <1>9, <1>11, <1>12, <1>13, <1>14 DEF SyncInv

-----------------------------------------------------------------------------
(* The specification                                                       *)

LEMMA SyncInit == Init => TypeOK /\ SyncInv
<1> SUFFICES ASSUME Init PROVE TypeOK /\ SyncInv
  OBVIOUS
<1>1. TypeOK
  <2>1. /\ step \in [Workers -> Steps] /\ job \in [Workers -> {NoJob} \cup Request]
        /\ asks \in 0 .. MaxAsks
    BY SyncAssumption DEF Init, Steps
  <2>2. row \in [Msgs -> Bodies \cup {"none"}] /\ ws \in [Clients -> Seq(Event)]
    BY DEF Init
  <2>3. view \in [Clients -> [Msgs -> Entry]]
    BY DEF Init, Entry
  <2>4. QED
    BY <2>1, <2>2, <2>3 DEF Init, TypeOK
<1>2. Jobs /\ Facts /\ Repaired
  BY Bodied DEF Init, Jobs, Facts, Repaired, Fresh
<1>3. Order /\ Arrives /\ Leaves
  BY Bodied DEF Init, Order, Fresh, NewFirst, Arrives, Leaves, Live, NewAt
<1>4. Agrees
  BY Bodied DEF Init, Agrees, Live
<1>5. QED
  BY <1>1, <1>2, <1>3, <1>4 DEF SyncInv

LEMMA ServeInv ==
  ASSUME TypeOK, SyncInv, NEW w \in Workers, Serve(w)
  PROVE  TypeOK' /\ SyncInv'
<1> DEFINE c == job[w][1]  m == job[w][2]  t == job[w][3]
<1>1. step[w] # "idle"
  BY DEF Serve, Insert, Announce, Update, Updated, Recall, Recalled
<1>2. c \in Authors /\ m \in Msgs /\ t \in Bodies
  BY <1>1, Handled DEF SyncInv
<1>3. ASSUME NEW k \in {"sent", "failed", "edited", "recalled"}
      PROVE  LET r == <<c, k, m, t>> IN r \in Answer /\ r[2] = k /\ r[3] = m /\ r[4] = t
  BY <1>2 DEF Answer
<1>4. CASE Insert(w)
  <2>1. CASE row' = [row EXCEPT ![m] = t] /\ step' = [step EXCEPT ![w] = "announce"] /\ UNCHANGED <<job, replies>>
    BY <1>4, <2>1, InsertInv DEF Insert
  <2>2. CASE Reply(c, "failed", m, t) /\ Finish(w) /\ UNCHANGED row
    BY <1>2, <1>3, <1>4, <2>2, RefusedInv DEF Insert, Reply
  <2>3. QED
    BY <1>4, <2>1, <2>2 DEF Insert
<1>5. CASE Announce(w)
  <2>1. PICK k \in {"sent", "failed"} : Reply(c, k, m, t)
    BY <1>5 DEF Announce
  <2>2. QED
    BY <1>3, <1>5, <2>1, Publishes DEF Announce, Reply
<1>6. CASE Update(w)
  <2> DEFINE x == IF row[m] = "recalled" THEN "recalled" ELSE t
  <2>1. x \in Bodies /\ step[w] = "update"
    BY <1>2, <1>6, Bodied DEF Update
  <2>2. CASE Finish(w) /\ UNCHANGED row
    BY <1>3, <1>6, <2>1, <2>2, RefusedInv DEF Update
  <2>3. CASE row' = [row EXCEPT ![m] = IF @ = "recalled" THEN @ ELSE t]
             /\ step' = [step EXCEPT ![w] = "updated"] /\ UNCHANGED job
    <3>1. row' = [row EXCEPT ![m] = x]
      BY <1>2, <2>3 DEF TypeOK
    <3>2. QED
      BY <1>6, <2>1, <2>3, <3>1, UpdateInv DEF Update
  <2>4. QED
    BY <1>6, <2>2, <2>3 DEF Update
<1>7. CASE Recall(w)
  <2>1. CASE row' = [row EXCEPT ![m] = "recalled"] /\ UNCHANGED astray
    BY <1>7, <2>1, UpdateInv, Bodied DEF Recall, history
  <2>2. CASE Astray(Clients, m) /\ UNCHANGED row
    BY <1>7, <2>2, UnstoredInv DEF Recall
  <2>3. QED
    BY <1>7, <2>1, <2>2 DEF Recall
<1>8. CASE Updated(w)
  BY <1>3, <1>8, Publishes DEF Updated, Reply
<1>9. CASE Recalled(w)
  BY <1>3, <1>9, Publishes DEF Recalled, Reply
<1>10. QED
  BY <1>4, <1>5, <1>6, <1>7, <1>8, <1>9 DEF Serve

LEMMA AskInv ==
  ASSUME TypeOK, SyncInv, NEW c \in Authors, NEW w \in Workers, Ask(c, w)
  PROVE  TypeOK' /\ SyncInv'
<1>1. c \in Clients
  BY SyncAssumption
<1>2. ASSUME NEW m \in Msgs, NEW t \in Texts, Send(c, w, m, t) PROVE TypeOK' /\ SyncInv'
  <2>1. /\ view' \in [Clients -> [Msgs -> Entry]]
        /\ \A d \in Clients, n \in Msgs : view'[d][n] = IF d = c /\ n = m THEN "pending" ELSE view[d][n]
    BY <1>1, <1>2, Shown DEF Send, Entry
  <2>2. QED
    BY <1>1, <1>2, <2>1, NewAsked DEF Send
<1>3. ASSUME NEW m \in Msgs, NEW n \in Msgs, NEW t \in Texts, Retry(c, w, m, n, t) PROVE TypeOK' /\ SyncInv'
  <2>1. view' = [view EXCEPT ![c] = [[@ EXCEPT ![m] = "absent"] EXCEPT ![n] = "pending"]]
    BY <1>1, <1>3 DEF Retry, TypeOK
  <2>2. /\ view' \in [Clients -> [Msgs -> Entry]] /\ view'[c][n] = "pending"
        /\ \A d \in Clients, k \in Msgs :
             d # c \/ k # n => view'[d][k] = IF d = c /\ k = m THEN "absent" ELSE view[d][k]
    BY <1>1, <2>1 DEF TypeOK, Entry
  <2>3. QED
    BY <1>1, <1>3, <2>2, NewAsked DEF Retry
<1>4. ASSUME NEW m \in Msgs, NEW t \in Texts, Edit(c, w, m, t) PROVE TypeOK' /\ SyncInv'
  <2>1. asks' \in 0 .. MaxAsks
    BY <1>4, SyncAssumption DEF Edit, TypeOK
  <2>2. QED
    BY <1>4, <2>1, OldAsked, Bodied DEF Edit
<1>5. ASSUME NEW m \in Msgs, AskRecall(c, w, m) PROVE TypeOK' /\ SyncInv'
  <2>1. asks' \in 0 .. MaxAsks
    BY <1>5, SyncAssumption DEF AskRecall, TypeOK
  <2>2. QED
    BY <1>5, <2>1, OldAsked, Bodied DEF AskRecall
<1>6. QED
  BY <1>2, <1>3, <1>4, <1>5 DEF Ask

LEMMA SyncNext == TypeOK /\ SyncInv /\ [Next]_vars => TypeOK' /\ SyncInv'
<1> SUFFICES ASSUME TypeOK, SyncInv, [Next]_vars PROVE TypeOK' /\ SyncInv'
  OBVIOUS
<1>1. CASE UNCHANGED vars
  <2>1. TypeOK'
    BY <1>1 DEF vars, TypeOK
  <2>2. Jobs' /\ Facts' /\ Repaired'
    BY <1>1 DEF vars, SyncInv, Jobs, Facts, Repaired, Fresh, NewComing, NewAt
  <2>3. ASSUME ~loaded' PROVE Order' /\ Arrives'
    BY <1>1, <2>3 DEF
       vars, SyncInv, Order, Unknown, NewFirst, Fresh, Arrives, Live, NewComing,
       NewAt
  <2>4. ASSUME ~loaded', ~Dm PROVE Leaves'
    <3>1. /\ UNCHANGED <<row, step, job, ws, view, loaded, astray>>
          /\ Leaves
      BY <1>1, <2>4 DEF vars, SyncInv
    <3>2. \A d \in Clients, n \in Msgs : \A i : RecallAfter(d, n, i) => RecallAfter(d, n, i)'
      BY <3>1 DEF RecallAfter
    <3>3. QED
      BY <3>1, <3>2 DEF Leaves, NewAt
  <2>5. ASSUME ~loaded', ~overlapped' PROVE Agrees'
    BY <1>1, <2>5 DEF vars, SyncInv, Agrees, Live, Telling
  <2>6. QED
    BY <2>1, <2>2, <2>3, <2>4, <2>5 DEF SyncInv
<1>2. ASSUME NEW w \in Workers, Serve(w) PROVE TypeOK' /\ SyncInv'
  BY <1>2, ServeInv
<1>3. ASSUME NEW w \in Workers, NEW c \in Authors, Ask(c, w) PROVE TypeOK' /\ SyncInv'
  BY <1>3, AskInv
<1>4. ASSUME NEW c \in Clients, Answered(c) PROVE TypeOK' /\ SyncInv'
  BY <1>4, AnsweredInv, LoadedInv DEF Answered
<1>5. ASSUME NEW c \in Clients, Incoming(c) \/ Load(c) PROVE TypeOK' /\ SyncInv'
  BY <1>5, IncomingInv, LoadInv
<1>6. QED
  BY <1>1, <1>2, <1>3, <1>4, <1>5 DEF Next

LEMMA SyncInvariance == Spec => [](TypeOK /\ SyncInv)
BY SyncInit, SyncNext, PTL DEF Spec

(* The variables of MessageSync always have their types.                   *)
THEOREM SyncType == Spec => []TypeOK
BY SyncInvariance, PTL

(* The echo and the events alone make a client show a message that is      *)
(* stored and not recalled, whatever answers and lost answers do to its    *)
(* entry, once all the events of that message have reached the client.     *)
THEOREM EventsSufficeHolds == Spec => []EventsSuffice
<1>1. TypeOK /\ SyncInv => EventsSuffice
  <2> SUFFICES ASSUME TypeOK, SyncInv, Quiet, ~loaded, NEW c \in Clients, NEW m \in Msgs,
                      <<c, m>> \notin astray
               PROVE  /\ Live(m) => view[c][m] \in Texts
                      /\ ~Dm /\ view[c][m] \in Texts => Live(m)
    BY DEF EventsSuffice
  <2>1. ~NewComing(c, m) /\ ~RecallAfter(c, m, 0)
    BY DEF Quiet, NewComing, RecallAfter
  <2>2. Live(m) => view[c][m] \in Texts
    BY <2>1 DEF SyncInv, Arrives
  <2>3. ASSUME ~Dm, view[c][m] \in Texts PROVE Live(m)
    BY <2>1, <2>3 DEF SyncInv, Leaves, Facts, Live, TypeOK, Bodies
  <2>4. QED
    BY <2>2, <2>3
<1>2. QED
  BY <1>1, SyncInvariance, PTL

(* Requests that do not overlap are announced in the order of their        *)
(* statements, so the last event about a message has the stored text, for  *)
(* every client that all events of the message have reached.               *)
THEOREM ReadersAgreeHolds == Spec => []ReadersAgree
<1>1. TypeOK /\ SyncInv => ReadersAgree
  <2> SUFFICES ASSUME TypeOK, SyncInv, Quiet, ~loaded, ~overlapped,
                      NEW c \in Clients \ Authors, NEW m \in Msgs, Live(m), <<c, m>> \notin astray
               PROVE  view[c][m] = row[m]
    BY DEF ReadersAgree
  <2>1. Len(ws[c]) = 0 /\ ~Telling(m)
    BY DEF Quiet, Telling
  <2>2. Carries(ws[c], m, view[c][m], row[m])
    BY <2>1 DEF SyncInv, Agrees
  <2>3. QED
    BY <2>1, <2>2 DEF Carries
<1>2. QED
  BY <1>1, SyncInvariance, PTL

(* An entry that is offered for another attempt was not stored, unless its *)
(* event never reached the client: the event repairs it whenever the       *)
(* answer is lost and whatever lists arrived meanwhile.                    *)
THEOREM FailedIsRepairedHolds == Spec => []FailedIsRepaired
<1>1. TypeOK /\ SyncInv => FailedIsRepaired
  <2> SUFFICES ASSUME TypeOK, SyncInv, Quiet, NEW c \in Clients, NEW m \in Msgs, view[c][m] = "failed",
                      <<c, m>> \notin astray
               PROVE  row[m] = "none"
    BY DEF FailedIsRepaired
  <2>1. ~NewComing(c, m)
    BY DEF Quiet, NewComing
  <2>2. QED
    BY <2>1 DEF SyncInv, Repaired
<1>2. QED
  BY <1>1, SyncInvariance, PTL
=============================================================================
