------------------------------- MODULE Outbox -------------------------------
(***************************************************************************)
(* What one window shows of the messages it sends: text, files with an     *)
(* upload, voice messages and images that are already on the server        *)
(* (apps/web/src/lib/useChat.ts, apps/mobile/src/context/ChatContext.tsx). *)
(*                                                                         *)
(* A send is a function that shows an entry, waits for its upload, posts   *)
(* the message and turns the entry into what the server stored.  While it  *)
(* waits the user can cancel it, the echo of the message can arrive on the *)
(* WebSocket, and a reload of the history can replace the whole list.  An  *)
(* action is the code between two awaits.  Every send has a client_msg_id  *)
(* of its own, a retry as well: here they are the members of Sends.        *)
(***************************************************************************)
EXTENDS Naturals, FiniteSets

CONSTANTS
  MaxSends,     (* bound: the calls of the send functions                  *)
  MaxLoads      (* bound: reloads of the history                           *)

ASSUME OutboxAssumption == MaxSends \in Nat /\ MaxLoads \in Nat

Sends == 1 .. MaxSends
Kinds == {"text", "media", "voice", "remote"}
Uploading == {"media", "voice"}

VARIABLES
  app,          (* "web" or "mobile"                                       *)
  kind,         (* kind[e]: what e sends, "none" before it is called       *)
  at,           (* at[e]: what the function that sends e waits for         *)
  shown,        (* shown[e]: its entry in the list                         *)
  cancelled,    (* cancelledUploadsRef                                     *)
  aborted,      (* the sends whose AbortController was aborted             *)
  post,         (* post[e]: the request, "sent", or its answer "ok", "bad" *)
  stored,       (* the messages the server has                             *)
  echo,         (* message.new events on their way to this window          *)
  load,         (* the lists that loadMessages has been answered with      *)
  reloads,      (* how often it was called                                 *)
  early,        (* history: cancelled before the message was posted        *)
  late,         (* history: cancelled after that                           *)
  missed,       (* history: its echo fell into a gap of the connection     *)
  stale,        (* history: its entry was settled and a list dropped it    *)
  retried       (* history: the user sent its content again                *)

client == <<app, kind, at, shown, cancelled, aborted>>
server == <<post, stored, echo>>
marks == <<early, late, missed, stale, retried>>
outboxVars == <<client, server, load, reloads, marks>>

OutboxInit ==
  /\ app \in {"web", "mobile"}
  /\ kind = [e \in Sends |-> "none"]
  /\ at = [e \in Sends |-> "idle"]
  /\ shown = [e \in Sends |-> "absent"]
  /\ cancelled = {} /\ aborted = {}
  /\ post = [e \in Sends |-> "none"]
  /\ stored = {} /\ echo = {}
  /\ load = {} /\ reloads = 0
  /\ early = {} /\ late = {} /\ missed = {} /\ stale = {} /\ retried = {}

-----------------------------------------------------------------------------
(* The steps of a send                                                     *)

(* The functions that wait before they show the entry: for the preview of  *)
(* a file on the web, for a module that is loaded on mobile.               *)
Prepares(k) == IF app = "web" THEN k = "media" ELSE k # "voice"

(* The web client lets the entry of a file be drawn before the upload. *)
AfterShow(k) ==
  IF k \notin Uploading THEN "post"
  ELSE IF app = "web" /\ k = "media" THEN "paint" ELSE "upload"

(* The entry appears; a message without an upload is posted at once. *)
ShowAs(e, k) ==
  /\ at' = [at EXCEPT ![e] = AfterShow(k)]
  /\ shown' = [shown EXCEPT ![e] = "pending"]
  /\ post' = [post EXCEPT ![e] = IF k \in Uploading THEN "none" ELSE "sent"]

Call(e, k) ==
  /\ kind[e] = "none"
  /\ \A d \in Sends : d < e => kind[d] # "none"
  /\ kind' = [kind EXCEPT ![e] = k]
  /\ IF Prepares(k) THEN at' = [at EXCEPT ![e] = "prepare"] /\ UNCHANGED post
                    ELSE ShowAs(e, k)

Show(e) ==
  /\ at[e] = "prepare"
  /\ ShowAs(e, kind[e])
  /\ UNCHANGED <<app, kind, cancelled, aborted, stored, echo, load, reloads, marks>>

Stopped(e) == e \in aborted \cup cancelled

Return(e) ==
  /\ at' = [at EXCEPT ![e] = "done"]
  /\ cancelled' = cancelled \ {e}

(* After the drawing, and after the upload: go on, unless it was cancelled. *)
Painted(e) ==
  /\ at[e] = "paint"
  /\ IF Stopped(e)
     THEN Return(e)
     ELSE at' = [at EXCEPT ![e] = "upload"] /\ UNCHANGED cancelled
  /\ UNCHANGED <<app, kind, shown, aborted, server, load, reloads, marks>>

(* Mutant: nobody asks whether the upload was cancelled. *)
UploadedAnyway(e) ==
  /\ at[e] = "upload"
  /\ at' = [at EXCEPT ![e] = "post"]
  /\ post' = [post EXCEPT ![e] = "sent"]
  /\ UNCHANGED <<app, kind, shown, cancelled, aborted, stored, echo, load, reloads, marks>>
Uploaded(e) ==
  /\ at[e] = "upload"
  /\ IF Stopped(e)
     THEN Return(e) /\ UNCHANGED post
     ELSE /\ at' = [at EXCEPT ![e] = "post"]
          /\ post' = [post EXCEPT ![e] = "sent"]
          /\ UNCHANGED cancelled
  /\ UNCHANGED <<app, kind, shown, aborted, stored, echo, load, reloads, marks>>

(* The answer: what the server stored takes the place of the entry, if the *)
(* list still has it.  After a cancel there is nothing to do.              *)
Confirmed(e) ==
  /\ at[e] = "post" /\ post[e] = "ok"
  /\ Return(e)
  /\ shown' = IF e \notin cancelled /\ shown[e] # "absent"
              THEN [shown EXCEPT ![e] = "sent"] ELSE shown
  /\ UNCHANGED <<app, kind, aborted, server, load, reloads, marks>>
(* The upload or the POST failed.  A cancelled entry goes; of the others    *)
(* the one that still has its temporary id is marked, which the echo and a *)
(* reload replace by the server's.  An image that is already on the server *)
(* has no such guard: it is looked for by client_msg_id.                   *)
(* Mutant: every entry is looked for by client_msg_id. *)
MarkAny(e) ==
  IF e \in aborted \cup cancelled THEN "absent"
  ELSE IF shown[e] # "absent" THEN "failed" ELSE "absent"
Mark(e) ==
  IF e \in aborted \cup cancelled THEN "absent"
  ELSE IF shown[e] = "pending" \/ (kind[e] = "remote" /\ shown[e] = "sent") THEN "failed"
  ELSE shown[e]

Rejected(e) ==
  /\ at[e] = "upload" \/ (at[e] = "post" /\ post[e] = "bad")
  /\ shown' = [shown EXCEPT ![e] = Mark(e)]
  /\ Return(e)
  /\ UNCHANGED <<app, kind, aborted, server, load, reloads, marks>>

Posting(e) == Confirmed(e) \/ Rejected(e)
Sending(a, k, e) == app = a /\ kind[e] = k

-----------------------------------------------------------------------------
(* The functions, as the steps they consist of                             *)

Begin(a, k) ==
  \E e \in Sends :
    /\ app = a
    /\ Call(e, k)
    /\ IF Prepares(k) THEN UNCHANGED shown ELSE TRUE
    /\ UNCHANGED <<app, cancelled, aborted, stored, echo, load, reloads, marks>>

webSendMessage ==
  Begin("web", "text") \/ \E e \in Sends : Sending("web", "text", e) /\ Posting(e)
webSendRemoteImage ==
  Begin("web", "remote") \/ \E e \in Sends : Sending("web", "remote", e) /\ Posting(e)
webSendMediaMessage ==
  \/ Begin("web", "media")
  \/ \E e \in Sends :
       /\ Sending("web", "media", e)
       /\ Show(e) \/ Painted(e) \/ Uploaded(e) \/ Posting(e)
webSendVoiceMessage ==
  \/ Begin("web", "voice")
  \/ \E e \in Sends : Sending("web", "voice", e) /\ (Uploaded(e) \/ Posting(e))

mobileSendMessage ==
  \/ Begin("mobile", "text")
  \/ \E e \in Sends : Sending("mobile", "text", e) /\ (Show(e) \/ Posting(e))
mobileSendRemoteImage ==
  \/ Begin("mobile", "remote")
  \/ \E e \in Sends : Sending("mobile", "remote", e) /\ (Show(e) \/ Posting(e))
mobileSendMediaMessage ==
  \/ Begin("mobile", "media")
  \/ \E e \in Sends :
       Sending("mobile", "media", e) /\ (Show(e) \/ Uploaded(e) \/ Posting(e))
mobileSendVoiceMessage ==
  \/ Begin("mobile", "voice")
  \/ \E e \in Sends : Sending("mobile", "voice", e) /\ (Uploaded(e) \/ Posting(e))

(* The entry goes and its content is sent as a new message.  The web client *)
(* has no branch for an image on the server and sends its caption as text. *)
Resend(d, k) ==
  /\ shown[d] = "failed"
  /\ \E e \in Sends :
       /\ Call(e, k)
       /\ shown' = [shown EXCEPT ![d] = "absent",
                                 ![e] = IF Prepares(k) THEN "absent" ELSE "pending"]
  /\ retried' = retried \cup {d}
  /\ UNCHANGED <<app, cancelled, aborted, stored, echo, load, reloads, early, late, missed, stale>>

webRetryMessage(d) ==
  app = "web" /\ Resend(d, IF kind[d] = "remote" THEN "text" ELSE kind[d])
mobileRetryMessage(d) == app = "mobile" /\ Resend(d, kind[d])

(* Offered while the entry is pending and has a progress. *)
Cancel(e) ==
  /\ shown[e] = "pending" /\ kind[e] \in Uploading
  /\ cancelled' = cancelled \cup {e}
  /\ aborted' = aborted \cup {e}
  /\ shown' = [shown EXCEPT ![e] = "absent"]
  /\ IF at[e] = "post" THEN late' = late \cup {e} /\ UNCHANGED early
                       ELSE early' = early \cup {e} /\ UNCHANGED late
  /\ UNCHANGED <<app, kind, at, server, load, reloads, missed, stale, retried>>
webCancelUpload(e) == app = "web" /\ Cancel(e)
mobileCancelUpload(e) == app = "mobile" /\ Cancel(e)

-----------------------------------------------------------------------------
(* The server and the connection                                           *)

Accept(e) ==
  /\ post[e] = "sent"
  /\ post' = [post EXCEPT ![e] = "ok"]
  /\ stored' = stored \cup {e}
  /\ echo' = echo \cup {e}
  /\ UNCHANGED <<client, load, reloads, marks>>

(* The request is refused or lost, or its answer is lost. *)
Lose(e) ==
  /\ post[e] \in {"sent", "ok"} /\ at[e] = "post"
  /\ post' = [post EXCEPT ![e] = "bad"]
  /\ UNCHANGED <<client, stored, echo, load, reloads, marks>>

(* message.new: an entry with this client_msg_id becomes the message, else  *)
(* the message is appended.                                                *)
(* Mutant: only an entry that is there takes the echo. *)
webEchoKnown(e) ==
  /\ app = "web" /\ e \in echo
  /\ echo' = echo \ {e}
  /\ shown' = [shown EXCEPT ![e] = IF @ = "absent" THEN "absent" ELSE "sent"]
  /\ UNCHANGED <<app, kind, at, cancelled, aborted, post, stored, load, reloads, marks>>
webEcho(e) ==
  /\ app = "web" /\ e \in echo
  /\ echo' = echo \ {e}
  /\ shown' = [shown EXCEPT ![e] = "sent"]
  /\ UNCHANGED <<app, kind, at, cancelled, aborted, post, stored, load, reloads, marks>>
mobileEcho(e) ==
  /\ app = "mobile" /\ e \in echo
  /\ echo' = echo \ {e}
  /\ shown' = [shown EXCEPT ![e] = "sent"]
  /\ UNCHANGED <<app, kind, at, cancelled, aborted, post, stored, load, reloads, marks>>

Miss(e) ==
  /\ e \in echo
  /\ echo' = echo \ {e}
  /\ missed' = missed \cup {e}
  /\ UNCHANGED <<client, post, stored, load, reloads, early, late, stale, retried>>

(* The server answers a request for the history ... *)
History ==
  /\ reloads < MaxLoads
  /\ reloads' = reloads + 1
  /\ load' = load \cup {stored}
  /\ UNCHANGED <<client, server, marks>>

(* ... and the answer is the list: entries the server does not know go. *)
Replace(l) ==
  /\ l \in load
  /\ load' = load \ {l}
  /\ shown' = [e \in Sends |-> IF e \in l THEN "sent" ELSE "absent"]
  /\ stale' = stale \cup {e \in Sends : shown[e] \in {"sent", "failed"} /\ e \notin l}
  /\ UNCHANGED <<app, kind, at, cancelled, aborted, server, reloads, early, late, missed, retried>>
webLoadMessages(l) == app = "web" /\ Replace(l)
mobileLoadMessages(l) == app = "mobile" /\ Replace(l)

-----------------------------------------------------------------------------
OutboxNext ==
  \/ webSendMessage \/ webSendRemoteImage \/ webSendMediaMessage \/ webSendVoiceMessage
  \/ mobileSendMessage \/ mobileSendRemoteImage
  \/ mobileSendMediaMessage \/ mobileSendVoiceMessage
  \/ \E e \in Sends :
       \/ webRetryMessage(e) \/ mobileRetryMessage(e)
       \/ webCancelUpload(e) \/ mobileCancelUpload(e)
       \/ Accept(e) \/ Lose(e) \/ webEcho(e) \/ mobileEcho(e) \/ Miss(e)
  \/ History
  \/ \E l \in load : webLoadMessages(l) \/ mobileLoadMessages(l)

OutboxSpec == OutboxInit /\ [][OutboxNext]_outboxVars

-----------------------------------------------------------------------------
(* What the list promises                                                  *)

OutboxTypeOK ==
  /\ app \in {"web", "mobile"}
  /\ kind \in [Sends -> Kinds \cup {"none"}]
  /\ at \in [Sends -> {"idle", "prepare", "paint", "upload", "post", "done"}]
  /\ shown \in [Sends -> {"absent", "pending", "failed", "sent"}]
  /\ post \in [Sends -> {"none", "sent", "ok", "bad"}]
  /\ cancelled \subseteq Sends /\ aborted \subseteq Sends
  /\ stored \subseteq Sends /\ echo \subseteq Sends
  /\ load \subseteq SUBSET Sends
  /\ early \subseteq Sends

Over(e) == at[e] = "done" /\ e \notin echo /\ load = {}

(* An upload that was cancelled before its message was posted is never      *)
(* sent, whatever the upload, the drawing and the history were doing, and  *)
(* its entry does not come back.                                           *)
CancelledIsGone == \A e \in early : e \notin stored /\ shown[e] = "absent"

(* Once everything has arrived, an entry says what became of the message:   *)
(* none is pending, "sent" is on the server, and "failed" is not - unless  *)
(* the answer was lost and the echo was missed too, or the message is an   *)
(* image that was already on the server (its failure overrides its echo).  *)
SettledTruth ==
  \A e \in Sends : Over(e) =>
    /\ shown[e] # "pending"
    /\ shown[e] = "sent" => e \in stored
    /\ shown[e] = "failed" /\ e \in stored => e \in missed \/ kind[e] = "remote"

(* Once everything has arrived, a stored message is in the list, unless its *)
(* sender cancelled it while it was posted, retried it, missed its echo,   *)
(* or applied a list that was older than the message.                      *)
StoredIsShown ==
  \A e \in stored : Over(e) =>
    shown[e] = "sent" \/ e \in late \cup missed \cup stale \cup retried
                     \/ (shown[e] = "failed" /\ kind[e] = "remote")

=============================================================================
