----------------------------- MODULE ClientAuth -----------------------------
(***************************************************************************)
(* How a device keeps its session while refresh tokens rotate: the tabs of *)
(* a browser (apps/web/src/lib/api.ts), the mobile client                  *)
(* (apps/mobile/src/lib/api.ts, AuthContext.tsx), and the desktop shell,   *)
(* whose main process has a copy in a vault                                *)
(* (apps/desktop/src/main: sessionPersistence.js, sessionValidate.js,      *)
(* secureStorage.js).                                                      *)
(*                                                                         *)
(* A refresh token is good once: the server answers with the next, and     *)
(* takes one that was used before for a theft and revokes every session of *)
(* the user (handleRefresh; its steps are in Sessions, here it is one      *)
(* step).  So a device that loses the newest token is signed out by the    *)
(* first use of the one it still has.  Tokens are numbered as they are     *)
(* issued; 0 is no token.  Access tokens expire at any time.               *)
(* The user asked to be remembered: without that a tab keeps its tokens to *)
(* itself and the vault stays empty.  The other devices of the user, whose *)
(* sessions end as well, are not modelled.                                 *)
(***************************************************************************)
EXTENDS Naturals, Sequences, FiniteSets

CONSTANTS
  Apps,         (* the clients that are checked: "web", "desktop", "mobile" *)
  MaxTokens,    (* bound: tokens the server issues                         *)
  MaxFlights,   (* bound: refresh requests                                 *)
  MaxRestarts,  (* bound: reloads of a page and restarts of an application *)
  MaxQueue      (* bound: scripts and messages between page and main when *)
                (* one of them starts another                              *)

ASSUME AuthAssumption ==
  /\ Apps \subseteq {"web", "desktop", "mobile"}
  /\ MaxTokens \in Nat \ {0} /\ MaxFlights \in Nat /\ MaxRestarts \in Nat
  /\ MaxQueue \in Nat \ {0}

Tokens == 1 .. MaxTokens
Flights == 1 .. MaxFlights
Main == 0       (* the main process of the desktop shell                   *)

VARIABLES
  app,          (* which client this is                                    *)
  good,         (* the server: the token that is good, or 0                *)
  issued,       (* the server: how many it has issued                      *)
  page,         (* what api.ts would use: the storage of the browser, that *)
                (* its tabs share, or the memory of the mobile client      *)
  saved,        (* the vault of the shell, the SecureStore of the phone    *)
  flight,       (* flight[f]: a refresh request                            *)
  promise,      (* promise[t]: refreshPromise of tab t, or 0               *)
  caller,       (* caller[t]: whether an api() call waits for it           *)
  writes,       (* mobile: writes to the SecureStore under way             *)
  toMain,       (* desktop: messages from the page to the main process     *)
  toPage,       (* desktop: scripts and answers from main to the page      *)
  starting,     (* desktop: main validates the vault, there is no page;    *)
                (* mobile: the user of the stored token is asked for       *)
  kicked,       (* the tabs that a session.revoked event is on its way to  *)
  restarts,
  out,          (* history: the user was signed out                        *)
  refused,      (* history: the server has refused a token                 *)
  killed,       (* history: a token used twice has ended a live session    *)
  causes        (* history: what may have lost the newest token            *)

server == <<good, issued>>
shell == <<toMain, toPage, starting>>
history == <<out, refused, killed, causes>>
vars == <<app, server, page, saved, flight, promise, caller, writes, shell,
          kicked, restarts, history>>

Tabs == IF app = "web" THEN {1, 2} ELSE {1}
Processes == 0 .. 2
NoFlight == [by |-> 0, tok |-> 0, at |-> "none", new |-> 0]

Init ==
  /\ app \in Apps
  /\ good = 1 /\ issued = 1 /\ page = 1
  /\ saved = IF app = "web" THEN 0 ELSE 1
  /\ flight = [f \in Flights |-> NoFlight]
  /\ promise = [t \in Processes |-> 0]
  /\ caller = [t \in Processes |-> FALSE]
  /\ writes = <<>> /\ toMain = <<>> /\ toPage = <<>>
  /\ starting = FALSE
  /\ kicked = {}
  /\ restarts = 0
  /\ out = FALSE /\ refused = FALSE /\ killed = FALSE /\ causes = {}

At(f, a) == flight[f].at = a
Under(f) == flight[f].at \in {"sent", "ok", "refused", "bad", "failed"}
Move(f, a) == flight' = [flight EXCEPT ![f].at = a]

-----------------------------------------------------------------------------
(* refreshAccess: one request at a time in a process                       *)

(* Of two processes that present the same token, or of a page and the one  *)
(* that was there before its reload, only one can be in time.              *)
Depart(t, tok) ==
  \E f \in Flights :
    /\ At(f, "none")
    /\ \A g \in Flights : g < f => ~At(g, "none")
    /\ flight' = [flight EXCEPT ![f] = [by |-> t, tok |-> tok, at |-> "sent", new |-> 0]]
    /\ promise' = [promise EXCEPT ![t] = f]
    /\ causes' = IF \E g \in Flights : /\ flight[g].tok = tok
                                       /\ At(g, "gone") \/ (Under(g) /\ flight[g].by # t)
                 THEN causes \cup {"two processes"} ELSE causes

(* A call was answered with 401 (isApi), or a socket or an upload wants a  *)
(* token that is not about to expire.                                      *)
Ask(t, isApi) ==
  /\ t \in Tabs /\ (starting => app = "mobile" /\ isApi) /\ page # 0
  /\ caller' = [caller EXCEPT ![t] = @ \/ isApi]
  /\ IF promise[t] = 0 THEN Depart(t, page)
     ELSE ~caller[t] /\ UNCHANGED <<flight, promise, causes>>
  /\ UNCHANGED <<app, server, page, saved, writes, shell, kicked, restarts, out,
                 refused, killed>>

(* handleRefresh with the token that is good ... *)
Rotate(f) ==
  /\ flight[f].at \in {"sent", "gone"} /\ flight[f].tok = good
  /\ issued < MaxTokens
  /\ issued' = issued + 1
  /\ good' = issued + 1
  /\ IF At(f, "sent")
     THEN /\ flight' = [flight EXCEPT ![f].at = "ok", ![f].new = issued + 1]
          /\ UNCHANGED causes
     ELSE Move(f, "done") /\ causes' = causes \cup {"lost"}
  /\ UNCHANGED <<app, page, saved, promise, caller, writes, shell, kicked, restarts,
                 out, refused, killed>>

(* ... and with any other: every session of the user goes. *)
Reuse(f) ==
  /\ flight[f].at \in {"sent", "gone"} /\ flight[f].tok # good
  /\ good' = 0
  /\ killed' = (killed \/ good # 0)
  /\ refused' = (refused \/ At(f, "sent"))
  /\ Move(f, IF At(f, "sent") THEN "refused" ELSE "done")
  /\ UNCHANGED <<app, issued, page, saved, promise, caller, writes, shell, kicked,
                 restarts, out, causes>>

(* The service finds no row, or no account, for a token that is good: its  *)
(* database failed, or the user is banned.  The token stays good.          *)
TurnAway(f) ==
  /\ At(f, "sent") /\ flight[f].tok = good
  /\ Move(f, "refused")
  /\ refused' = TRUE
  /\ causes' = causes \cup {"turned away"}
  /\ UNCHANGED <<app, server, page, saved, promise, caller, writes, shell, kicked,
                 restarts, out, killed>>

(* The request or its answer is lost, or a proxy answers in place of the   *)
(* service.                                                                *)
Blip(f) ==
  /\ flight[f].at \in {"sent", "ok"}
  /\ \E a \in {"failed", "bad"} :
       flight' = [flight EXCEPT ![f].at = a, ![f].new = 0]
  /\ causes' = IF At(f, "ok") THEN causes \cup {"lost"} ELSE causes
  /\ UNCHANGED <<app, server, page, saved, promise, caller, writes, shell, kicked,
                 restarts, out, refused, killed>>

-----------------------------------------------------------------------------
(* The end of a refresh                                                    *)

Tell(m) == toMain' = IF app = "desktop" THEN Append(toMain, m) ELSE toMain
Room == Len(toMain) + Len(toPage) < MaxQueue
Set(n) == [op |-> "set", tok |-> n]
Clear == [op |-> "clear", tok |-> 0]

(* Mutant: the page keeps the token to itself (applyTokensLocal). *)
setTokensHere(n) == page' = n /\ UNCHANGED toMain
setTokens(n) == page' = n /\ Tell(Set(n))
clearToken == page' = 0 /\ Tell(Clear)

Land(f) ==
  /\ promise' = [promise EXCEPT ![flight[f].by] = 0]
  /\ caller' = [caller EXCEPT ![flight[f].by] = FALSE]

(* A page that goes away leaves its requests to the server. *)
Abandon(P) ==
  flight' = [f \in Flights |->
    IF flight[f].by \in P /\ (Under(f) \/ At(f, "saving"))
    THEN [flight[f] EXCEPT !.at = IF @ = "sent" THEN "gone" ELSE "done"] ELSE flight[f]]
LeftBehind(P) ==
  IF \E f \in Flights : flight[f].by \in P /\ At(f, "ok") THEN {"lost"} ELSE {}

(* Mutant: whatever goes wrong, the session is dropped. *)
WebReplyDropsAll(f) ==
  /\ app # "mobile" /\ flight[f].by # Main
  /\ flight[f].at \in {"bad", "failed"} \/ (flight[f].at \in {"ok", "refused"} /\ Room)
  /\ IF At(f, "ok") THEN setTokens(flight[f].new) ELSE clearToken
  /\ Move(f, "done") /\ Land(f)
  /\ UNCHANGED <<app, server, saved, writes, toPage, starting, kicked, restarts, history>>
(* Only 401 and 403 drop the session.  An api() call that is left without  *)
(* a token leaves for the login page: the rest of the page is gone.        *)
WebReply(f) ==
  /\ app # "mobile" /\ flight[f].by # Main
  /\ flight[f].at \in {"bad", "failed"} \/ (flight[f].at \in {"ok", "refused"} /\ Room)
  /\ CASE At(f, "ok") -> setTokens(flight[f].new)
       [] At(f, "refused") -> clearToken
       [] OTHER -> UNCHANGED <<page, toMain>>
  /\ Move(f, "done") /\ Land(f)
  /\ UNCHANGED <<app, server, saved, writes, toPage, starting, kicked, restarts, history>>

(* Every answer but a success drops it, and a lost one does when an api()   *)
(* call waits.  The store follows, one key after the other.                *)
MobileReply(f) ==
  /\ app = "mobile" /\ flight[f].at \in {"ok", "refused", "bad", "failed"}
  /\ IF At(f, "failed") /\ ~caller[1]
     THEN UNCHANGED <<page, writes>> /\ Move(f, "done") /\ Land(f)
     ELSE /\ page' = flight[f].new
          /\ writes' = Append(writes, flight[f].new)
          /\ Move(f, "saving")
          /\ UNCHANGED <<promise, caller>>
  /\ UNCHANGED <<app, server, saved, shell, kicked, restarts, history>>

Write ==
  /\ writes # <<>>
  /\ saved' = Head(writes)
  /\ writes' = Tail(writes)
  /\ IF Len(writes) = 1
     THEN /\ flight' = [f \in Flights |->
               IF At(f, "saving") THEN [flight[f] EXCEPT !.at = "done"] ELSE flight[f]]
          /\ promise' = IF \E f \in Flights : At(f, "saving")
                        THEN [promise EXCEPT ![1] = 0] ELSE promise
          /\ caller' = IF \E f \in Flights : At(f, "saving")
                       THEN [caller EXCEPT ![1] = FALSE] ELSE caller
     ELSE UNCHANGED <<flight, promise, caller>>
  /\ UNCHANGED <<app, server, page, shell, kicked, restarts, history>>

-----------------------------------------------------------------------------
(* Signing in and out                                                      *)

Busy ==
  \/ \E f \in Flights : flight[f].at \in {"sent", "ok", "gone"}
  \/ toPage # <<>> \/ \E i \in 1 .. Len(toMain) : toMain[i].op \in {"snap", "get", "loaded"}

(* What is under way may bring a token back, or use one that is revoked.   *)
Crossing == causes' = IF Busy THEN causes \cup {"crossed"} ELSE causes

(* The POST of a logout: the session of the token in use is revoked. *)
LogoutPost ==
  /\ ~starting /\ page # 0
  /\ good = page /\ good' = 0
  /\ Crossing
  /\ UNCHANGED <<app, issued, page, saved, flight, promise, caller, writes, shell,
                 kicked, restarts, out, refused, killed>>

(* Mutant: the shell is not told. *)
webLogoutHere ==
  /\ app # "mobile" /\ ~starting /\ page # 0 /\ Room
  /\ page' = 0
  /\ out' = TRUE
  /\ Crossing
  /\ UNCHANGED <<app, server, saved, flight, promise, caller, writes, shell,
                 kicked, restarts, refused, killed>>
webLogout ==
  /\ app # "mobile" /\ ~starting /\ page # 0 /\ Room
  /\ clearToken
  /\ out' = TRUE
  /\ Crossing
  /\ UNCHANGED <<app, server, saved, flight, promise, caller, writes, toPage,
                 starting, kicked, restarts, refused, killed>>
mobileSignOut ==
  /\ app = "mobile" /\ page # 0 /\ ~starting
  /\ page' = 0
  /\ writes' = Append(writes, 0)
  /\ out' = TRUE
  /\ Crossing
  /\ UNCHANGED <<app, server, saved, flight, promise, caller, shell, kicked,
                 restarts, refused, killed>>

SignIn ==
  /\ ~starting /\ page = 0 /\ issued < MaxTokens /\ Room
  /\ issued' = issued + 1 /\ good' = issued + 1
  /\ IF app = "mobile"
     THEN page' = issued + 1 /\ writes' = Append(writes, issued + 1) /\ UNCHANGED toMain
     ELSE setTokens(issued + 1) /\ UNCHANGED writes
  /\ out' = FALSE
  /\ Crossing
  /\ UNCHANGED <<app, saved, flight, promise, caller, toPage, starting, kicked,
                 restarts, refused, killed>>

(* Someone else ends the session; every window is told. *)
Revoke ==
  /\ good # 0 /\ kicked = {} /\ ~starting
  /\ good' = 0
  /\ kicked' = Tabs
  /\ UNCHANGED <<app, issued, page, saved, flight, promise, caller, writes, shell,
                 restarts, history>>

(* session.revoked: the web page leaves for the login page. *)
webRevoked(t) ==
  /\ app # "mobile" /\ t \in kicked /\ ~starting /\ Room
  /\ kicked' = kicked \ {t}
  /\ clearToken
  /\ Abandon({t})
  /\ promise' = [promise EXCEPT ![t] = 0] /\ caller' = [caller EXCEPT ![t] = FALSE]
  /\ out' = TRUE
  /\ causes' = causes \cup LeftBehind({t}) \cup (IF Busy THEN {"crossed"} ELSE {})
                      \cup (IF good # 0 THEN {"late kick"} ELSE {})
  /\ UNCHANGED <<app, server, saved, writes, toPage, starting, restarts, refused, killed>>
mobileRevoked ==
  /\ app = "mobile" /\ 1 \in kicked
  /\ kicked' = {}
  /\ page' = 0
  /\ writes' = Append(writes, 0)
  /\ out' = TRUE
  /\ Crossing
  /\ UNCHANGED <<app, server, saved, flight, promise, caller, shell, restarts,
                 refused, killed>>

-----------------------------------------------------------------------------
(* The desktop shell: the vault and the page                               *)

Inject(n) == [op |-> "inject", tok |-> n]
Read == [op |-> "read", tok |-> 0]

(* did-finish-load: inject the vault, then read what the page has.  The     *)
(* same injection on dom-ready, and those of settleRememberedSession for a *)
(* window that starts hidden, are left out.                                *)
Loaded == (IF saved # 0 THEN <<Inject(saved)>> ELSE <<>>) \o <<Read>>

(* did-navigate-in-page and close: syncFromPage. *)
Sync ==
  /\ app = "desktop" /\ ~starting /\ Room
  /\ toPage' = Append(toPage, Read)
  /\ UNCHANGED <<app, server, page, saved, flight, promise, caller, writes, toMain,
                 starting, kicked, restarts, history>>

(* restoreDesktopSession: a page without a token asks for the vault's. *)
Restore ==
  /\ app = "desktop" /\ ~starting /\ page = 0 /\ Room
  /\ Tell([op |-> "get", tok |-> 0])
  /\ UNCHANGED <<app, server, page, saved, flight, promise, caller, writes, toPage,
                 starting, kicked, restarts, history>>

(* A script runs in the page; the answer to restoreDesktopSession arrives. *)
RunScript ==
  /\ toPage # <<>>
  /\ toPage' = Tail(toPage)
  /\ LET s == Head(toPage) IN
     /\ page' = IF s.op \in {"inject", "give"} /\ s.tok # 0 THEN s.tok ELSE page
     /\ toMain' = IF s.op = "read" THEN Append(toMain, [op |-> "snap", tok |-> page])
                                   ELSE toMain
     /\ causes' = IF s.op \in {"inject", "give"} /\ s.tok \notin {0, page}
                     /\ (page # 0 \/ s.tok # good)
                  THEN causes \cup {"overwritten"} ELSE causes
  /\ UNCHANGED <<app, server, saved, flight, promise, caller, writes, starting,
                 kicked, restarts, out, refused, killed>>

(* The main process gets a message.  A snapshot with a token is stored; one *)
(* without clears the vault, unless the vault was injected a moment ago.   *)
(* A page that is to be remembered and has no token would be injected      *)
(* again: there is none, clearToken removes the flag with the tokens.      *)
Handle ==
  /\ toMain # <<>>
  /\ toMain' = Tail(toMain)
  /\ LET m == Head(toMain) IN
     \/ /\ m.op \in {"set", "clear"} \/ (m.op = "snap" /\ m.tok # 0)
        /\ saved' = m.tok /\ UNCHANGED toPage
     \/ /\ m.op = "snap" /\ m.tok = 0
        /\ saved' \in {0, saved} /\ UNCHANGED toPage
     \/ /\ m.op = "get"
        /\ toPage' = Append(toPage, [op |-> "give", tok |-> saved]) /\ UNCHANGED saved
     \/ m.op = "loaded" /\ toPage' = toPage \o Loaded /\ UNCHANGED saved
  /\ UNCHANGED <<app, server, page, flight, promise, caller, writes, starting,
                 kicked, restarts, history>>

-----------------------------------------------------------------------------
(* Reloads and restarts                                                    *)

Again == restarts < MaxRestarts /\ restarts' = restarts + 1

(* A tab is reloaded, or leaves for the login page: its requests are left  *)
(* behind, and the main process hears when it has loaded.                  *)
Reload(t) ==
  /\ app # "mobile" /\ t \in Tabs /\ ~starting /\ Again /\ Room
  /\ Abandon({t})
  /\ promise' = [promise EXCEPT ![t] = 0] /\ caller' = [caller EXCEPT ![t] = FALSE]
  /\ causes' = causes \cup LeftBehind({t})
  /\ Tell([op |-> "loaded", tok |-> 0])
  /\ UNCHANGED <<app, server, page, saved, writes, toPage, starting, kicked, out,
                 refused, killed>>

(* The application ends; what is on its way is lost.  With nothing in the   *)
(* vault the next page opens at once, and is read when it has loaded.      *)
Quit ==
  /\ app # "web" /\ (starting => app = "mobile") /\ Again
  /\ Abandon(Processes)
  /\ promise' = [t \in Processes |-> 0] /\ caller' = [t \in Processes |-> FALSE]
  /\ causes' = causes \cup LeftBehind(Processes)
       \cup (IF toMain # <<>> \/ writes # <<>> THEN {"crash"} ELSE {})
  /\ toMain' = <<>> /\ writes' = <<>>
  /\ toPage' = IF app = "desktop" /\ saved = 0 THEN Loaded ELSE <<>>
  /\ starting' = (saved # 0)
  /\ page' = IF app = "mobile" THEN saved ELSE page
  /\ kicked' = {}
  /\ UNCHANGED <<app, server, saved, out, refused, killed>>

(* The mobile client has asked for its user: it is ready, or, whatever has *)
(* gone wrong, it forgets the tokens.                                      *)
Ready ==
  /\ app = "mobile" /\ starting /\ promise[1] = 0
  /\ starting' = FALSE
  /\ \/ page # 0 /\ UNCHANGED <<page, writes>>
     \/ page' = 0 /\ writes' = Append(writes, 0)
  /\ UNCHANGED <<app, server, saved, flight, promise, caller, toMain, toPage, kicked,
                 restarts, history>>

(* Mutant: the page is given the token when it has loaded. *)
BootLater(n) ==
  /\ toPage' = (IF n # 0 THEN <<Inject(n)>> ELSE <<>>) \o <<Read>>
  /\ starting' = FALSE
  /\ UNCHANGED <<page, causes>>
(* The page is created.  A script at the start of the document gives it the *)
(* vault's token before it can use its own; the debugger may refuse it.    *)
Boot(n) ==
  /\ toPage' = (IF n # 0 THEN <<Inject(n)>> ELSE <<>>) \o <<Read>>
  /\ starting' = FALSE
  /\ \/ page' = (IF n # 0 THEN n ELSE page) /\ UNCHANGED causes
     \/ n # 0 /\ UNCHANGED page /\ causes' = causes \cup {"no bootstrap"}

(* ensureVaultSessionFresh: the token still works, or it is exchanged. *)
Probe ==
  /\ app = "desktop" /\ starting /\ promise[Main] = 0
  /\ Boot(saved)
  /\ UNCHANGED <<app, server, saved, flight, promise, caller, writes, toMain, kicked,
                 restarts, out, refused, killed>>
Exchange ==
  /\ app = "desktop" /\ starting /\ promise[Main] = 0
  /\ Depart(Main, saved)
  /\ UNCHANGED <<app, server, page, saved, caller, writes, shell, kicked, restarts,
                 out, refused, killed>>
(* Any answer but a success clears the vault; a lost one keeps it. *)
MainReply(f) ==
  /\ flight[f].by = Main /\ flight[f].at \in {"ok", "refused", "bad", "failed"}
  /\ saved' = IF At(f, "failed") THEN saved ELSE flight[f].new
  /\ Boot(IF At(f, "failed") THEN saved ELSE flight[f].new)
  /\ Move(f, "done") /\ Land(f)
  /\ UNCHANGED <<app, server, writes, toMain, kicked, restarts, out, refused, killed>>

-----------------------------------------------------------------------------
Next ==
  \/ \E t \in Tabs :
       \/ \E isApi \in BOOLEAN : Ask(t, isApi)
       \/ webRevoked(t) \/ Reload(t)
  \/ \E f \in Flights :
       \/ Rotate(f) \/ Reuse(f) \/ TurnAway(f) \/ Blip(f)
       \/ WebReply(f) \/ MobileReply(f) \/ MainReply(f)
  \/ Write \/ LogoutPost \/ webLogout \/ mobileSignOut \/ SignIn
  \/ Revoke \/ mobileRevoked
  \/ Sync \/ Restore \/ RunScript \/ Handle
  \/ Quit \/ Ready \/ Probe \/ Exchange

Spec == Init /\ [][Next]_vars

-----------------------------------------------------------------------------
(* What a device promises                                                  *)

Held == 0 .. MaxTokens
Stages == {"none", "sent", "gone", "ok", "refused", "bad", "failed", "saving", "done"}
FlightType == [by : Processes, tok : Held, new : Held, at : Stages]
Message == [op : {"set", "snap"}, tok : Held] \cup [op : {"clear", "get", "loaded"}, tok : {0}]
Script == [op : {"inject", "give"}, tok : Held] \cup [op : {"read"}, tok : {0}]
Causes == {"two processes", "lost", "turned away", "crossed", "late kick",
           "overwritten", "crash", "no bootstrap"}

TypeOK ==
  /\ app \in {"web", "desktop", "mobile"}
  /\ good \in Held /\ issued \in Held /\ page \in Held /\ saved \in Held
  /\ flight \in [Flights -> FlightType]
  /\ promise \in [Processes -> 0 .. MaxFlights]
  /\ caller \in [Processes -> BOOLEAN]
  /\ writes \in Seq(Held) /\ toMain \in Seq(Message) /\ toPage \in Seq(Script)
  /\ starting \in BOOLEAN /\ kicked \subseteq Tabs /\ restarts \in 0 .. MaxRestarts
  /\ out \in BOOLEAN /\ refused \in BOOLEAN /\ killed \in BOOLEAN
  /\ causes \subseteq Causes

Quiet ==
  /\ \A f \in Flights : flight[f].at \in {"none", "done"}
  /\ toMain = <<>> /\ toPage = <<>> /\ writes = <<>> /\ ~starting

(* With nothing under way, the token a device has is the newest, in the     *)
(* copy that survives it as well, unless one of the named things happened. *)
InStep ==
  Quiet /\ good # 0 /\ causes = {} =>
    page \in {0, good} /\ (app # "web" => saved = page)

(* Only they make a device present a token a second time and so end a      *)
(* session that was alive.                                                 *)
ReuseHasCause == killed => causes # {}

(* A browser or a shell that lost its token without a sign-out was answered *)
(* 401 or 403 by the server, be it for a failure of its own: no failure of *)
(* the network and no proxy signs a user out.                              *)
KeepsThroughBlip == app # "mobile" /\ page = 0 /\ ~out => refused

(* A sign-out lasts: no tab, no store and no vault brings the session back, *)
(* unless a refresh or a copy of a token was under way when it came, or    *)
(* the application ended before the copy was cleared.                      *)
SignedOutStaysOut ==
  out /\ causes \cap {"crossed", "crash"} = {} =>
    page = 0 /\ (Quiet => saved = 0)

=============================================================================
