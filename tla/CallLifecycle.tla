--------------------------- MODULE CallLifecycle ---------------------------
(***************************************************************************)
(* What the call API promises about one call, whatever requests, timers    *)
(* and crashes interleave inside the server: a call rings, is connected at *)
(* most once, admits devices only after it was connected (a single device  *)
(* in a direct conversation), and once closed stays closed for the reason  *)
(* that closed it.  CallSession is the server that has to implement this.  *)
(***************************************************************************)
CONSTANTS
  Calls,      (* identifiers of call sessions                              *)
  Guests,     (* who can be admitted: pairs of a user and a device         *)
  IsGroup     (* TRUE for a group conversation, FALSE for a direct one     *)

VARIABLES
  status,     (* status[c]: stage of call c                                *)
  granted     (* granted[c]: guests that were handed a token to join c     *)

Open   == {"ringing", "active"}
Closed == {"ended", "declined", "missed"}
Status == {"none"} \cup Open \cup Closed

Init ==
  /\ status = [c \in Calls |-> "none"]
  /\ granted = [c \in Calls |-> {}]

Ring(c) ==
  /\ status[c] = "none"
  /\ status' = [status EXCEPT ![c] = "ringing"]
  /\ UNCHANGED granted

Connect(c) ==
  /\ status[c] = "ringing"
  /\ status' = [status EXCEPT ![c] = "active"]
  /\ UNCHANGED granted

(* The token may be handed out after the call was closed again: the server *)
(* answers the request that won the call even if somebody hung up since.   *)
Admit(c, g) ==
  /\ status[c] \in {"active", "ended"}
  /\ IsGroup \/ granted[c] \subseteq {g}
  /\ granted' = [granted EXCEPT ![c] = @ \cup {g}]
  /\ UNCHANGED status

(* A call nobody connected is closed as missed or declined; any open call  *)
(* is closed as ended.  One statement may close several calls.             *)
Close(S) ==
  /\ S # {}
  /\ \A c \in S : status[c] \in Open
  /\ \E how \in Closed :
       /\ how = "ended" \/ \A c \in S : status[c] = "ringing"
       /\ status' = [c \in Calls |-> IF c \in S THEN how ELSE status[c]]
  /\ UNCHANGED granted

Next ==
  \/ \E c \in Calls : Ring(c) \/ Connect(c)
  \/ \E c \in Calls, g \in Guests : Admit(c, g)
  \/ \E S \in SUBSET Calls : Close(S)

Spec == Init /\ [][Next]_<<status, granted>>
=============================================================================
