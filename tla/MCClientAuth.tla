---------------------------- MODULE MCClientAuth ----------------------------
(* A browser with two tabs, the desktop shell, and a phone. *)
EXTENDS ClientAuth
AllApps == {"web", "desktop", "mobile"}
=============================================================================
