------------------------------ MODULE MCWSHub ------------------------------
(* Model values for WSHub: two connections.                                *)
EXTENDS WSHub, TLC

CONSTANTS c1, c2, u1, u2, s1, s2, d1

(* Two users on one device each, every connection with its own session.    *)
TwoUsers   == c1 :> u1 @@ c2 :> u2
TwoDevices == c1 :> s1 @@ c2 :> s2

(* The first connection names its device, the second uses an old token.    *)
OneDevice  == c1 :> d1 @@ c2 :> None
=============================================================================
