------------------------------ MODULE MCOutbox ------------------------------
(* Two sends, of which the second may be the retry of the first. *)
EXTENDS Outbox
=============================================================================
