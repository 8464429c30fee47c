----------------------------- MODULE MCListener -----------------------------
(* Small instances of Listener for TLC; the .cfg files give the constants. *)
EXTENDS Listener
=============================================================================
