----------------------------- MODULE MCSession -----------------------------
(* Small instances of Session for TLC; the .cfg files give the constants. *)
EXTENDS Session
============================================================================
