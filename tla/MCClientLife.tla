---------------------------- MODULE MCClientLife ----------------------------
(* ClientLife has no constants: this is the whole state space. *)
EXTENDS ClientLife
=============================================================================
