-------------------------- MODULE MCConnectionLock --------------------------
(* Small instances of ConnectionLock for TLC. *)
EXTENDS ConnectionLock

CONSTANTS w1, w2, w3
=============================================================================
