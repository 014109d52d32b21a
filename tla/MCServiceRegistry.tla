-------------------------- MODULE MCServiceRegistry -------------------------
(* Small instances of ServiceRegistry for TLC. *)
EXTENDS ServiceRegistry, TLC

CONSTANTS w1, w2, w3

Perms == Permutations(Worker)
=============================================================================
