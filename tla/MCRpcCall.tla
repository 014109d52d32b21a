---- MODULE MCRpcCall ----
(* Small instances of RpcCall for TLC. *)
EXTENDS RpcCall, TLC

CONSTANTS c1, c2, k1, k2

(* Calls are interchangeable: no operator tells one from another. *)
CallSymmetry == Permutations({c1, c2})
====
