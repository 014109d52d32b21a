---- MODULE MCOrderedTasks ----
(* Two or three threads that use one server, for TLC. *)
EXTENDS OrderedTasks

CONSTANTS t1, t2, t3

====
