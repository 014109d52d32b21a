-------------------------- MODULE MCProcessLauncher -------------------------
(* Small instances of ProcessLauncher for TLC. *)
EXTENDS ProcessLauncher

CONSTANTS p1, p2, p3
=============================================================================
