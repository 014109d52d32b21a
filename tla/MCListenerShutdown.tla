------------------------- MODULE MCListenerShutdown -------------------------
(* Small instances of ListenerShutdown for TLC. *)
EXTENDS ListenerShutdown

CONSTANTS m1, m2, m3
=============================================================================
