--------------------------- MODULE DrainContract ----------------------------
(***************************************************************************)
(* What stop() and wait() of a server promise about the messages it has    *)
(* received: each is handed to a handler before stop() returns, and is     *)
(* handled before wait() closes the connection; no message is received,    *)
(* handed over or handled twice.                                           *)
(***************************************************************************)

CONSTANTS
    Message     \* messages for the server

VARIABLES
    stage,      \* Message -> "queued", "received", "handed" or "handled"
    phase       \* of the server: "open", "stopped" or "closed"

drainVars == <<stage, phase>>

DrainInit ==
    /\ stage = [m \in Message |-> "queued"]
    /\ phase = "open"

Advance(m, from, to) ==
    /\ stage[m] = from
    /\ stage' = [stage EXCEPT ![m] = to]
    /\ UNCHANGED phase

Receive(m) == phase = "open" /\ Advance(m, "queued", "received")
HandOver(m) == phase = "open" /\ Advance(m, "received", "handed")
Finish(m) == phase # "closed" /\ Advance(m, "handed", "handled")

\* stop() returns.
Stop ==
    /\ phase = "open"
    /\ \A m \in Message : stage[m] # "received"
    /\ phase' = "stopped"
    /\ UNCHANGED stage

\* wait() closes the connection.
Close ==
    /\ phase = "stopped"
    /\ \A m \in Message : stage[m] # "handed"
    /\ phase' = "closed"
    /\ UNCHANGED stage

DrainNext ==
    \/ Stop \/ Close
    \/ \E m \in Message : Receive(m) \/ HandOver(m) \/ Finish(m)

DrainSpec == DrainInit /\ [][DrainNext]_drainVars
=============================================================================
