------------------------------ MODULE LifeCycle -----------------------------
(***************************************************************************)
(* What a MessageHandlingServer promises whoever starts and stops it: each *)
(* epoch goes through one life, stage by stage and never back, and a new   *)
(* epoch begins only when the server of the current one has stopped.  A    *)
(* server need not be waited for before it is started again.               *)
(***************************************************************************)
EXTENDS Naturals

CONSTANTS
    Epoch       \* numbers of the epochs, from 1

VARIABLES
    current,    \* the epoch of the server
    stage       \* Epoch -> the stage of its life

lifeVars == <<current, stage>>

Stage == {"new", "starting", "started", "stopping", "stopped", "waiting", "ended"}

Follows(s) ==
    CASE s = "new"      -> "starting"
      [] s = "starting" -> "started"
      [] s = "started"  -> "stopping"
      [] s = "stopping" -> "stopped"
      [] s = "stopped"  -> "waiting"
      [] s = "waiting"  -> "ended"

LifeInit ==
    /\ current = 1
    /\ stage = [e \in Epoch |-> "new"]

\* A task of an epoch begins or ends, also of one that is over.
Advance(e) ==
    /\ e <= current
    /\ stage[e] # "ended"
    /\ stage' = [stage EXCEPT ![e] = Follows(@)]
    /\ UNCHANGED current

\* The server is started again.
Restart ==
    /\ current + 1 \in Epoch
    /\ stage[current] \in {"stopped", "waiting", "ended"}
    /\ current' = current + 1
    /\ UNCHANGED stage

LifeNext == Restart \/ \E e \in Epoch : Advance(e)

LifeSpec == LifeInit /\ [][LifeNext]_lifeVars
=============================================================================
