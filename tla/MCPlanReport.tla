---- MODULE MCPlanReport ----
(* Small plans for TLC: p1 and p2 form a parallel group, q1 a group of another case. *)
EXTENDS PlanReport, TLC

CONSTANTS p1, p2, q1, gP, gQ, caseA, caseB

TwoGroupOf == (p1 :> gP) @@ (p2 :> gP) @@ (q1 :> gQ)
TwoCaseOf == (gP :> caseA) @@ (gQ :> caseB)
NoPrereq == (gP :> {}) @@ (gQ :> {})
PBeforeQ == (gP :> {}) @@ (gQ :> {gP})

OneGroupOf == (p1 :> gP) @@ (p2 :> gP)
OneCaseOf == gP :> caseA
OnePrereq == gP :> {}
====
