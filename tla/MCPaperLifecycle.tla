-------------------------- MODULE MCPaperLifecycle --------------------------
(* Instances of PaperLifecycle for TLC.                                    *)
EXTENDS PaperLifecycle, TLC

\* Half of the entry at one level above the arm, a quarter at the next: a runner stays.
RunnerLadder == <<[at |-> 4, num |-> 2], [at |-> 5, num |-> 1]>>
\* Half of the entry above the fixed take-profit.
LateStep == <<[at |-> 5, num |-> 2]>>
=============================================================================
