----------------------------- MODULE MCAgentLoop -----------------------------
(* Model values, senders and symmetry for AgentLoop. *)
EXTENDS AgentLoop, TLC

CONSTANTS m1

SenderOf == [m \in Mail |-> IF m = m1 THEN "a" ELSE "b"]
Kinds == {<<TRUE, FALSE>>, <<TRUE, TRUE>>}
Symmetric == Permutations(Callers) \cup Permutations(Texts)
=============================================================================
