------------------------ MODULE MCSubagentLifecycle ------------------------
(* Small instances of SubagentLifecycle.  Launches and calls are            *)
(* interchangeable.                                                         *)
EXTENDS SubagentLifecycle, TLC

MCSymmetry == Permutations(Launches) \cup Permutations(Calls)
=============================================================================
