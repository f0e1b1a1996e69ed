------------------------ MODULE MCAgentMessageStore ------------------------
(* Small instances of AgentMessageStore.  The lead's process runs the agent *)
(* loop and, when Shared, also the reaper on the same connection; the       *)
(* sub-agent's process runs its loop; the scheduler's process only sends.   *)
EXTENDS AgentMessageStore, TLC

CONSTANTS leadLoop, reaper, subLoop, scheduler, leadConn, subConn, uiConn,
          lead, sub, ui, Stamp

MCStamps == 1 .. Stamp

MCConnOf == [k \in Coroutines |->
  CASE k \in {leadLoop, reaper} -> leadConn
    [] k = subLoop -> subConn
    [] k = scheduler -> uiConn]

MCAddressOf == [k \in Coroutines |->
  CASE k = leadLoop -> lead
    [] k \in {reaper, subLoop} -> sub
    [] k = scheduler -> ui]
\* Row ids are interchangeable: the rows are ordered by their stamps.
MCSymmetry == Permutations(Messages)
=============================================================================
