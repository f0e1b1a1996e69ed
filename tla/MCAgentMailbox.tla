--------------------------- MODULE MCAgentMailbox ---------------------------
(* A small instance of AgentMailbox: three messages, two inboxes of two.     *)
EXTENDS AgentMailbox, TLC

CONSTANTS m1, m2, m3, lead, sub, c1

MCMessages == {m1, m2, m3}
MCStamps == 1 .. 3
MCSymmetry == Permutations(MCMessages)
=============================================================================
