---------------------------- MODULE AgentMailbox ----------------------------
(***************************************************************************)
(* What the mailbox of storage/agent_message_store.py promises its users:  *)
(* every send, claim_reply and mark_delivered takes effect as one atomic   *)
(* transaction.  The reader is BaseAgent._drain_agent_inbox                *)
(* (core/agent/base.py): it reads one sender group, persists it as a USER  *)
(* row and marks it delivered, in three separate steps between which other *)
(* processes write, and a kill or a cancelled run can stop it.             *)
(* AgentMessageStore refines this module.                                  *)
(***************************************************************************)
EXTENDS MessageTable

VARIABLES
  table,   \* the committed agent_messages table
  drain,   \* drain[a]: where the reader of inbox a is in its drain
  inHand,  \* inHand[a]: the group the reader of inbox a has selected
  handed   \* messages given to their recipient (history)

vars == <<table, drain, inHand, handed>>

DrainStages == {"idle", "selected", "persisted"}

TypeOK ==
  /\ table \in Table
  /\ drain \in [Agents -> DrainStages]
  /\ inHand \in [Agents -> SUBSET Messages]
  /\ handed \in SUBSET Messages

Init ==
  /\ table = EmptyTable
  /\ drain = [a \in Agents |-> "idle"]
  /\ inHand = [a \in Agents |-> {}]
  /\ handed = {}

\* send() draws the correlation id of a question fresh from uuid4().
FreshCorrelation(c) ==
  \A m \in Present(table) : c \notin {table[m].asks, table[m].inReplyTo}

UnusedStamp(s) == \A m \in Present(table) : table[m].at # s

\* send(): one transaction around the cap, the insert and the reply flip.
Send(m, from, to, asks, re, at) ==
  /\ table[m].status = "ABSENT"
  /\ UnusedStamp(at)
  /\ asks # NoCorrelation => asks # re /\ FreshCorrelation(asks)
  /\ LET inserted == InsertRow(EnforceCap(table, to), m,
                               NewRow(from, to, at, asks, re))
     IN  table' = FlipAnswered(inserted, re)
  /\ UNCHANGED <<drain, inHand, handed>>

\* claim_reply(): the poll of request_input takes the oldest answer.  The
\* agent's own loop is suspended in that tool call, so it is not draining.
ClaimReply(a, c) ==
  LET replies == RepliesTo(table, a, c)
  IN  /\ drain[a] = "idle"
      /\ c # NoCorrelation
      /\ replies # {}
      /\ table' = SetDelivered(table, {Oldest(table, replies)})
      /\ handed' = handed \cup {Oldest(table, replies)}
      /\ UNCHANGED <<drain, inHand>>

\* inbox() and the choice of the oldest-waiting sender group.
SelectGroup(a) ==
  /\ drain[a] = "idle"
  /\ PendingIn(table, a) # {}
  /\ drain' = [drain EXCEPT ![a] = "selected"]
  /\ inHand' = [inHand EXCEPT ![a] = OldestGroup(table, a)]
  /\ UNCHANGED <<table, handed>>

\* The group becomes one USER row of the recipient's session.
PersistGroup(a) ==
  /\ drain[a] = "selected"
  /\ drain' = [drain EXCEPT ![a] = "persisted"]
  /\ handed' = handed \cup inHand[a]
  /\ UNCHANGED <<table, inHand>>

\* (Broken variant: whatever is in the inbox by now is acknowledged.)
MarkInboxDelivered(a) ==
  /\ drain[a] = "persisted"
  /\ table' = SetDelivered(table, PendingIn(table, a))
  /\ drain' = [drain EXCEPT ![a] = "idle"]
  /\ inHand' = [inHand EXCEPT ![a] = {}]
  /\ UNCHANGED handed

\* mark_delivered(): rows no longer pending keep the status they have.
MarkDelivered(a) ==
  /\ drain[a] = "persisted"
  /\ table' = SetDelivered(table, inHand[a])
  /\ drain' = [drain EXCEPT ![a] = "idle"]
  /\ inHand' = [inHand EXCEPT ![a] = {}]
  /\ UNCHANGED handed

\* The drain ends early: the process dies, the run is cancelled, or a store
\* call raises and _drain_agent_inbox swallows it.
AbandonDrain(a) ==
  /\ drain[a] # "idle"
  /\ drain' = [drain EXCEPT ![a] = "idle"]
  /\ inHand' = [inHand EXCEPT ![a] = {}]
  /\ UNCHANGED <<table, handed>>

Next ==
  \/ \E m \in Messages, from, to \in Agents, asks, re \in MaybeCorrelation,
        at \in Stamps : Send(m, from, to, asks, re, at)
  \/ \E a \in Agents :
       \/ \E c \in Correlations : ClaimReply(a, c)
       \/ SelectGroup(a)
       \/ PersistGroup(a)
       \/ MarkDelivered(a)
       \/ AbandonDrain(a)

Spec == Init /\ [][Next]_vars

-----------------------------------------------------------------------------
(* Properties                                                              *)

\* No inbox ever holds more than inbox_cap pending messages, whoever writes
\* to it (the FIFO bound of the module's docstring).
PendingBounded == \A a \in Agents : Cardinality(PendingIn(table, a)) <= Cap

\* A message leaves the pending state as DELIVERED only after its recipient
\* got it: a reader that stops between reading and marking loses nothing.
DeliveredWasHanded ==
  \A m \in Messages : table[m].status = "DELIVERED" => m \in handed

\* Once a reply to a question is in the table the question is closed, even
\* if its recipient was about to mark it delivered: it is RESPONDED, or it
\* had been dropped from a full inbox.
AnsweredIsClosed ==
  \A q, m \in Present(table) :
    table[q].asks # NoCorrelation /\ table[m].inReplyTo = table[q].asks
      => table[q].status \in {"RESPONDED", "EXPIRED"}

\* A status only moves forward: an acknowledged message is never pending
\* again, and an answered or dropped one never changes.
StatusMovesForward ==
  [][\A m \in Messages :
       \/ table'[m].status = table[m].status
       \/ table[m].status = "ABSENT" /\ table'[m].status = "PENDING"
       \/ table[m].status = "PENDING" /\ table'[m].status # "ABSENT"
       \/ table[m].status = "DELIVERED" /\ table'[m].status = "RESPONDED"]_vars

\* A message is dropped only from a full inbox, and only when every other
\* pending message of that inbox is younger.
DropsOldestOfFull ==
  [][\A m \in Messages :
       table[m].status # "EXPIRED" /\ table'[m].status = "EXPIRED" =>
         LET S == PendingIn(table, table[m].to)
         IN  /\ m \in S
             /\ Cardinality(S) >= Cap
             /\ \A n \in S : table[m].at <= table[n].at]_vars
=============================================================================
