---------------------------- MODULE MessageTable ----------------------------
(***************************************************************************)
(* The agent_messages table of storage/agent_message_store.py and the SQL  *)
(* statements the store runs against it, each as an operator from a table  *)
(* to a table.  AgentMailbox composes them into whole transactions,        *)
(* AgentMessageStore runs them one statement at a time.                    *)
(*                                                                         *)
(* A body is irrelevant to the protocol and left out.  expects_response    *)
(* and correlation_id are one column, asks: every caller that sets         *)
(* expects_response lets send() generate the id, and none passes an id     *)
(* without it.                                                             *)
(***************************************************************************)
EXTENDS Naturals, FiniteSets

CONSTANTS
  Messages,       \* row ids (uuid4)
  Agents,         \* mailbox addresses: (session id, agent name) pairs
  Correlations,   \* correlation ids that questions and spawns generate
  NoCorrelation,  \* the SQL NULL of correlation_id and in_reply_to
  Stamps,         \* (created_at, id) keys, in the order ORDER BY sorts them
  Cap             \* inbox_cap, 50 in the code

ASSUME MessageTableAssumption ==
  /\ IsFiniteSet(Messages)
  /\ Agents # {}
  /\ Stamps # {} /\ Stamps \subseteq Nat
  /\ NoCorrelation \notin Correlations
  /\ Cap \in Nat \ {0}

Statuses == {"ABSENT", "PENDING", "DELIVERED", "RESPONDED", "EXPIRED"}

MaybeCorrelation == Correlations \cup {NoCorrelation}

Row == [status : Statuses, from : Agents, to : Agents, at : Stamps,
        asks : MaybeCorrelation, inReplyTo : MaybeCorrelation]

Table == [Messages -> Row]

\* The row send() inserts.
NewRow(from, to, at, asks, re) ==
  [status |-> "PENDING", from |-> from, to |-> to, at |-> at,
   asks |-> asks, inReplyTo |-> re]

Present(t) == {m \in Messages : t[m].status # "ABSENT"}

\* Stands for "no row with this id yet"; only its status is ever looked at.
AbsentRow ==
  [status |-> "ABSENT", from |-> CHOOSE a \in Agents : TRUE,
   to |-> CHOOSE a \in Agents : TRUE, at |-> CHOOSE s \in Stamps : TRUE,
   asks |-> NoCorrelation, inReplyTo |-> NoCorrelation]

EmptyTable == [m \in Messages |-> AbsentRow]

-----------------------------------------------------------------------------
(* Queries                                                                 *)

PendingIn(t, a) == {m \in Messages : t[m].status = "PENDING" /\ t[m].to = a}

\* ORDER BY created_at ASC, id ASC LIMIT 1
Oldest(t, S) == CHOOSE m \in S : \A n \in S : t[m].at <= t[n].at

\* inbox(): the oldest inbox_cap pending messages.
Inbox(t, a) ==
  {m \in PendingIn(t, a) :
     Cardinality({n \in PendingIn(t, a) : t[n].at < t[m].at}) < Cap}

\* (Broken variant: only the youngest message of the group.)
YoungestOfGroup(t, a) ==
  LET S == Inbox(t, a)
      group == {m \in S : t[m].from = t[Oldest(t, S)].from}
  IN  {m \in group : \A n \in group : t[n].at <= t[m].at}

\* The group _drain_agent_inbox picks: the messages of the sender whose
\* oldest message is the oldest of the inbox.
OldestGroup(t, a) ==
  LET S == Inbox(t, a)
  IN  {m \in S : t[m].from = t[Oldest(t, S)].from}

RepliesTo(t, a, c) == {m \in PendingIn(t, a) : t[m].inReplyTo = c}

-----------------------------------------------------------------------------
(* Updates                                                                 *)

SetStatus(t, S, s) ==
  [m \in Messages |-> IF m \in S THEN [t[m] EXCEPT !.status = s] ELSE t[m]]

\* (Broken variants: the cap is off by one; the youngest message is dropped.)
EnforceCapLate(t, a) ==
  IF Cardinality(PendingIn(t, a)) <= Cap
    THEN t
    ELSE SetStatus(t, {Oldest(t, PendingIn(t, a))}, "EXPIRED")

EnforceCapYoungest(t, a) ==
  LET S == PendingIn(t, a)
  IN  IF Cardinality(S) < Cap
        THEN t
        ELSE SetStatus(t, {m \in S : \A n \in S : t[n].at <= t[m].at}, "EXPIRED")

\* _enforce_inbox_cap
EnforceCap(t, a) ==
  IF Cardinality(PendingIn(t, a)) < Cap
    THEN t
    ELSE SetStatus(t, {Oldest(t, PendingIn(t, a))}, "EXPIRED")

InsertRow(t, m, row) == [t EXCEPT ![m] = row]

\* (Broken variant: only questions that have been read.)
ReadQuestions(t, c) ==
  {m \in Messages : /\ c # NoCorrelation
                    /\ t[m].asks = c
                    /\ t[m].status = "DELIVERED"}

\* The questions a reply answers: asked under the correlation id c and
\* neither answered nor dropped yet.
OpenQuestions(t, c) ==
  {m \in Messages : /\ c # NoCorrelation
                    /\ t[m].asks = c
                    /\ t[m].status \in {"PENDING", "DELIVERED"}}

FlipAnswered(t, c) == SetStatus(t, OpenQuestions(t, c), "RESPONDED")

\* (Broken variant: without the condition on the status.)
SetDeliveredAlways(t, S) == SetStatus(t, S, "DELIVERED")

\* UPDATE ... SET status = DELIVERED WHERE id IN (S) AND status = PENDING
SetDelivered(t, S) ==
  SetStatus(t, {m \in S : t[m].status = "PENDING"}, "DELIVERED")
=============================================================================
