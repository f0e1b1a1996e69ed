------------------------- MODULE AgentMailboxProofs -------------------------
(***************************************************************************)
(* Proofs about AgentMailbox, for any number of messages, inboxes and      *)
(* correlation ids and any inbox cap.                                      *)
(***************************************************************************)
EXTENDS AgentMailbox, FiniteSetTheorems, WellFoundedInduction, TLAPS

-----------------------------------------------------------------------------
(* The table: what its queries and updates return and keep                 *)

\* A set of naturals that is not empty has a least element.
LEMMA LeastNatural ==
  ASSUME NEW T \in SUBSET Nat, T # {}
  PROVE  \E x \in T : \A y \in T : x <= y
<1> DEFINE Less == {ss \in Nat \X Nat : ss[1] < ss[2]}
<1>1. IsWellFoundedOn(Less, Nat)
  BY NatLessThanWellFounded DEF OpToRel
<1>2. PICK x \in T : \A y \in T : <<y, x>> \notin Less
  BY <1>1, WFMin
<1>3. ASSUME NEW y \in T PROVE x <= y
  <2>1. ~ (y < x)
    BY <1>2, <1>3
  <2>2. QED
    BY <2>1
<1>4. QED
  BY <1>3

\* ORDER BY ... LIMIT 1 returns a row of the set it selects from, and no row
\* of the set is older.
LEMMA OldestIsLeast ==
  ASSUME NEW t \in Table, NEW S \in SUBSET Messages, S # {}
  PROVE  /\ Oldest(t, S) \in S
         /\ \A n \in S : t[Oldest(t, S)].at <= t[n].at
<1> DEFINE T == {t[m].at : m \in S}
<1>1. T \in SUBSET Nat /\ T # {}
  <2>1. \A m \in S : t[m].at \in Nat
    BY MessageTableAssumption DEF Table, Row
  <2>2. QED
    BY <2>1
<1>2. PICK x \in T : \A y \in T : x <= y
  BY <1>1, LeastNatural
<1>3. PICK m \in S : x = t[m].at
  OBVIOUS
<1>4. \A n \in S : t[m].at <= t[n].at
  BY <1>2, <1>3
<1>5. QED
  BY <1>3, <1>4 DEF Oldest

\* The row that stands for "absent" is a row.
LEMMA EmptyTableType ==
  /\ EmptyTable \in Table
  /\ \A m \in Messages : EmptyTable[m].status = "ABSENT"
BY MessageTableAssumption
   DEF EmptyTable, AbsentRow, Table, Row, Statuses, MaybeCorrelation

\* Changing a status keeps the table a table and touches nothing else.
LEMMA SetStatusType ==
  ASSUME NEW t \in Table, NEW S \in SUBSET Messages, NEW s \in Statuses
  PROVE  /\ SetStatus(t, S, s) \in Table
         /\ \A m \in Messages :
              /\ SetStatus(t, S, s)[m].status = IF m \in S THEN s ELSE t[m].status
              /\ SetStatus(t, S, s)[m].from = t[m].from
              /\ SetStatus(t, S, s)[m].to = t[m].to
              /\ SetStatus(t, S, s)[m].at = t[m].at
              /\ SetStatus(t, S, s)[m].asks = t[m].asks
              /\ SetStatus(t, S, s)[m].inReplyTo = t[m].inReplyTo
BY DEF SetStatus, Table, Row

\* The pending messages of an inbox can be counted.
LEMMA PendingFinite ==
  ASSUME NEW t, NEW a
  PROVE  /\ PendingIn(t, a) \in SUBSET Messages
         /\ IsFiniteSet(PendingIn(t, a))
         /\ Cardinality(PendingIn(t, a)) \in Nat
<1>1. PendingIn(t, a) \in SUBSET Messages
  BY DEF PendingIn
<1>2. IsFiniteSet(PendingIn(t, a))
  BY <1>1, MessageTableAssumption, FS_Subset
<1>3. QED
  BY <1>1, <1>2, FS_CardinalityType

\* A status other than PENDING, given to any rows, adds nothing to an inbox.
LEMMA ClosingShrinksInbox ==
  ASSUME NEW t \in Table, NEW S \in SUBSET Messages,
         NEW s \in Statuses \ {"PENDING"}, NEW a
  PROVE  /\ PendingIn(SetStatus(t, S, s), a) \subseteq PendingIn(t, a)
         /\ Cardinality(PendingIn(SetStatus(t, S, s), a))
              <= Cardinality(PendingIn(t, a))
<1>1. PendingIn(SetStatus(t, S, s), a) \subseteq PendingIn(t, a)
  BY SetStatusType DEF PendingIn
<1>2. QED
  BY <1>1, PendingFinite, FS_Subset

\* What _enforce_inbox_cap may do to a row: nothing, or drop it if pending.
LEMMA EnforceCapEffect ==
  ASSUME NEW t \in Table, NEW a \in Agents
  PROVE  /\ EnforceCap(t, a) \in Table
         /\ \A m \in Messages :
              /\ \/ EnforceCap(t, a)[m].status = t[m].status
                 \/ /\ t[m].status = "PENDING"
                    /\ EnforceCap(t, a)[m].status = "EXPIRED"
              /\ EnforceCap(t, a)[m].from = t[m].from
              /\ EnforceCap(t, a)[m].to = t[m].to
              /\ EnforceCap(t, a)[m].at = t[m].at
              /\ EnforceCap(t, a)[m].asks = t[m].asks
              /\ EnforceCap(t, a)[m].inReplyTo = t[m].inReplyTo
         /\ Cardinality(PendingIn(t, a)) >= Cap =>
              /\ Oldest(t, PendingIn(t, a)) \in PendingIn(t, a)
              /\ PendingIn(EnforceCap(t, a), a)
                   = PendingIn(t, a) \ {Oldest(t, PendingIn(t, a))}
<1> DEFINE P == PendingIn(t, a)
           D == {Oldest(t, P)}
<1>1. /\ P \in SUBSET Messages /\ IsFiniteSet(P) /\ Cardinality(P) \in Nat
      /\ Cap \in Nat \ {0}
  BY PendingFinite, MessageTableAssumption
<1>2. CASE Cardinality(P) < Cap
  BY <1>1, <1>2 DEF EnforceCap
<1>3. CASE ~ (Cardinality(P) < Cap)
  <2>1. P # {}
    BY <1>1, <1>3, FS_EmptySet
  <2>2. Oldest(t, P) \in P
    BY <1>1, <2>1, OldestIsLeast
  <2>3. D \in SUBSET Messages /\ D \subseteq P /\ "EXPIRED" \in Statuses
    BY <1>1, <2>2 DEF Statuses
  <2>4. EnforceCap(t, a) = SetStatus(t, D, "EXPIRED")
    BY <1>3 DEF EnforceCap
  <2>5. \A m \in D : t[m].status = "PENDING"
    BY <2>3 DEF PendingIn
  <2> HIDE DEF D
  <2>6. SetStatus(t, D, "EXPIRED") \in Table
    BY <2>3, SetStatusType
  <2>7. ASSUME NEW m \in Messages
        PROVE  /\ SetStatus(t, D, "EXPIRED")[m].status
                    = IF m \in D THEN "EXPIRED" ELSE t[m].status
               /\ SetStatus(t, D, "EXPIRED")[m].from = t[m].from
               /\ SetStatus(t, D, "EXPIRED")[m].to = t[m].to
               /\ SetStatus(t, D, "EXPIRED")[m].at = t[m].at
               /\ SetStatus(t, D, "EXPIRED")[m].asks = t[m].asks
               /\ SetStatus(t, D, "EXPIRED")[m].inReplyTo = t[m].inReplyTo
    BY <2>3, SetStatusType
  <2>8. PendingIn(EnforceCap(t, a), a) = P \ D
    BY <2>4, <2>7 DEF PendingIn
  <2>9. P \ D = P \ {Oldest(t, P)}
    BY DEF D
  <2>10. QED
    BY <2>2, <2>4, <2>5, <2>6, <2>7, <2>8, <2>9
<1>4. QED
  BY <1>2, <1>3

\* _enforce_inbox_cap adds to no inbox and leaves the one it is called for
\* below the cap.
LEMMA EnforceCapBounds ==
  ASSUME NEW t \in Table, NEW a \in Agents,
         \A b \in Agents : Cardinality(PendingIn(t, b)) <= Cap
  PROVE  /\ \A b \in Agents : Cardinality(PendingIn(EnforceCap(t, a), b)) <= Cap
         /\ Cardinality(PendingIn(EnforceCap(t, a), a)) < Cap
<1> DEFINE P == PendingIn(t, a)
           o == Oldest(t, P)
           u == EnforceCap(t, a)
<1>1. /\ P \in SUBSET Messages /\ IsFiniteSet(P) /\ Cardinality(P) \in Nat
      /\ Cap \in Nat \ {0} /\ Cardinality(P) <= Cap
  BY PendingFinite, MessageTableAssumption
<1>2. ASSUME NEW b \in Agents
      PROVE  Cardinality(PendingIn(u, b)) <= Cap
  <2>1. PendingIn(u, b) \subseteq PendingIn(t, b)
    <3>1. ASSUME NEW m \in Messages
          PROVE  /\ u[m].to = t[m].to
                 /\ u[m].status = "PENDING" => t[m].status = "PENDING"
      BY EnforceCapEffect
    <3>2. QED
      BY <3>1 DEF PendingIn
  <2>2. Cardinality(PendingIn(u, b)) <= Cardinality(PendingIn(t, b))
    BY <2>1, PendingFinite, FS_Subset
  <2>3. QED
    BY <1>1, <2>2, PendingFinite
<1>3. Cardinality(PendingIn(u, a)) < Cap
  <2>1. CASE Cardinality(P) < Cap
    BY <2>1 DEF EnforceCap
  <2>2. CASE ~ (Cardinality(P) < Cap)
    <3>1. o \in P /\ PendingIn(u, a) = P \ {o}
      BY <1>1, <2>2, EnforceCapEffect
    <3>2. Cardinality(P \ {o}) = Cardinality(P) - 1
      BY <1>1, <3>1, FS_RemoveElement
    <3>3. Cardinality(P) - 1 < Cap
      BY <1>1
    <3>4. QED
      BY <3>1, <3>2, <3>3
  <2>3. QED
    BY <2>1, <2>2
<1>4. QED
  BY <1>2, <1>3

\* What mark_delivered and claim_reply do to the table, row by row.
LEMMA SetDeliveredEffect ==
  ASSUME NEW t \in Table, NEW S \in SUBSET Messages
  PROVE  /\ SetDelivered(t, S) \in Table
         /\ \A m \in Messages :
              /\ SetDelivered(t, S)[m].status
                   = IF m \in S /\ t[m].status = "PENDING"
                       THEN "DELIVERED" ELSE t[m].status
              /\ SetDelivered(t, S)[m].from = t[m].from
              /\ SetDelivered(t, S)[m].to = t[m].to
              /\ SetDelivered(t, S)[m].at = t[m].at
              /\ SetDelivered(t, S)[m].asks = t[m].asks
              /\ SetDelivered(t, S)[m].inReplyTo = t[m].inReplyTo
<1> DEFINE D == {m \in S : t[m].status = "PENDING"}
<1>1. D \in SUBSET Messages /\ "DELIVERED" \in Statuses
  BY DEF Statuses
<1>2. SetDelivered(t, S) = SetStatus(t, D, "DELIVERED")
  BY DEF SetDelivered
<1>3. \A m \in Messages : m \in D <=> m \in S /\ t[m].status = "PENDING"
  OBVIOUS
<1> HIDE DEF D
<1>4. SetStatus(t, D, "DELIVERED") \in Table
  BY <1>1, SetStatusType
<1>5. ASSUME NEW m \in Messages
      PROVE  /\ SetStatus(t, D, "DELIVERED")[m].status
                  = IF m \in D THEN "DELIVERED" ELSE t[m].status
             /\ SetStatus(t, D, "DELIVERED")[m].from = t[m].from
             /\ SetStatus(t, D, "DELIVERED")[m].to = t[m].to
             /\ SetStatus(t, D, "DELIVERED")[m].at = t[m].at
             /\ SetStatus(t, D, "DELIVERED")[m].asks = t[m].asks
             /\ SetStatus(t, D, "DELIVERED")[m].inReplyTo = t[m].inReplyTo
  BY <1>1, SetStatusType
<1>6. QED
  BY <1>2, <1>3, <1>4, <1>5

-----------------------------------------------------------------------------
(* Sending                                                                 *)

\* send(), row by row: the new row is pending, a row that was there keeps its
\* columns, and every question the new row answers is closed.
LEMMA SendEffect ==
  ASSUME TypeOK, NEW m \in Messages, NEW from \in Agents, NEW to \in Agents,
         NEW asks \in MaybeCorrelation, NEW re \in MaybeCorrelation,
         NEW at \in Stamps, Send(m, from, to, asks, re, at)
  PROVE  /\ table' \in Table
         /\ table'[m].to = to /\ table'[m].asks = asks
         /\ table'[m].inReplyTo = re /\ table'[m].status = "PENDING"
         /\ \A n \in Messages \ {m} :
              /\ table'[n].to = table[n].to /\ table'[n].asks = table[n].asks
              /\ table'[n].inReplyTo = table[n].inReplyTo
              /\ \/ table'[n].status = table[n].status
                 \/ /\ table[n].status \in {"PENDING", "DELIVERED"}
                    /\ table'[n].status \in {"RESPONDED", "EXPIRED"}
              /\ table[n].status # "ABSENT" /\ re # NoCorrelation
                   /\ table[n].asks = re
                   => table'[n].status \in {"RESPONDED", "EXPIRED"}
              /\ table'[n].status = "PENDING" =>
                   /\ EnforceCap(table, to)[n].status = "PENDING"
                   /\ EnforceCap(table, to)[n].to = table'[n].to
              /\ table'[n].status = "EXPIRED" =>
                   EnforceCap(table, to)[n].status = "EXPIRED"
<1> DEFINE capped == EnforceCap(table, to)
           row == NewRow(from, to, at, asks, re)
           inserted == InsertRow(capped, m, row)
           Q == OpenQuestions(inserted, re)
<1>1. /\ table \in Table /\ table' = SetStatus(inserted, Q, "RESPONDED")
      /\ table[m].status = "ABSENT" /\ (asks # NoCorrelation => asks # re)
  BY DEF TypeOK, Send, FlipAnswered
<1>2. capped \in Table
  BY <1>1, EnforceCapEffect
<1>3. row \in Row
  BY DEF NewRow, Row, Statuses
<1>4. inserted \in Table
  BY <1>2, <1>3 DEF InsertRow, Table
<1>5. /\ inserted[m] = row
      /\ \A n \in Messages \ {m} : inserted[n] = capped[n]
  BY <1>2 DEF InsertRow, Table
<1>6. Q \in SUBSET Messages /\ m \notin Q /\ "RESPONDED" \in Statuses
  BY <1>1, <1>5 DEF OpenQuestions, NewRow, Statuses
<1>7. \A n \in Q : inserted[n].status \in {"PENDING", "DELIVERED"}
  BY DEF OpenQuestions
<1>8. \A n \in Messages \ Q :
        re # NoCorrelation /\ inserted[n].asks = re =>
          inserted[n].status \in Statuses \ {"PENDING", "DELIVERED"}
  BY <1>4 DEF OpenQuestions, Table, Row
<1> HIDE DEF Q, inserted
<1>9. table' \in Table
  BY <1>1, <1>4, <1>6, SetStatusType
<1>10. ASSUME NEW n \in Messages
       PROVE  /\ table'[n].status
                   = IF n \in Q THEN "RESPONDED" ELSE inserted[n].status
              /\ table'[n].to = inserted[n].to
              /\ table'[n].asks = inserted[n].asks
              /\ table'[n].inReplyTo = inserted[n].inReplyTo
  BY <1>1, <1>4, <1>6, SetStatusType
<1>11. /\ table'[m].to = to /\ table'[m].asks = asks
       /\ table'[m].inReplyTo = re /\ table'[m].status = "PENDING"
  BY <1>5, <1>6, <1>10 DEF NewRow
<1>12. ASSUME NEW n \in Messages \ {m}
       PROVE  /\ table'[n].to = table[n].to /\ table'[n].asks = table[n].asks
              /\ table'[n].inReplyTo = table[n].inReplyTo
              /\ \/ table'[n].status = table[n].status
                 \/ /\ table[n].status \in {"PENDING", "DELIVERED"}
                    /\ table'[n].status \in {"RESPONDED", "EXPIRED"}
              /\ table[n].status # "ABSENT" /\ re # NoCorrelation
                   /\ table[n].asks = re
                   => table'[n].status \in {"RESPONDED", "EXPIRED"}
              /\ table'[n].status = "PENDING" =>
                   capped[n].status = "PENDING" /\ capped[n].to = table'[n].to
              /\ table'[n].status = "EXPIRED" => capped[n].status = "EXPIRED"
  <2>1. /\ capped[n].to = table[n].to /\ capped[n].asks = table[n].asks
        /\ capped[n].inReplyTo = table[n].inReplyTo
        /\ \/ capped[n].status = table[n].status
           \/ table[n].status = "PENDING" /\ capped[n].status = "EXPIRED"
    BY <1>1, EnforceCapEffect
  <2>2. inserted[n] = capped[n]
    BY <1>5
  <2>3. QED
    BY <1>7, <1>8, <1>10, <2>1, <2>2 DEF Statuses
<1>13. QED
  BY <1>9, <1>11, <1>12

-----------------------------------------------------------------------------
(* Type correctness                                                        *)

\* The row a claim takes is one of the pending replies.
LEMMA ClaimedReply ==
  ASSUME TypeOK, NEW a, NEW c, RepliesTo(table, a, c) # {}
  PROVE  /\ Oldest(table, RepliesTo(table, a, c)) \in Messages
         /\ table[Oldest(table, RepliesTo(table, a, c))].status = "PENDING"
<1>1. RepliesTo(table, a, c) \in SUBSET Messages
  BY DEF RepliesTo, PendingIn
<1>2. Oldest(table, RepliesTo(table, a, c)) \in RepliesTo(table, a, c)
  BY <1>1, OldestIsLeast DEF TypeOK
<1>3. QED
  BY <1>2 DEF RepliesTo, PendingIn

\* The initial state is a state of the right type.
LEMMA InitTypeOK == Init => TypeOK
BY EmptyTableType DEF Init, TypeOK, DrainStages

\* Every step of the mailbox keeps the variables in their types.
LEMMA StepTypeOK == TypeOK /\ [Next]_vars => TypeOK'
<1> SUFFICES ASSUME TypeOK, [Next]_vars PROVE TypeOK'
  OBVIOUS
<1>1. ASSUME NEW m \in Messages, NEW from \in Agents, NEW to \in Agents,
             NEW asks \in MaybeCorrelation, NEW re \in MaybeCorrelation,
             NEW at \in Stamps, Send(m, from, to, asks, re, at)
      PROVE  TypeOK'
  <2>1. table' \in Table
    BY <1>1, SendEffect
  <2>2. QED
    BY <1>1, <2>1 DEF TypeOK, Send
<1>2. ASSUME NEW a \in Agents, NEW c \in Correlations, ClaimReply(a, c)
      PROVE  TypeOK'
  <2> DEFINE o == Oldest(table, RepliesTo(table, a, c))
             D == {o}
  <2>1. o \in Messages
    BY <1>2, ClaimedReply DEF ClaimReply
  <2>2. D \in SUBSET Messages
    BY <2>1
  <2>3. table' = SetDelivered(table, D) /\ handed' = handed \cup D
    BY <1>2 DEF ClaimReply
  <2> HIDE DEF D
  <2>4. table' \in Table
    BY <2>2, <2>3, SetDeliveredEffect DEF TypeOK
  <2>5. QED
    BY <1>2, <2>2, <2>3, <2>4 DEF TypeOK, ClaimReply
<1>3. ASSUME NEW a \in Agents, SelectGroup(a)
      PROVE  TypeOK'
  <2>1. OldestGroup(table, a) \in SUBSET Messages
    BY DEF OldestGroup, Inbox, PendingIn
  <2>2. QED
    BY <1>3, <2>1 DEF TypeOK, SelectGroup, DrainStages
<1>4. ASSUME NEW a \in Agents, PersistGroup(a)
      PROVE  TypeOK'
  BY <1>4 DEF TypeOK, PersistGroup, DrainStages
<1>5. ASSUME NEW a \in Agents, MarkDelivered(a)
      PROVE  TypeOK'
  <2>1. inHand[a] \in SUBSET Messages
    BY DEF TypeOK
  <2>2. table' \in Table
    BY <1>5, <2>1, SetDeliveredEffect DEF TypeOK, MarkDelivered
  <2>3. QED
    BY <1>5, <2>2 DEF TypeOK, MarkDelivered, DrainStages
<1>6. ASSUME NEW a \in Agents, AbandonDrain(a)
      PROVE  TypeOK'
  BY <1>6 DEF TypeOK, AbandonDrain, DrainStages
<1>7. CASE UNCHANGED vars
  BY <1>7 DEF TypeOK, vars
<1>8. QED
  BY <1>1, <1>2, <1>3, <1>4, <1>5, <1>6, <1>7 DEF Next

\* The variables of the mailbox always have their types.
THEOREM TypeCorrect == Spec => []TypeOK
<1>1. QED
  BY InitTypeOK, StepTypeOK, PTL DEF Spec

-----------------------------------------------------------------------------
(* The inbox bound                                                         *)

\* No step lets an inbox outgrow the cap: a send makes room first, and every
\* other step only closes messages.
LEMMA StepPendingBounded ==
  TypeOK /\ PendingBounded /\ [Next]_vars => PendingBounded'
<1> SUFFICES ASSUME TypeOK, PendingBounded, [Next]_vars, NEW b \in Agents
             PROVE  Cardinality(PendingIn(table', b)) <= Cap
  BY DEF PendingBounded
<1>0. /\ Cap \in Nat /\ table \in Table
      /\ Cardinality(PendingIn(table, b)) <= Cap
  BY MessageTableAssumption DEF TypeOK, PendingBounded
<1>1. ASSUME NEW m \in Messages, NEW from \in Agents, NEW to \in Agents,
             NEW asks \in MaybeCorrelation, NEW re \in MaybeCorrelation,
             NEW at \in Stamps, Send(m, from, to, asks, re, at)
      PROVE  Cardinality(PendingIn(table', b)) <= Cap
  <2> DEFINE capped == EnforceCap(table, to)
  <2>1. /\ \A a \in Agents : Cardinality(PendingIn(capped, a)) <= Cap
        /\ Cardinality(PendingIn(capped, to)) < Cap
    BY <1>0, EnforceCapBounds DEF PendingBounded
  <2>2. table'[m].to = to
    BY <1>1, SendEffect
  <2>3. ASSUME NEW n \in Messages \ {m}, table'[n].status = "PENDING"
        PROVE  capped[n].status = "PENDING" /\ capped[n].to = table'[n].to
    BY <1>1, <2>3, SendEffect
  <2>4. CASE b # to
    <3>1. PendingIn(table', b) \subseteq PendingIn(capped, b)
      BY <2>2, <2>3, <2>4 DEF PendingIn
    <3>2. Cardinality(PendingIn(table', b)) <= Cardinality(PendingIn(capped, b))
      BY <3>1, PendingFinite, FS_Subset
    <3>3. QED
      BY <1>0, <2>1, <3>2, PendingFinite
  <2>5. CASE b = to
    <3> DEFINE P == PendingIn(capped, to)
    <3>1. PendingIn(table', to) \subseteq P \cup {m}
      BY <2>3 DEF PendingIn
    <3>2. IsFiniteSet(P) /\ Cardinality(P) \in Nat
      BY PendingFinite
    <3>3. /\ IsFiniteSet(P \cup {m})
          /\ \/ Cardinality(P \cup {m}) = Cardinality(P)
             \/ Cardinality(P \cup {m}) = Cardinality(P) + 1
      BY <3>2, FS_AddElement
    <3>4. Cardinality(PendingIn(table', to)) <= Cardinality(P \cup {m})
      BY <3>1, <3>3, FS_Subset
    <3>5. Cardinality(PendingIn(table', to)) \in Nat
      BY PendingFinite
    <3>6. QED
      BY <1>0, <2>1, <2>5, <3>2, <3>3, <3>4, <3>5
  <2>6. QED
    BY <2>4, <2>5
<1>2. ASSUME NEW S \in SUBSET Messages, table' = SetDelivered(table, S)
      PROVE  Cardinality(PendingIn(table', b)) <= Cap
  <2> DEFINE D == {m \in S : table[m].status = "PENDING"}
  <2>1. D \in SUBSET Messages /\ "DELIVERED" \in Statuses \ {"PENDING"}
    BY DEF Statuses
  <2>2. table' = SetStatus(table, D, "DELIVERED")
    BY <1>2 DEF SetDelivered
  <2> HIDE DEF D
  <2>3. Cardinality(PendingIn(table', b)) <= Cardinality(PendingIn(table, b))
    BY <1>0, <2>1, <2>2, ClosingShrinksInbox
  <2>4. QED
    BY <1>0, <2>3, PendingFinite
<1>3. ASSUME NEW a \in Agents, NEW c \in Correlations, ClaimReply(a, c)
      PROVE  Cardinality(PendingIn(table', b)) <= Cap
  <2> DEFINE D == {Oldest(table, RepliesTo(table, a, c))}
  <2>1. D \in SUBSET Messages
    BY <1>3, ClaimedReply DEF ClaimReply
  <2>2. table' = SetDelivered(table, D)
    BY <1>3 DEF ClaimReply
  <2> HIDE DEF D
  <2>3. QED
    BY <1>2, <2>1, <2>2
<1>4. ASSUME NEW a \in Agents, MarkDelivered(a)
      PROVE  Cardinality(PendingIn(table', b)) <= Cap
  BY <1>2, <1>4 DEF MarkDelivered, TypeOK
<1>5. ASSUME UNCHANGED table
      PROVE  Cardinality(PendingIn(table', b)) <= Cap
  BY <1>0, <1>5
<1>6. QED
  BY <1>1, <1>3, <1>4, <1>5
     DEF Next, vars, SelectGroup, PersistGroup, AbandonDrain

\* However many processes write to it, no inbox ever holds more than
\* inbox_cap pending messages.
THEOREM InboxBounded == Spec => []PendingBounded
<1>1. Init => PendingBounded
  <2> SUFFICES ASSUME Init, NEW a \in Agents
               PROVE  Cardinality(PendingIn(table, a)) <= Cap
    BY DEF PendingBounded
  <2>1. PendingIn(table, a) = {}
    BY EmptyTableType DEF Init, PendingIn
  <2>2. QED
    BY <2>1, FS_EmptySet, MessageTableAssumption
<1>2. QED
  BY <1>1, StepPendingBounded, TypeCorrect, PTL DEF Spec

-----------------------------------------------------------------------------
(* Delivery                                                                *)

\* A reader marks a group only after it has become a turn.
HandedInv ==
  /\ DeliveredWasHanded
  /\ \A a \in Agents : drain[a] = "persisted" => inHand[a] \subseteq handed

\* Every step keeps acknowledged messages among the handed ones.
LEMMA StepHandedInv == TypeOK /\ HandedInv /\ [Next]_vars => HandedInv'
<1> SUFFICES ASSUME TypeOK, HandedInv, [Next]_vars PROVE HandedInv'
  OBVIOUS
<1>1. ASSUME NEW m \in Messages, NEW from \in Agents, NEW to \in Agents,
             NEW asks \in MaybeCorrelation, NEW re \in MaybeCorrelation,
             NEW at \in Stamps, Send(m, from, to, asks, re, at)
      PROVE  HandedInv'
  <2>1. ASSUME NEW n \in Messages, table'[n].status = "DELIVERED"
        PROVE  table[n].status = "DELIVERED"
    <3>1. table'[m].status = "PENDING"
      BY <1>1, SendEffect
    <3>2. n # m => \/ table'[n].status = table[n].status
                   \/ table'[n].status \in {"RESPONDED", "EXPIRED"}
      BY <1>1, SendEffect
    <3>3. QED
      BY <2>1, <3>1, <3>2
  <2>2. UNCHANGED <<drain, inHand, handed>>
    BY <1>1 DEF Send
  <2>3. QED
    BY <2>1, <2>2 DEF HandedInv, DeliveredWasHanded
<1>2. ASSUME NEW a \in Agents, NEW c \in Correlations, ClaimReply(a, c)
      PROVE  HandedInv'
  <2> DEFINE D == {Oldest(table, RepliesTo(table, a, c))}
  <2>1. D \in SUBSET Messages
    BY <1>2, ClaimedReply DEF ClaimReply
  <2>2. /\ table' = SetDelivered(table, D) /\ handed' = handed \cup D
        /\ UNCHANGED <<drain, inHand>>
    BY <1>2 DEF ClaimReply
  <2> HIDE DEF D
  <2>3. ASSUME NEW n \in Messages, table'[n].status = "DELIVERED"
        PROVE  table[n].status = "DELIVERED" \/ n \in D
    BY <2>1, <2>2, <2>3, SetDeliveredEffect DEF TypeOK
  <2>4. QED
    BY <2>2, <2>3 DEF HandedInv, DeliveredWasHanded
<1>3. ASSUME NEW a \in Agents, SelectGroup(a)
      PROVE  HandedInv'
  BY <1>3 DEF HandedInv, DeliveredWasHanded, SelectGroup, TypeOK
<1>4. ASSUME NEW a \in Agents, PersistGroup(a)
      PROVE  HandedInv'
  BY <1>4 DEF HandedInv, DeliveredWasHanded, PersistGroup, TypeOK
<1>5. ASSUME NEW a \in Agents, MarkDelivered(a)
      PROVE  HandedInv'
  <2>1. inHand[a] \in SUBSET Messages /\ inHand[a] \subseteq handed
    BY <1>5 DEF TypeOK, HandedInv, MarkDelivered
  <2>2. ASSUME NEW n \in Messages, table'[n].status = "DELIVERED"
        PROVE  table[n].status = "DELIVERED" \/ n \in inHand[a]
    BY <1>5, <2>1, <2>2, SetDeliveredEffect DEF TypeOK, MarkDelivered
  <2>3. DeliveredWasHanded'
    BY <1>5, <2>1, <2>2 DEF HandedInv, DeliveredWasHanded, MarkDelivered
  <2>4. QED
    BY <1>5, <2>3 DEF HandedInv, MarkDelivered, TypeOK
<1>6. ASSUME NEW a \in Agents, AbandonDrain(a)
      PROVE  HandedInv'
  BY <1>6 DEF HandedInv, DeliveredWasHanded, AbandonDrain, TypeOK
<1>7. CASE UNCHANGED vars
  BY <1>7 DEF HandedInv, DeliveredWasHanded, vars
<1>8. QED
  BY <1>1, <1>2, <1>3, <1>4, <1>5, <1>6, <1>7 DEF Next

\* A message is acknowledged only if its recipient got it, wherever a drain
\* is interrupted.
THEOREM NothingAcknowledgedUnread == Spec => []DeliveredWasHanded
<1>1. Init => HandedInv
  BY EmptyTableType DEF Init, HandedInv, DeliveredWasHanded
<1>2. HandedInv => DeliveredWasHanded
  BY DEF HandedInv
<1>3. QED
  BY <1>1, <1>2, StepHandedInv, TypeCorrect, PTL DEF Spec

-----------------------------------------------------------------------------
(* Questions and answers                                                   *)

\* Every step keeps answered questions closed.
LEMMA StepAnsweredIsClosed ==
  TypeOK /\ AnsweredIsClosed /\ [Next]_vars => AnsweredIsClosed'
<1> DEFINE Closed == {"RESPONDED", "EXPIRED"}
<1> SUFFICES ASSUME TypeOK, AnsweredIsClosed, [Next]_vars,
                    NEW q \in Messages, NEW r \in Messages,
                    table'[q].status # "ABSENT", table'[r].status # "ABSENT",
                    table'[q].asks # NoCorrelation,
                    table'[r].inReplyTo = table'[q].asks
             PROVE  table'[q].status \in Closed
  BY DEF AnsweredIsClosed, Present
<1>0. ASSUME table[q].status # "ABSENT", table[r].status # "ABSENT",
             table[q].asks # NoCorrelation,
             table[r].inReplyTo = table[q].asks
      PROVE  table[q].status \in Closed
  BY <1>0 DEF AnsweredIsClosed, Present
<1>1. ASSUME NEW m \in Messages, NEW from \in Agents, NEW to \in Agents,
             NEW asks \in MaybeCorrelation, NEW re \in MaybeCorrelation,
             NEW at \in Stamps, Send(m, from, to, asks, re, at)
      PROVE  table'[q].status \in Closed
  <2>1. /\ table'[m].asks = asks /\ table'[m].inReplyTo = re
        /\ table[m].status = "ABSENT"
        /\ asks # NoCorrelation => asks # re /\ FreshCorrelation(asks)
    BY <1>1, SendEffect DEF Send
  <2>2. ASSUME NEW n \in Messages \ {m}
        PROVE  /\ table'[n].asks = table[n].asks
               /\ table'[n].inReplyTo = table[n].inReplyTo
               /\ \/ table'[n].status = table[n].status
                  \/ /\ table[n].status \in {"PENDING", "DELIVERED"}
                     /\ table'[n].status \in Closed
               /\ table[n].status # "ABSENT" /\ re # NoCorrelation
                    /\ table[n].asks = re
                    => table'[n].status \in Closed
    BY <1>1, SendEffect
  <2>3. CASE q = m
    <3>1. r # m
      BY <2>1, <2>3
    <3>2. table[r].status # "ABSENT" /\ table[r].inReplyTo = asks
      BY <2>1, <2>2, <2>3, <3>1
    <3>3. FALSE
      BY <2>1, <2>3, <3>2 DEF FreshCorrelation, Present
    <3>4. QED
      BY <3>3
  <2>4. CASE q # m /\ r = m
    BY <2>1, <2>2, <2>4
  <2>5. CASE q # m /\ r # m
    BY <1>0, <2>2, <2>5
  <2>6. QED
    BY <2>3, <2>4, <2>5
<1>2. ASSUME NEW S \in SUBSET Messages, table' = SetDelivered(table, S)
      PROVE  table'[q].status \in Closed
  <2>1. ASSUME NEW n \in Messages
        PROVE  /\ table'[n].asks = table[n].asks
               /\ table'[n].inReplyTo = table[n].inReplyTo
               /\ \/ table'[n].status = table[n].status
                  \/ /\ table[n].status = "PENDING"
                     /\ table'[n].status = "DELIVERED"
    BY <1>2, SetDeliveredEffect DEF TypeOK
  <2>2. table[q].status # "ABSENT" /\ table[r].status # "ABSENT"
    BY <2>1
  <2>3. table[q].status \in Closed
    BY <1>0, <2>1, <2>2
  <2>4. QED
    BY <2>1, <2>3
<1>3. ASSUME NEW a \in Agents, NEW c \in Correlations, ClaimReply(a, c)
      PROVE  table'[q].status \in Closed
  <2> DEFINE D == {Oldest(table, RepliesTo(table, a, c))}
  <2>1. D \in SUBSET Messages
    BY <1>3, ClaimedReply DEF ClaimReply
  <2>2. table' = SetDelivered(table, D)
    BY <1>3 DEF ClaimReply
  <2> HIDE DEF D
  <2>3. QED
    BY <1>2, <2>1, <2>2
<1>4. ASSUME NEW a \in Agents, MarkDelivered(a)
      PROVE  table'[q].status \in Closed
  BY <1>2, <1>4 DEF MarkDelivered, TypeOK
<1>5. ASSUME UNCHANGED table
      PROVE  table'[q].status \in Closed
  BY <1>0, <1>5
<1>6. QED
  BY <1>1, <1>3, <1>4, <1>5
     DEF Next, vars, SelectGroup, PersistGroup, AbandonDrain

\* As soon as a reply is in the table its question is closed, and nothing
\* reopens it.
THEOREM AnswersCloseQuestions == Spec => []AnsweredIsClosed
<1>1. Init => AnsweredIsClosed
  BY EmptyTableType DEF Init, AnsweredIsClosed, Present
<1>2. QED
  BY <1>1, StepAnsweredIsClosed, TypeCorrect, PTL DEF Spec

-----------------------------------------------------------------------------
(* What a step may do to a row                                             *)

\* The table changes by a send, or by an acknowledgement of some rows.
LEMMA TableStep ==
  ASSUME TypeOK, [Next]_vars
  PROVE  \/ \E m \in Messages, from, to \in Agents, asks, re \in MaybeCorrelation,
               at \in Stamps : Send(m, from, to, asks, re, at)
         \/ \E S \in SUBSET Messages : table' = SetDelivered(table, S)
         \/ table' = table
<1>1. ASSUME NEW a \in Agents, NEW c \in Correlations, ClaimReply(a, c)
      PROVE  \E S \in SUBSET Messages : table' = SetDelivered(table, S)
  <2>1. Oldest(table, RepliesTo(table, a, c)) \in Messages
    BY <1>1, ClaimedReply DEF ClaimReply
  <2>2. table' = SetDelivered(table, {Oldest(table, RepliesTo(table, a, c))})
    BY <1>1 DEF ClaimReply
  <2>3. QED
    BY <2>1, <2>2
<1>2. ASSUME NEW a \in Agents, MarkDelivered(a)
      PROVE  \E S \in SUBSET Messages : table' = SetDelivered(table, S)
  BY <1>2 DEF MarkDelivered, TypeOK
<1>3. QED
  BY <1>1, <1>2 DEF Next, vars, SelectGroup, PersistGroup, AbandonDrain

\* Statuses only move forward, in every step: no late acknowledgement makes an
\* answered or dropped row delivered, or a delivered one pending.
THEOREM StatusesMoveForward == Spec => StatusMovesForward
<1> DEFINE Forward(m) ==
      \/ table'[m].status = table[m].status
      \/ table[m].status = "ABSENT" /\ table'[m].status = "PENDING"
      \/ table[m].status = "PENDING" /\ table'[m].status # "ABSENT"
      \/ table[m].status = "DELIVERED" /\ table'[m].status = "RESPONDED"
<1>1. ASSUME TypeOK, [Next]_vars PROVE \A m \in Messages : Forward(m)
  <2>1. ASSUME NEW m \in Messages, NEW from \in Agents, NEW to \in Agents,
               NEW asks \in MaybeCorrelation, NEW re \in MaybeCorrelation,
               NEW at \in Stamps, Send(m, from, to, asks, re, at),
               NEW n \in Messages
        PROVE  Forward(n)
    <3>1. CASE n = m
      BY <1>1, <2>1, <3>1, SendEffect DEF Send
    <3>2. CASE n # m
      <4>1. /\ \/ table'[n].status = table[n].status
               \/ /\ table[n].status \in {"PENDING", "DELIVERED"}
                  /\ table'[n].status \in {"RESPONDED", "EXPIRED"}
            /\ table'[n].status = "EXPIRED" =>
                 EnforceCap(table, to)[n].status = "EXPIRED"
        BY <1>1, <2>1, <3>2, SendEffect
      <4>2. EnforceCap(table, to)[n].status = "EXPIRED"
              => table[n].status \in {"PENDING", "EXPIRED"}
        BY <1>1, EnforceCapEffect DEF TypeOK
      <4>3. QED
        BY <4>1, <4>2
    <3>3. QED
      BY <3>1, <3>2
  <2>2. ASSUME NEW S \in SUBSET Messages, table' = SetDelivered(table, S),
               NEW n \in Messages
        PROVE  Forward(n)
    BY <1>1, <2>2, SetDeliveredEffect DEF TypeOK
  <2>3. QED
    BY <1>1, <2>1, <2>2, TableStep
<1>2. TypeOK /\ [Next]_vars => [\A m \in Messages : Forward(m)]_vars
  BY <1>1
<1>3. QED
  BY <1>2, TypeCorrect, PTL DEF Spec, StatusMovesForward

\* A step drops a message only from a full inbox, and then the oldest.
THEOREM OnlyOldestDropped == Spec => DropsOldestOfFull
<1> DEFINE Fair(m) ==
      table[m].status # "EXPIRED" /\ table'[m].status = "EXPIRED" =>
        LET S == PendingIn(table, table[m].to)
        IN  /\ m \in S
            /\ Cardinality(S) >= Cap
            /\ \A n \in S : table[m].at <= table[n].at
<1>1. ASSUME TypeOK, [Next]_vars PROVE \A m \in Messages : Fair(m)
  <2>1. ASSUME NEW m \in Messages, NEW from \in Agents, NEW to \in Agents,
               NEW asks \in MaybeCorrelation, NEW re \in MaybeCorrelation,
               NEW at \in Stamps, Send(m, from, to, asks, re, at),
               NEW n \in Messages,
               table[n].status # "EXPIRED", table'[n].status = "EXPIRED"
        PROVE  LET S == PendingIn(table, table[n].to)
               IN  /\ n \in S
                   /\ Cardinality(S) >= Cap
                   /\ \A k \in S : table[n].at <= table[k].at
    <3> DEFINE P == PendingIn(table, to)
    <3>1. n # m
      BY <1>1, <2>1, SendEffect
    <3>2. EnforceCap(table, to)[n].status = "EXPIRED"
      BY <1>1, <2>1, <3>1, SendEffect
    <3>3. /\ P \in SUBSET Messages /\ Cardinality(P) \in Nat
          /\ Cap \in Nat \ {0} /\ table \in Table
      BY <1>1, PendingFinite, MessageTableAssumption DEF TypeOK
    <3>4. Cardinality(P) >= Cap
      BY <2>1, <3>2, <3>3 DEF EnforceCap
    <3>5. P # {}
      BY <3>3, <3>4, FS_EmptySet
    <3>6. /\ Oldest(table, P) \in P
          /\ \A k \in P : table[Oldest(table, P)].at <= table[k].at
      BY <3>3, <3>5, OldestIsLeast
    <3>7. n = Oldest(table, P)
      <4>1. EnforceCap(table, to) = SetStatus(table, {Oldest(table, P)}, "EXPIRED")
        BY <3>3, <3>4 DEF EnforceCap
      <4>2. QED
        BY <2>1, <3>2, <4>1 DEF SetStatus
    <3>8. table[n].to = to
      BY <3>6, <3>7 DEF PendingIn
    <3>9. QED
      BY <3>4, <3>6, <3>7, <3>8
  <2>2. ASSUME NEW S \in SUBSET Messages, table' = SetDelivered(table, S),
               NEW n \in Messages,
               table[n].status # "EXPIRED", table'[n].status = "EXPIRED"
        PROVE  FALSE
    BY <1>1, <2>2, SetDeliveredEffect DEF TypeOK
  <2>3. QED
    BY <1>1, <2>1, <2>2, TableStep
<1>2. TypeOK /\ [Next]_vars => [\A m \in Messages : Fair(m)]_vars
  BY <1>1
<1>3. QED
  BY <1>2, TypeCorrect, PTL DEF Spec, DropsOldestOfFull
=============================================================================
