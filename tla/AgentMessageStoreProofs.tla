----------------------- MODULE AgentMessageStoreProofs -----------------------
(***************************************************************************)
(* Proofs about AgentMessageStore, for any number of processes, of         *)
(* coroutines in each and of messages, and any inbox cap.                  *)
(***************************************************************************)
EXTENDS AgentMessageStore, FiniteSetTheorems, WellFoundedInduction, TLAPS

-----------------------------------------------------------------------------
(* The table: what its queries and updates return and keep, for any table. *)
(* AgentMailboxProofs proves the same facts: each module of proofs stands  *)
(* by itself.                                                              *)

\* A set of naturals that is not empty has a least element.
LEMMA LeastNatural ==
  ASSUME NEW T \in SUBSET Nat, T # {}
  PROVE  \E x \in T : \A y \in T : x <= y
<1> DEFINE Less == {ss \in Nat \X Nat : ss[1] < ss[2]}
<1>1. IsWellFoundedOn(Less, Nat)
  BY NatLessThanWellFounded DEF OpToRel
<1>2. PICK x \in T : \A y \in T : <<y, x>> \notin Less
  BY <1>1, WFMin
<1>3. ASSUME NEW y \in T PROVE x <= y
  <2>1. ~ (y < x)
    BY <1>2, <1>3
  <2>2. QED
    BY <2>1
<1>4. QED
  BY <1>3

\* ORDER BY ... LIMIT 1 returns a row of the set it selects from, and no row
\* of the set is older.
LEMMA OldestIsLeast ==
  ASSUME NEW t \in Table, NEW S \in SUBSET Messages, S # {}
  PROVE  /\ Oldest(t, S) \in S
         /\ \A n \in S : t[Oldest(t, S)].at <= t[n].at
<1> DEFINE T == {t[m].at : m \in S}
<1>1. T \in SUBSET Nat /\ T # {}
  <2>1. \A m \in S : t[m].at \in Nat
    BY MessageTableAssumption DEF Table, Row
  <2>2. QED
    BY <2>1
<1>2. PICK x \in T : \A y \in T : x <= y
  BY <1>1, LeastNatural
<1>3. PICK m \in S : x = t[m].at
  OBVIOUS
<1>4. \A n \in S : t[m].at <= t[n].at
  BY <1>2, <1>3
<1>5. QED
  BY <1>3, <1>4 DEF Oldest

\* The row that stands for "absent" is a row.
LEMMA EmptyTableType ==
  /\ EmptyTable \in Table
  /\ \A m \in Messages : EmptyTable[m].status = "ABSENT"
BY MessageTableAssumption
   DEF EmptyTable, AbsentRow, Table, Row, Statuses, MaybeCorrelation

\* Changing a status keeps the table a table and touches nothing else.
LEMMA SetStatusType ==
  ASSUME NEW t \in Table, NEW S \in SUBSET Messages, NEW s \in Statuses
  PROVE  /\ SetStatus(t, S, s) \in Table
         /\ \A m \in Messages :
              /\ SetStatus(t, S, s)[m].status = IF m \in S THEN s ELSE t[m].status
              /\ SetStatus(t, S, s)[m].from = t[m].from
              /\ SetStatus(t, S, s)[m].to = t[m].to
              /\ SetStatus(t, S, s)[m].at = t[m].at
              /\ SetStatus(t, S, s)[m].asks = t[m].asks
              /\ SetStatus(t, S, s)[m].inReplyTo = t[m].inReplyTo
BY DEF SetStatus, Table, Row

\* The pending messages of an inbox can be counted.
LEMMA PendingFinite ==
  ASSUME NEW t, NEW a
  PROVE  /\ PendingIn(t, a) \in SUBSET Messages
         /\ IsFiniteSet(PendingIn(t, a))
         /\ Cardinality(PendingIn(t, a)) \in Nat
<1>1. PendingIn(t, a) \in SUBSET Messages
  BY DEF PendingIn
<1>2. IsFiniteSet(PendingIn(t, a))
  BY <1>1, MessageTableAssumption, FS_Subset
<1>3. QED
  BY <1>1, <1>2, FS_CardinalityType

\* A status other than PENDING, given to any rows, adds nothing to an inbox.
LEMMA ClosingShrinksInbox ==
  ASSUME NEW t \in Table, NEW S \in SUBSET Messages,
         NEW s \in Statuses \ {"PENDING"}, NEW a
  PROVE  /\ PendingIn(SetStatus(t, S, s), a) \subseteq PendingIn(t, a)
         /\ Cardinality(PendingIn(SetStatus(t, S, s), a))
              <= Cardinality(PendingIn(t, a))
<1>1. PendingIn(SetStatus(t, S, s), a) \subseteq PendingIn(t, a)
  BY SetStatusType DEF PendingIn
<1>2. QED
  BY <1>1, PendingFinite, FS_Subset

\* What _enforce_inbox_cap may do to a row: nothing, or drop it if pending.
LEMMA EnforceCapEffect ==
  ASSUME NEW t \in Table, NEW a \in Agents
  PROVE  /\ EnforceCap(t, a) \in Table
         /\ \A m \in Messages :
              /\ \/ EnforceCap(t, a)[m].status = t[m].status
                 \/ /\ t[m].status = "PENDING"
                    /\ EnforceCap(t, a)[m].status = "EXPIRED"
              /\ EnforceCap(t, a)[m].from = t[m].from
              /\ EnforceCap(t, a)[m].to = t[m].to
              /\ EnforceCap(t, a)[m].at = t[m].at
              /\ EnforceCap(t, a)[m].asks = t[m].asks
              /\ EnforceCap(t, a)[m].inReplyTo = t[m].inReplyTo
         /\ Cardinality(PendingIn(t, a)) >= Cap =>
              /\ Oldest(t, PendingIn(t, a)) \in PendingIn(t, a)
              /\ PendingIn(EnforceCap(t, a), a)
                   = PendingIn(t, a) \ {Oldest(t, PendingIn(t, a))}
<1> DEFINE P == PendingIn(t, a)
           D == {Oldest(t, P)}
<1>1. /\ P \in SUBSET Messages /\ IsFiniteSet(P) /\ Cardinality(P) \in Nat
      /\ Cap \in Nat \ {0}
  BY PendingFinite, MessageTableAssumption
<1>2. CASE Cardinality(P) < Cap
  BY <1>1, <1>2 DEF EnforceCap
<1>3. CASE ~ (Cardinality(P) < Cap)
  <2>1. P # {}
    BY <1>1, <1>3, FS_EmptySet
  <2>2. Oldest(t, P) \in P
    BY <1>1, <2>1, OldestIsLeast
  <2>3. D \in SUBSET Messages /\ D \subseteq P /\ "EXPIRED" \in Statuses
    BY <1>1, <2>2 DEF Statuses
  <2>4. EnforceCap(t, a) = SetStatus(t, D, "EXPIRED")
    BY <1>3 DEF EnforceCap
  <2>5. \A m \in D : t[m].status = "PENDING"
    BY <2>3 DEF PendingIn
  <2> HIDE DEF D
  <2>6. SetStatus(t, D, "EXPIRED") \in Table
    BY <2>3, SetStatusType
  <2>7. ASSUME NEW m \in Messages
        PROVE  /\ SetStatus(t, D, "EXPIRED")[m].status
                    = IF m \in D THEN "EXPIRED" ELSE t[m].status
               /\ SetStatus(t, D, "EXPIRED")[m].from = t[m].from
               /\ SetStatus(t, D, "EXPIRED")[m].to = t[m].to
               /\ SetStatus(t, D, "EXPIRED")[m].at = t[m].at
               /\ SetStatus(t, D, "EXPIRED")[m].asks = t[m].asks
               /\ SetStatus(t, D, "EXPIRED")[m].inReplyTo = t[m].inReplyTo
    BY <2>3, SetStatusType
  <2>8. PendingIn(EnforceCap(t, a), a) = P \ D
    BY <2>4, <2>7 DEF PendingIn
  <2>9. P \ D = P \ {Oldest(t, P)}
    BY DEF D
  <2>10. QED
    BY <2>2, <2>4, <2>5, <2>6, <2>7, <2>8, <2>9
<1>4. QED
  BY <1>2, <1>3

\* _enforce_inbox_cap adds to no inbox and leaves the one it is called for
\* below the cap.
LEMMA EnforceCapBounds ==
  ASSUME NEW t \in Table, NEW a \in Agents,
         \A b \in Agents : Cardinality(PendingIn(t, b)) <= Cap
  PROVE  /\ \A b \in Agents : Cardinality(PendingIn(EnforceCap(t, a), b)) <= Cap
         /\ Cardinality(PendingIn(EnforceCap(t, a), a)) < Cap
<1> DEFINE P == PendingIn(t, a)
           o == Oldest(t, P)
           u == EnforceCap(t, a)
<1>1. /\ P \in SUBSET Messages /\ IsFiniteSet(P) /\ Cardinality(P) \in Nat
      /\ Cap \in Nat \ {0} /\ Cardinality(P) <= Cap
  BY PendingFinite, MessageTableAssumption
<1>2. ASSUME NEW b \in Agents
      PROVE  Cardinality(PendingIn(u, b)) <= Cap
  <2>1. PendingIn(u, b) \subseteq PendingIn(t, b)
    <3>1. ASSUME NEW m \in Messages
          PROVE  /\ u[m].to = t[m].to
                 /\ u[m].status = "PENDING" => t[m].status = "PENDING"
      BY EnforceCapEffect
    <3>2. QED
      BY <3>1 DEF PendingIn
  <2>2. Cardinality(PendingIn(u, b)) <= Cardinality(PendingIn(t, b))
    BY <2>1, PendingFinite, FS_Subset
  <2>3. QED
    BY <1>1, <2>2, PendingFinite
<1>3. Cardinality(PendingIn(u, a)) < Cap
  <2>1. CASE Cardinality(P) < Cap
    BY <2>1 DEF EnforceCap
  <2>2. CASE ~ (Cardinality(P) < Cap)
    <3>1. o \in P /\ PendingIn(u, a) = P \ {o}
      BY <1>1, <2>2, EnforceCapEffect
    <3>2. Cardinality(P \ {o}) = Cardinality(P) - 1
      BY <1>1, <3>1, FS_RemoveElement
    <3>3. Cardinality(P) - 1 < Cap
      BY <1>1
    <3>4. QED
      BY <3>1, <3>2, <3>3
  <2>3. QED
    BY <2>1, <2>2
<1>4. QED
  BY <1>2, <1>3

\* What mark_delivered and claim_reply do to the table, row by row.
LEMMA SetDeliveredEffect ==
  ASSUME NEW t \in Table, NEW S \in SUBSET Messages
  PROVE  /\ SetDelivered(t, S) \in Table
         /\ \A m \in Messages :
              /\ SetDelivered(t, S)[m].status
                   = IF m \in S /\ t[m].status = "PENDING"
                       THEN "DELIVERED" ELSE t[m].status
              /\ SetDelivered(t, S)[m].from = t[m].from
              /\ SetDelivered(t, S)[m].to = t[m].to
              /\ SetDelivered(t, S)[m].at = t[m].at
              /\ SetDelivered(t, S)[m].asks = t[m].asks
              /\ SetDelivered(t, S)[m].inReplyTo = t[m].inReplyTo
<1> DEFINE D == {m \in S : t[m].status = "PENDING"}
<1>1. D \in SUBSET Messages /\ "DELIVERED" \in Statuses
  BY DEF Statuses
<1>2. SetDelivered(t, S) = SetStatus(t, D, "DELIVERED")
  BY DEF SetDelivered
<1>3. \A m \in Messages : m \in D <=> m \in S /\ t[m].status = "PENDING"
  OBVIOUS
<1> HIDE DEF D
<1>4. SetStatus(t, D, "DELIVERED") \in Table
  BY <1>1, SetStatusType
<1>5. ASSUME NEW m \in Messages
      PROVE  /\ SetStatus(t, D, "DELIVERED")[m].status
                  = IF m \in D THEN "DELIVERED" ELSE t[m].status
             /\ SetStatus(t, D, "DELIVERED")[m].from = t[m].from
             /\ SetStatus(t, D, "DELIVERED")[m].to = t[m].to
             /\ SetStatus(t, D, "DELIVERED")[m].at = t[m].at
             /\ SetStatus(t, D, "DELIVERED")[m].asks = t[m].asks
             /\ SetStatus(t, D, "DELIVERED")[m].inReplyTo = t[m].inReplyTo
  BY <1>1, SetStatusType
<1>6. QED
  BY <1>2, <1>3, <1>4, <1>5

-----------------------------------------------------------------------------
(* Type correctness                                                        *)

\* What a call is can be read off the stage it is at.
LEMMA StageTells ==
  ASSUME NEW o \in Op \cup {NoOp}
  PROVE  /\ o.at \in {"count", "oldest", "expire", "insert", "flip"} => o.call = "send"
         /\ o.at \in {"persist", "mark"} => o.call = "drain"
         /\ o.at \in {"select", "claim"} => o.call = "claim"
         /\ o.at = "begin" => o.call \in {"send", "claim"}
         /\ o.at = "commit" => o.call \in {"send", "drain", "claim"}
         /\ o.call \notin {"send", "drain", "claim"} => o = NoOp
         /\ o.call = "send" => o.msg \in Messages /\ o.row \in Row
         /\ o.call = "claim" => o.corr \in Correlations
         /\ o.picked \in SUBSET Messages
         /\ o = NoOp => o.at = "idle" /\ o.call = "none" /\ o.picked = {}
         /\ o.at = "idle" => o = NoOp
BY DEF Op, NoOp, SendStages, DrainStages, ClaimStages

\* A call that goes on to another of its own stages, or picks rows, is a call.
LEMMA CallGoesOn ==
  ASSUME NEW o \in Op, NEW stage, NEW P \in SUBSET Messages,
         \/ o.call = "send" /\ stage \in SendStages
         \/ o.call = "drain" /\ stage \in DrainStages
         \/ o.call = "claim" /\ stage \in ClaimStages
  PROVE  /\ [o EXCEPT !.at = stage] \in Op
         /\ [o EXCEPT !.at = stage, !.picked = P] \in Op
<1>1. CASE o.call = "send"
  BY <1>1 DEF Op
<1>2. CASE o.call = "drain"
  BY <1>2 DEF Op
<1>3. CASE o.call = "claim"
  BY <1>3 DEF Op
<1>4. QED
  BY <1>1, <1>2, <1>3

\* Inserting a row makes it that row and leaves the others alone.
LEMMA InsertRowEffect ==
  ASSUME NEW t \in Table, NEW m \in Messages, NEW r \in Row
  PROVE  /\ InsertRow(t, m, r) \in Table
         /\ InsertRow(t, m, r)[m] = r
         /\ \A n \in Messages \ {m} : InsertRow(t, m, r)[n] = t[n]
BY DEF InsertRow, Table

\* What the flip of the answered questions does, row by row.
LEMMA FlipEffect ==
  ASSUME NEW t \in Table, NEW c
  PROVE  /\ FlipAnswered(t, c) \in Table
         /\ \A m \in Messages :
              /\ \/ FlipAnswered(t, c)[m].status = t[m].status
                 \/ /\ t[m].status \in {"PENDING", "DELIVERED"}
                    /\ FlipAnswered(t, c)[m].status = "RESPONDED"
              /\ FlipAnswered(t, c)[m].from = t[m].from
              /\ FlipAnswered(t, c)[m].to = t[m].to
              /\ FlipAnswered(t, c)[m].at = t[m].at
              /\ FlipAnswered(t, c)[m].asks = t[m].asks
              /\ FlipAnswered(t, c)[m].inReplyTo = t[m].inReplyTo
<1> DEFINE Q == OpenQuestions(t, c)
<1>1. Q \in SUBSET Messages /\ "RESPONDED" \in Statuses
  BY DEF OpenQuestions, Statuses
<1>2. \A m \in Q : t[m].status \in {"PENDING", "DELIVERED"}
  BY DEF OpenQuestions
<1>3. FlipAnswered(t, c) = SetStatus(t, Q, "RESPONDED")
  BY DEF FlipAnswered
<1> HIDE DEF Q
<1>4. QED
  BY <1>1, <1>2, <1>3, SetStatusType

\* What a coroutine reads is a table; ending a transaction without the lock, or
\* reading in one, leaves what is known of each of them.
LEMMA ViewTyped ==
  ASSUME TypeOK, NEW k \in Coroutines
  PROVE  View(k) \in Table /\ ConnOf[k] \in Conns /\ DeferredOf(k) \in Deferred
<1>1. ConnOf[k] \in Conns /\ db \in Table /\ work \in Table
      /\ deferred \in [Conns -> Deferred]
  BY AgentMessageStoreAssumption DEF TypeOK
<1>2. DeferredOf(k) \in Deferred /\ DeferredOf(k).sees \in Table
  BY <1>1 DEF DeferredOf, Deferred
<1>3. QED
  BY <1>1, <1>2 DEF View

LEMMA NotDeferredTyped == NotDeferred \in Deferred /\ BegunOnly \in Deferred
BY EmptyTableType DEF NotDeferred, BegunOnly, Deferred

LEMMA EndTyped ==
  ASSUME TypeOK, NEW k \in Coroutines, EndDeferred(k)
  PROVE  /\ deferred' \in [Conns -> Deferred]
         /\ deferred'[ConnOf[k]].at = "none"
         /\ \A c \in Conns \ {ConnOf[k]} : deferred'[c] = deferred[c]
<1>1. ConnOf[k] \in Conns /\ deferred \in [Conns -> Deferred]
  BY AgentMessageStoreAssumption DEF TypeOK
<1>2. NotDeferred \in Deferred /\ NotDeferred.at = "none"
  BY NotDeferredTyped DEF NotDeferred
<1>3. QED
  BY <1>1, <1>2 DEF EndDeferred

LEMMA LookTyped ==
  ASSUME TypeOK, NEW k \in Coroutines, Look(k)
  PROVE  /\ deferred' \in [Conns -> Deferred]
         /\ \A c \in Conns :
              \/ deferred'[c] = deferred[c]
              \/ deferred[c].at = "begun" /\ deferred'[c] = [at |-> "reading", sees |-> db]
<1>1. ConnOf[k] \in Conns /\ deferred \in [Conns -> Deferred] /\ db \in Table
  BY AgentMessageStoreAssumption DEF TypeOK
<1>2. [at |-> "reading", sees |-> db] \in Deferred
  BY <1>1 DEF Deferred
<1>3. QED
  BY <1>1, <1>2 DEF Look, DeferredOf

\* The calls that run a SELECT.
Looks(k) ==
  \/ CountPending(k) \/ SelectOldest(k) \/ SelectReply(k) \/ SelectGroup(k)
  \/ SelectNothing(k)

\* A SELECT changes nothing anybody reads.
LEMMA LooksSees ==
  ASSUME TypeOK, NEW k \in Coroutines, Looks(k)
  PROVE  /\ Look(k) /\ UNCHANGED <<db, work, writer>>
         /\ \A j \in Coroutines : View(j)' = View(j)
<1>1. Look(k) /\ UNCHANGED <<db, work, writer>>
  BY DEF Looks, CountPending, SelectOldest, SelectReply, SelectGroup, SelectNothing
<1>2. ASSUME NEW j \in Coroutines
      PROVE  View(j)' = View(j)
  <2>1. ConnOf[j] \in Conns
    BY AgentMessageStoreAssumption
  <2>2. CASE deferred'[ConnOf[j]] = deferred[ConnOf[j]]
    BY <1>1, <2>2 DEF View, DeferredOf
  <2>3. CASE /\ deferred[ConnOf[j]].at = "begun"
             /\ deferred'[ConnOf[j]] = [at |-> "reading", sees |-> db]
    BY <1>1, <2>3 DEF View, DeferredOf
  <2>4. QED
    BY <1>1, <2>1, <2>2, <2>3, LookTyped
<1>3. QED
  BY <1>1, <1>2

\* The group a reader picks are pending rows of its inbox.
LEMMA GroupIsPending ==
  ASSUME NEW t, NEW a
  PROVE  OldestGroup(t, a) \in SUBSET PendingIn(t, a)
BY DEF OldestGroup, Inbox

\* The oldest row of a set of rows is one of them.
LEMMA OldestPicked ==
  ASSUME NEW t \in Table, NEW S \in SUBSET Messages
  PROVE  (IF S = {} THEN {} ELSE {Oldest(t, S)}) \in SUBSET S
<1>1. S # {} => Oldest(t, S) \in S
  BY OldestIsLeast
<1>2. QED
  BY <1>1

\* What an UPDATE or INSERT turns the view of its connection into.
Written(k) ==
  CASE op[k].at = "expire" -> SetStatus(View(k), op[k].picked, "EXPIRED")
    [] op[k].at = "insert" -> InsertRow(View(k), op[k].msg, op[k].row)
    [] op[k].at = "flip"   -> FlipAnswered(View(k), op[k].row.inReplyTo)
    [] OTHER               -> SetDelivered(View(k), op[k].picked)

\* The calls that write.
Writes(k) ==
  Expire(k) \/ Insert(k) \/ Flip(k) \/ MarkDelivered(k) \/ ClaimReply(k)

LEMMA WritesEffect ==
  ASSUME TypeOK, NEW k \in Coroutines, Writes(k)
  PROVE  /\ Write(k, Written(k))
         /\ UNCHANGED <<clock, handed, failed>>
         /\ op[k].at \in {"expire", "insert", "flip", "mark", "claim"}
         /\ \E stage \in {"insert", "flip", "commit"} :
              \/ op' = [op EXCEPT ![k].at = stage]
              \/ op' = [op EXCEPT ![k].at = stage, ![k].picked = {}]
BY DEF Writes, Written, Expire, Insert, Flip, MarkDelivered, ClaimReply, Goto

LEMMA WrittenTyped ==
  ASSUME TypeOK, NEW k \in Coroutines,
         op[k].at \in {"expire", "insert", "flip", "mark", "claim"}
  PROVE  Written(k) \in Table
<1>1. View(k) \in Table /\ op[k] \in Op \cup {NoOp}
  BY ViewTyped DEF TypeOK
<1>2. op[k].picked \in SUBSET Messages
  BY <1>1, StageTells
<1>3. CASE op[k].at = "expire"
  BY <1>1, <1>2, <1>3, SetStatusType DEF Written, Statuses
<1>4. CASE op[k].at = "insert"
  BY <1>1, <1>4, StageTells, InsertRowEffect DEF Written
<1>5. CASE op[k].at = "flip"
  BY <1>1, <1>5, FlipEffect DEF Written
<1>6. CASE op[k].at \in {"mark", "claim"}
  BY <1>1, <1>2, <1>6, SetDeliveredEffect DEF Written
<1>7. QED
  BY <1>3, <1>4, <1>5, <1>6

\* Which of its stages each statement of a call leads to.
LEMMA StepGoesOn ==
  ASSUME TypeOK, NEW k \in Coroutines, Step(k)
  PROVE  op' \in [Coroutines -> Op \cup {NoOp}]
<1>1. op \in [Coroutines -> Op \cup {NoOp}] /\ View(k) \in Table
  BY ViewTyped DEF TypeOK
<1>2. op[k] \in Op \cup {NoOp}
  BY <1>1
<1>3. op[k].at \notin {"idle"} => op[k] \in Op
  BY <1>2 DEF NoOp
<1>4. ASSUME NEW o \in Op \cup {NoOp}, op' = [op EXCEPT ![k] = o]
      PROVE  op' \in [Coroutines -> Op \cup {NoOp}]
  BY <1>1, <1>4
<1>5. NoOp \in Op \cup {NoOp}
  OBVIOUS
<1>6. CASE BeginRefused(k) \/ Commit(k)
  BY <1>4, <1>5, <1>6 DEF BeginRefused, Commit, Return
<1>7. ASSUME NEW stage, NEW P \in SUBSET Messages,
             \/ op[k].call = "send" /\ stage \in SendStages
             \/ op[k].call = "drain" /\ stage \in DrainStages
             \/ op[k].call = "claim" /\ stage \in ClaimStages,
             \/ op' = [op EXCEPT ![k].at = stage]
             \/ op' = [op EXCEPT ![k].at = stage, ![k].picked = P]
      PROVE  op' \in [Coroutines -> Op \cup {NoOp}]
  <2>1. op[k] \in Op
    BY <1>2, <1>7 DEF NoOp
  <2>2. /\ [op[k] EXCEPT !.at = stage] \in Op \cup {NoOp}
        /\ [op[k] EXCEPT !.at = stage, !.picked = P] \in Op \cup {NoOp}
    <3> DEFINE o == op[k]
    <3>1. \/ o.call = "send" /\ stage \in SendStages
          \/ o.call = "drain" /\ stage \in DrainStages
          \/ o.call = "claim" /\ stage \in ClaimStages
      BY <1>7
    <3>2. o \in Op
      BY <2>1
    <3> HIDE DEF o
    <3>3. [o EXCEPT !.at = stage] \in Op /\ [o EXCEPT !.at = stage, !.picked = P] \in Op
      BY <3>1, <3>2, CallGoesOn, ZenonT(40)
    <3>4. QED
      BY <3>3 DEF o
  <2>3. \/ op' = [op EXCEPT ![k] = [op[k] EXCEPT !.at = stage]]
        \/ op' = [op EXCEPT ![k] = [op[k] EXCEPT !.at = stage, !.picked = P]]
    BY <1>1, <1>7
  <2>4. QED
    BY <1>4, <2>2, <2>3
<1>8. {} \in SUBSET Messages
  OBVIOUS
<1>9. CASE Begin(k)
  BY <1>2, <1>7, <1>8, <1>9, StageTells
     DEF Begin, Goto, SendStages, ClaimStages
<1>10. CASE CountPending(k)
  BY <1>2, <1>7, <1>8, <1>10, StageTells DEF CountPending, Goto, SendStages
<1>11. CASE SelectOldest(k)
  <2> DEFINE S == PendingIn(View(k), op[k].row.to)
             P == IF S = {} THEN {} ELSE {Oldest(View(k), S)}
             stage == IF S = {} THEN "insert" ELSE "expire"
  <2>1. P \in SUBSET Messages
    BY <1>1, PendingFinite, OldestPicked
  <2>2. op' = [op EXCEPT ![k].at = stage, ![k].picked = P]
    BY <1>11 DEF SelectOldest
  <2>3. op[k].call = "send" /\ stage \in SendStages
    BY <1>2, <1>11, StageTells DEF SelectOldest, SendStages
  <2> HIDE DEF P, stage
  <2>4. QED
    BY <1>7, <2>1, <2>2, <2>3
<1>12. CASE SelectReply(k)
  <2> DEFINE S == RepliesTo(View(k), AddressOf[k], op[k].corr)
             P == IF S = {} THEN {} ELSE {Oldest(View(k), S)}
             stage == IF S = {} THEN "commit" ELSE "claim"
  <2>1. P \in SUBSET Messages
    <3>1. S \in SUBSET Messages
      BY DEF RepliesTo, PendingIn
    <3>2. QED
      BY <1>1, <3>1, OldestPicked
  <2>2. op' = [op EXCEPT ![k].at = stage, ![k].picked = P]
    BY <1>12 DEF SelectReply
  <2>3. op[k].call = "claim" /\ stage \in ClaimStages
    BY <1>2, <1>12, StageTells DEF SelectReply, ClaimStages
  <2> HIDE DEF P, stage
  <2>4. QED
    BY <1>7, <2>1, <2>2, <2>3
<1>13. CASE Expire(k)
  BY <1>2, <1>7, <1>8, <1>13, StageTells DEF Expire, SendStages
<1>14. CASE Insert(k)
  BY <1>2, <1>7, <1>8, <1>14, StageTells DEF Insert, Goto, SendStages
<1>15. CASE Flip(k)
  BY <1>2, <1>7, <1>8, <1>15, StageTells DEF Flip, Goto, SendStages
<1>16. CASE PersistGroup(k)
  BY <1>2, <1>7, <1>8, <1>16, StageTells DEF PersistGroup, Goto, DrainStages
<1>17. CASE MarkDelivered(k)
  BY <1>2, <1>7, <1>8, <1>17, StageTells DEF MarkDelivered, Goto, DrainStages
<1>18. CASE ClaimReply(k)
  BY <1>2, <1>7, <1>8, <1>18, StageTells DEF ClaimReply, Goto, ClaimStages
<1>19. QED
  BY <1>6, <1>9, <1>10, <1>11, <1>12, <1>13, <1>14, <1>15, <1>16, <1>17, <1>18
     DEF Step

\* A call moves no other call.
LEMMA OneMoves ==
  ASSUME TypeOK, NEW k \in Coroutines,
         \/ \E m \in Messages, to \in Agents, asks, re \in MaybeCorrelation :
              StartSend(k, m, to, asks, re)
         \/ SelectGroup(k)
         \/ \E c \in Correlations : StartClaim(k, c)
         \/ Step(k)
         \/ SelectNothing(k)
         \/ Cancel(k)
         \/ Busy(k)
  PROVE  \A j \in Coroutines \ {k} : op'[j] = op[j]
<1>1. op \in [Coroutines -> Op \cup {NoOp}]
  BY DEF TypeOK
<1>2. CASE Step(k)
  <2>1. CASE Begin(k) \/ BeginRefused(k) \/ CountPending(k) \/ SelectOldest(k)
    BY <1>1, <2>1 DEF Begin, BeginRefused, CountPending, SelectOldest, Goto, Return
  <2>2. CASE Commit(k) \/ PersistGroup(k) \/ SelectReply(k)
    BY <1>1, <2>2 DEF Commit, PersistGroup, SelectReply, Goto, Return
  <2>3. CASE Writes(k)
    BY <1>1, <2>3, WritesEffect
  <2>4. QED
    BY <1>2, <2>1, <2>2, <2>3 DEF Step, Writes
<1>3. CASE SelectNothing(k) \/ Cancel(k) \/ Busy(k)
  BY <1>1, <1>3 DEF SelectNothing, Cancel, Busy, Return
<1>4. QED
  BY <1>1, <1>2, <1>3 DEF StartSend, SelectGroup, StartClaim

\* The initial state is a state of the right type.
LEMMA InitTypeOK == Init => TypeOK
BY EmptyTableType, NotDeferredTyped DEF Init, TypeOK

\* Every statement keeps the variables in their types.
LEMMA StepTypeOK == TypeOK /\ [Next]_vars => TypeOK'
<1> SUFFICES ASSUME TypeOK, [Next]_vars PROVE TypeOK'
  OBVIOUS
<1>0. /\ op \in [Coroutines -> Op \cup {NoOp}]
      /\ ConnOf \in [Coroutines -> Conns] /\ AddressOf \in [Coroutines -> Agents]
  BY AgentMessageStoreAssumption DEF TypeOK
<1>1. ASSUME NEW k \in Coroutines, NEW o \in Op \cup {NoOp},
             op' = [op EXCEPT ![k] = o]
      PROVE  op' \in [Coroutines -> Op \cup {NoOp}]
  BY <1>0, <1>1
<1>2. ASSUME NEW k \in Coroutines, NEW m \in Messages, NEW to \in Agents,
             NEW asks \in MaybeCorrelation, NEW re \in MaybeCorrelation,
             StartSend(k, m, to, asks, re)
      PROVE  TypeOK'
  <2> DEFINE row == NewRow(AddressOf[k], to, clock, asks, re)
             o == [call |-> "send", at |-> "begin", msg |-> m, picked |-> {},
                   row |-> row]
  <2>1. row \in Row
    BY <1>0, <1>2 DEF StartSend, NewRow, Row, Statuses
  <2>2. o \in Op
    <3> HIDE DEF row
    <3>1. QED
      BY <2>1 DEF Op, SendStages
  <2>3. op' = [op EXCEPT ![k] = o]
    BY <1>2 DEF StartSend
  <2> HIDE DEF o
  <2>4. op' \in [Coroutines -> Op \cup {NoOp}]
    BY <1>1, <2>2, <2>3
  <2>5. QED
    BY <1>2, <2>4 DEF TypeOK, StartSend
<1>3. ASSUME NEW k \in Coroutines, SelectGroup(k) PROVE TypeOK'
  <2> DEFINE o == [call |-> "drain", at |-> "persist",
                   picked |-> OldestGroup(View(k), AddressOf[k])]
  <2>1. OldestGroup(View(k), AddressOf[k]) \in SUBSET Messages
    BY GroupIsPending DEF PendingIn
  <2>2. o \in Op
    BY <2>1 DEF Op, DrainStages
  <2>3. op' = [op EXCEPT ![k] = o]
    BY <1>3 DEF SelectGroup
  <2> HIDE DEF o
  <2>4. deferred' \in [Conns -> Deferred]
    BY <1>3, LookTyped DEF SelectGroup
  <2>5. QED
    BY <1>1, <1>3, <2>2, <2>3, <2>4 DEF TypeOK, SelectGroup
<1>4. ASSUME NEW k \in Coroutines, NEW c \in Correlations, StartClaim(k, c)
      PROVE  TypeOK'
  <2> DEFINE o == [call |-> "claim", at |-> "begin", corr |-> c, picked |-> {}]
  <2>1. o \in Op
    BY DEF Op, ClaimStages
  <2>2. op' = [op EXCEPT ![k] = o]
    BY <1>4 DEF StartClaim
  <2> HIDE DEF o
  <2>3. QED
    BY <1>1, <1>4, <2>1, <2>2 DEF TypeOK, StartClaim
<1>5. ASSUME NEW k \in Coroutines, Step(k) PROVE TypeOK'
  <2>1. op' \in [Coroutines -> Op \cup {NoOp}]
    BY <1>5, StepGoesOn
  <2>2. CASE Begin(k)
    BY <1>0, <2>1, <2>2 DEF TypeOK, Begin
  <2>3. CASE BeginRefused(k) \/ CountPending(k) \/ SelectOldest(k) \/ SelectReply(k)
    <3>1. CASE BeginRefused(k)
      BY <2>1, <3>1 DEF TypeOK, BeginRefused, Troubles
    <3>2. CASE CountPending(k) \/ SelectOldest(k) \/ SelectReply(k)
      <4>1. deferred' \in [Conns -> Deferred]
        BY <3>2, LookTyped DEF CountPending, SelectOldest, SelectReply
      <4>2. QED
        BY <2>1, <3>2, <4>1 DEF TypeOK, CountPending, SelectOldest, SelectReply
    <3>3. QED
      BY <2>3, <3>1, <3>2
  <2>4. CASE Writes(k)
    <3>1. /\ Write(k, Written(k)) /\ UNCHANGED <<clock, handed, failed>>
          /\ Written(k) \in Table
      BY <2>4, WritesEffect, WrittenTyped
    <3>2. writer' \in Conns /\ work' \in Table /\ db' = db
          /\ deferred' \in [Conns -> Deferred]
      BY <1>0, <3>1, EndTyped DEF Write
    <3>3. QED
      BY <2>1, <3>1, <3>2 DEF TypeOK
  <2>5. CASE Commit(k) \/ PersistGroup(k)
    <3>1. op[k].picked \in SUBSET Messages
      BY <1>0, StageTells
    <3>2. CASE Commit(k)
      <4>1. deferred' \in [Conns -> Deferred]
        BY <3>2, EndTyped DEF Commit
      <4>2. QED
        BY <2>1, <3>1, <3>2, <4>1 DEF TypeOK, Commit
    <3>3. CASE PersistGroup(k)
      BY <2>1, <3>1, <3>3 DEF TypeOK, PersistGroup
    <3>4. QED
      BY <2>5, <3>2, <3>3
  <2>6. QED
    BY <1>5, <2>2, <2>3, <2>4, <2>5 DEF Step, Writes
<1>6. ASSUME NEW k \in Coroutines, Cancel(k) \/ Busy(k) PROVE TypeOK'
  <2>1. op' = [op EXCEPT ![k] = NoOp] /\ NoOp \in Op \cup {NoOp}
    BY <1>6 DEF Cancel, Busy, Return
  <2>2. op' \in [Coroutines -> Op \cup {NoOp}]
    BY <1>1, <2>1
  <2>3. CASE Cancel(k)
    BY <2>2, <2>3 DEF TypeOK, Cancel, Troubles
  <2>4. CASE Busy(k)
    <3>1. deferred \in [Conns -> Deferred]
      BY DEF TypeOK
    <3>2. PICK d \in Deferred : deferred' = [deferred EXCEPT ![ConnOf[k]] = d]
      BY <1>0, <2>4, <3>1, NotDeferredTyped DEF Busy
    <3>3. deferred' \in [Conns -> Deferred]
      BY <3>1, <3>2
    <3>4. QED
      BY <2>2, <2>4, <3>3 DEF TypeOK, Busy, Troubles
  <2>5. QED
    BY <1>6, <2>3, <2>4
<1>7. ASSUME NEW c \in Conns, Crash(c) PROVE TypeOK'
  <2>1. op' \in [Coroutines -> Op \cup {NoOp}]
    BY <1>0, <1>7 DEF Crash
  <2>2. deferred' \in [Conns -> Deferred]
    BY <1>7, NotDeferredTyped DEF Crash, TypeOK
  <2>3. QED
    BY <1>7, <2>1, <2>2 DEF TypeOK, Crash
<1>10. ASSUME NEW k \in Coroutines, SelectNothing(k) PROVE TypeOK'
  <2>1. deferred' \in [Conns -> Deferred]
    BY <1>10, LookTyped DEF SelectNothing
  <2>2. QED
    BY <1>10, <2>1 DEF TypeOK, SelectNothing
<1>8. CASE UNCHANGED vars
  BY <1>8 DEF TypeOK, vars
<1>9. QED
  BY <1>2, <1>3, <1>4, <1>5, <1>6, <1>7, <1>8, <1>10 DEF Next

\* The variables of the store keep their types.
THEOREM TypeCorrect == Spec => []TypeOK
BY InitTypeOK, StepTypeOK, PTL DEF Spec

-----------------------------------------------------------------------------
(* Who holds the write lock                                                *)

\* A connection that has the write lock has a coroutine inside a transaction,
\* which ends it, or one that was cancelled inside.
Held ==
  \A c \in Conns : writer = c =>
    \E k \in Coroutines :
      ConnOf[k] = c /\ (op[k].at \in InTransaction \/ <<k, "left">> \in failed)

\* One that has a transaction without the lock does not have the lock, and had
\* a call refused it.
Lockless ==
  \A c \in Conns : deferred[c].at # "none" =>
    /\ writer # c
    /\ \E k \in Coroutines : ConnOf[k] = c /\ <<k, "busy">> \in failed

\* What a statement means for the lock.
LEMMA StepLock ==
  ASSUME TypeOK, NEW k \in Coroutines, Step(k)
  PROVE  \/ /\ writer' = ConnOf[k] /\ op'[k].at \in InTransaction
            /\ writer \in {NoConn, ConnOf[k]}
         \/ /\ op[k].at = "commit" /\ op'[k].at = "idle"
            /\ writer' = IF writer = ConnOf[k] THEN NoConn ELSE writer
         \/ /\ op[k].at \notin InTransaction /\ op'[k].at \notin InTransaction
            /\ UNCHANGED writer
         \/ /\ op[k].at \in InTransaction /\ op'[k].at \in InTransaction
            /\ UNCHANGED writer
<1>1. op \in [Coroutines -> Op \cup {NoOp}] /\ NoConn \notin Conns
      /\ ConnOf[k] \in Conns
  BY AgentMessageStoreAssumption DEF TypeOK
<1>2. op[k] \in Op \cup {NoOp}
  BY <1>1
<1>3. ASSUME NEW stage, op' = [op EXCEPT ![k].at = stage],
             op[k].at # "idle"
      PROVE  op'[k].at = stage
  BY <1>1, <1>2, <1>3 DEF Op
<1>4. ASSUME NEW stage, NEW P, op' = [op EXCEPT ![k].at = stage, ![k].picked = P],
             op[k].at # "idle"
      PROVE  op'[k].at = stage
  BY <1>1, <1>2, <1>4 DEF Op
<1>5. CASE Begin(k)
  BY <1>3, <1>5 DEF Begin, Goto, InTransaction
<1>6. CASE BeginRefused(k) \/ PersistGroup(k)
  <2>1. BeginRefused(k) => op'[k].at = "idle"
    BY <1>1 DEF BeginRefused, Return, NoOp
  <2>2. PersistGroup(k) => op'[k].at = "mark"
    BY <1>3 DEF PersistGroup, Goto
  <2>3. QED
    BY <1>6, <2>1, <2>2 DEF BeginRefused, PersistGroup, InTransaction
<1>7. CASE CountPending(k)
  BY <1>3, <1>7 DEF CountPending, Goto, InTransaction
<1>8. CASE SelectOldest(k)
  <2>1. op'[k].at = IF PendingIn(View(k), op[k].row.to) = {} THEN "insert" ELSE "expire"
    BY <1>4, <1>8 DEF SelectOldest
  <2>2. QED
    BY <1>8, <2>1 DEF SelectOldest, InTransaction
<1>9. CASE SelectReply(k)
  <2>1. op'[k].at \in {"commit", "claim"}
    BY <1>4, <1>9 DEF SelectReply
  <2>2. QED
    BY <1>9, <2>1 DEF SelectReply, InTransaction
<1>10. CASE Writes(k)
  <2>1. /\ Write(k, Written(k)) /\ op[k].at # "idle"
        /\ \E stage \in {"insert", "flip", "commit"} :
              \/ op' = [op EXCEPT ![k].at = stage]
              \/ op' = [op EXCEPT ![k].at = stage, ![k].picked = {}]
    BY <1>10, WritesEffect
  <2>2. op'[k].at \in {"insert", "flip", "commit"}
    BY <1>3, <1>4, <2>1
  <2>3. QED
    BY <2>1, <2>2 DEF Write, InTransaction
<1>11. CASE Commit(k)
  BY <1>1, <1>11 DEF Commit, Return, NoOp
<1>12. QED
  BY <1>5, <1>6, <1>7, <1>8, <1>9, <1>10, <1>11 DEF Step, Writes

\* What went wrong is not forgotten, and only three actions add to it.
LEMMA FailedGrows ==
  ASSUME [Next]_vars
  PROVE  /\ failed \subseteq failed'
         /\ \/ failed' = failed
            \/ \E k \in Coroutines : BeginRefused(k) \/ Cancel(k) \/ Busy(k)
<1>1. ASSUME NEW k \in Coroutines, Step(k)
      PROVE  failed' = failed \/ BeginRefused(k)
  BY <1>1 DEF Step, Begin, CountPending, SelectOldest, Expire, Insert, Flip, Commit,
              PersistGroup, MarkDelivered, SelectReply, ClaimReply
<1>2. ASSUME NEW k \in Coroutines, BeginRefused(k) \/ Cancel(k) \/ Busy(k)
      PROVE  failed \subseteq failed'
  BY <1>2 DEF BeginRefused, Cancel, Busy
<1>3. QED
  BY <1>1, <1>2 DEF Next, vars, StartSend, SelectGroup, StartClaim, SelectNothing, Crash

\* How the transaction without the lock of a connection changes: its first
\* SELECT freezes what it sees, a refused UPDATE leaves one behind, and the rest
\* ends it.
LEMMA DeferredMoves ==
  ASSUME TypeOK, [Next]_vars, NEW c \in Conns
  PROVE  \/ deferred'[c] = deferred[c]
         \/ deferred'[c].at = "none"
         \/ /\ deferred[c].at = "begun" /\ UNCHANGED writer
            /\ deferred'[c] = [at |-> "reading", sees |-> db] /\ db' = db
         \/ /\ deferred[c].at = "none" /\ deferred'[c] = BegunOnly
            /\ writer # c /\ UNCHANGED writer
            /\ \E k \in Coroutines :
                 Busy(k) /\ ConnOf[k] = c /\ <<k, "busy">> \in failed'
<1>0. deferred \in [Conns -> Deferred] /\ \A k \in Coroutines : ConnOf[k] \in Conns
  BY AgentMessageStoreAssumption DEF TypeOK
<1>1. ASSUME NEW k \in Coroutines, Looks(k)
      PROVE  \/ deferred'[c] = deferred[c]
             \/ /\ deferred[c].at = "begun" /\ UNCHANGED writer
                /\ deferred'[c] = [at |-> "reading", sees |-> db] /\ db' = db
  BY <1>1, LooksSees, LookTyped
<1>2. ASSUME NEW k \in Coroutines, EndDeferred(k)
      PROVE  deferred'[c] = deferred[c] \/ deferred'[c].at = "none"
  BY <1>2, EndTyped
<1>3. ASSUME NEW k \in Coroutines, Busy(k)
      PROVE  \/ deferred'[c] = deferred[c]
             \/ deferred'[c].at = "none"
             \/ /\ deferred[c].at = "none" /\ deferred'[c] = BegunOnly
                /\ writer # c /\ UNCHANGED writer
                /\ \E j \in Coroutines :
                     Busy(j) /\ ConnOf[j] = c /\ <<j, "busy">> \in failed'
  <2>1. /\ deferred' = [deferred EXCEPT ![ConnOf[k]] =
                IF op[k].at # "mark" THEN NotDeferred
                ELSE IF @.at = "none" THEN BegunOnly ELSE @]
        /\ <<k, "busy">> \in failed' /\ UNCHANGED writer
        /\ DeferredOf(k).at = "none" => writer # ConnOf[k]
    BY <1>3 DEF Busy, LockIsLeft
  <2>2. CASE c # ConnOf[k]
    BY <1>0, <2>1, <2>2
  <2>3. CASE c = ConnOf[k]
    BY <1>0, <1>3, <2>1, <2>3 DEF DeferredOf, NotDeferred
  <2>4. QED
    BY <2>2, <2>3
<1>4. ASSUME NEW d \in Conns, Crash(d)
      PROVE  deferred'[c] = deferred[c] \/ deferred'[c].at = "none"
  BY <1>0, <1>4 DEF Crash, NotDeferred
<1>5. ASSUME NEW k \in Coroutines, Step(k)
      PROVE  Looks(k) \/ EndDeferred(k) \/ deferred' = deferred
  BY <1>5 DEF Step, Looks, Begin, BeginRefused, Expire, Insert, Flip, Commit,
              PersistGroup, MarkDelivered, ClaimReply, Write
<1>6. ASSUME NEW k \in Coroutines, SelectGroup(k) \/ SelectNothing(k)
      PROVE  Looks(k)
  BY <1>6 DEF Looks
<1>7. QED
  BY <1>1, <1>2, <1>3, <1>4, <1>5, <1>6
     DEF Next, vars, StartSend, StartClaim, Cancel

\* A connection gets the lock only by ending its transaction without one.
LEMMA LockEnds ==
  ASSUME TypeOK, [Next]_vars, NEW c \in Conns, writer' = c
  PROVE  writer = c \/ deferred'[c].at = "none"
<1>0. NoConn \notin Conns /\ \A k \in Coroutines : ConnOf[k] \in Conns
  BY AgentMessageStoreAssumption
<1>1. ASSUME NEW k \in Coroutines, Step(k), writer' # writer
      PROVE  deferred'[c].at = "none"
  <2>1. CASE Begin(k)
    BY <2>1 DEF Begin, DeferredOf
  <2>2. CASE Writes(k)
    BY <2>2, WritesEffect, EndTyped DEF Write
  <2>3. CASE Commit(k)
    BY <1>0, <1>1, <2>3 DEF Commit
  <2>4. QED
    BY <1>1, <2>1, <2>2, <2>3
       DEF Step, Writes, BeginRefused, CountPending, SelectOldest, PersistGroup, SelectReply
<1>2. ASSUME NEW d \in Conns, Crash(d) PROVE writer = c
  BY <1>0, <1>2 DEF Crash
<1>3. QED
  BY <1>1, <1>2
     DEF Next, vars, StartSend, SelectGroup, StartClaim, SelectNothing, Cancel, Busy

LEMMA StepLockless == TypeOK /\ Lockless /\ [Next]_vars => Lockless'
<1> SUFFICES ASSUME TypeOK, Lockless, [Next]_vars,
                    NEW c \in Conns, deferred'[c].at # "none"
             PROVE  /\ writer' # c
                    /\ \E k \in Coroutines : ConnOf[k] = c /\ <<k, "busy">> \in failed'
  BY DEF Lockless
<1>1. failed \subseteq failed'
  BY FailedGrows
<1>2. writer' # c \/ writer = c
  BY LockEnds
<1>3. CASE deferred'[c] = deferred[c]
  BY <1>1, <1>2, <1>3 DEF Lockless
<1>4. CASE deferred[c].at = "begun" /\ UNCHANGED writer
  BY <1>1, <1>4 DEF Lockless
<1>5. QED
  BY <1>3, <1>4, DeferredMoves

LEMMA StepHeld == TypeOK /\ Lockless /\ Held /\ [Next]_vars => Held'
<1> DEFINE Ends(j) == op'[j].at \in InTransaction \/ <<j, "left">> \in failed'
<1> SUFFICES ASSUME TypeOK, Lockless, Held, [Next]_vars, NEW c \in Conns, writer' = c
             PROVE  \E k \in Coroutines : ConnOf[k] = c /\ Ends(k)
  BY DEF Held
<1>0. op \in [Coroutines -> Op \cup {NoOp}] /\ NoConn \notin Conns
      /\ failed \subseteq failed'
  BY AgentMessageStoreAssumption, FailedGrows DEF TypeOK
<1>1. ASSUME writer = c
      PROVE  \E k \in Coroutines :
               ConnOf[k] = c /\ (op[k].at \in InTransaction \/ <<k, "left">> \in failed)
  BY <1>1 DEF Held
\* A call that was not in a transaction leaves the one who is alone.
<1>2. ASSUME NEW k \in Coroutines, UNCHANGED writer,
             op[k].at \notin InTransaction \/ Ends(k) \/ ConnOf[k] # c,
             \A j \in Coroutines \ {k} : op'[j] = op[j]
      PROVE  \E j \in Coroutines : ConnOf[j] = c /\ Ends(j)
  BY <1>0, <1>1, <1>2
<1>3. ASSUME NEW k \in Coroutines, Step(k)
      PROVE  \E j \in Coroutines : ConnOf[j] = c /\ Ends(j)
  <2>1. \A j \in Coroutines \ {k} : op'[j] = op[j]
    BY <1>3, OneMoves
  <2>2. CASE writer' = ConnOf[k] /\ op'[k].at \in InTransaction
    BY <2>2
  <2>3. CASE writer' = IF writer = ConnOf[k] THEN NoConn ELSE writer
    BY <1>0, <1>1, <2>1, <2>3
  <2>4. QED
    BY <1>2, <1>3, <2>1, <2>2, <2>3, StepLock
<1>4. ASSUME NEW k \in Coroutines,
             \/ \E m \in Messages, to \in Agents, asks, re \in MaybeCorrelation :
                  StartSend(k, m, to, asks, re)
             \/ SelectGroup(k) \/ SelectNothing(k)
             \/ \E d \in Correlations : StartClaim(k, d)
      PROVE  \E j \in Coroutines : ConnOf[j] = c /\ Ends(j)
  <2>1. \A j \in Coroutines \ {k} : op'[j] = op[j]
    BY <1>4, OneMoves
  <2>2. op[k] = NoOp /\ UNCHANGED writer
    BY <1>4 DEF StartSend, SelectGroup, SelectNothing, StartClaim
  <2>3. op[k].at \notin InTransaction
    BY <2>2 DEF NoOp, InTransaction
  <2>4. QED
    BY <1>2, <2>1, <2>2, <2>3
\* A call that is cancelled in the transaction it holds is to blame for it.
<1>5. ASSUME NEW k \in Coroutines, Cancel(k)
      PROVE  \E j \in Coroutines : ConnOf[j] = c /\ Ends(j)
  <2>1. \A j \in Coroutines \ {k} : op'[j] = op[j]
    BY <1>5, OneMoves
  <2>2. UNCHANGED writer
    BY <1>5 DEF Cancel
  <2>3. CASE op[k].at \in InTransaction /\ ConnOf[k] = c
    <3>1. <<k, "left">> \in failed'
      BY <1>5, <2>2, <2>3 DEF Cancel
    <3>2. QED
      BY <2>3, <3>1
  <2>4. QED
    BY <1>2, <2>1, <2>2, <2>3
\* It gives up waiting for another connection, or rolls back what has no lock.
<1>6. ASSUME NEW k \in Coroutines, Busy(k)
      PROVE  \E j \in Coroutines : ConnOf[j] = c /\ Ends(j)
  <2>1. \A j \in Coroutines \ {k} : op'[j] = op[j]
    BY <1>6, OneMoves
  <2>2. UNCHANGED writer /\ ConnOf[k] \in Conns
    BY <1>6, AgentMessageStoreAssumption DEF Busy
  <2>3. ConnOf[k] # c
    BY <1>6, <2>2 DEF Busy, LockIsLeft, Lockless, DeferredOf
  <2>4. QED
    BY <1>2, <2>1, <2>2, <2>3
<1>7. ASSUME NEW d \in Conns, Crash(d)
      PROVE  \E j \in Coroutines : ConnOf[j] = c /\ Ends(j)
  <2>1. d # c /\ writer = c
    BY <1>0, <1>7 DEF Crash
  <2>2. \A j \in Coroutines : ConnOf[j] = c => op'[j] = op[j]
    BY <1>7, <2>1 DEF Crash
  <2>3. QED
    BY <1>0, <1>1, <2>1, <2>2
<1>8. CASE UNCHANGED vars
  BY <1>1, <1>8 DEF vars
<1>9. QED
  BY <1>3, <1>4, <1>5, <1>6, <1>7, <1>8 DEF Next

\* In every state a connection that has the write lock has somebody to end its
\* transaction, or to blame; and so has one with a transaction without it.
THEOREM HeldAlways == Spec => [](Held /\ Lockless)
<1>1. Init => Held /\ Lockless
  BY AgentMessageStoreAssumption DEF Init, Held, Lockless, NotDeferred
<1>2. QED
  BY <1>1, StepHeld, StepLockless, TypeCorrect, PTL DEF Spec

\* Whatever coroutines share a connection: one is left in a transaction that
\* nobody ends only after one of its own calls was cancelled in it, or, without
\* the write lock, was refused that lock.
THEOREM NoneStranded == Spec => []NoStrandedTransaction
<1>1. TypeOK /\ Held /\ Lockless => NoStrandedTransaction
  <2> SUFFICES ASSUME TypeOK, Held, Lockless, NEW c \in Conns
               PROVE  LET here == {k \in Coroutines : ConnOf[k] = c}
                      IN  /\ writer = c /\ (\A k \in here : op[k] = NoOp)
                               => \E k \in here : <<k, "left">> \in failed
                          /\ deferred[c].at # "none"
                               => writer # c /\ \E k \in here : <<k, "busy">> \in failed
    BY DEF NoStrandedTransaction
  <2>1. ASSUME writer = c, \A k \in Coroutines : ConnOf[k] = c => op[k] = NoOp
        PROVE  \E k \in Coroutines : ConnOf[k] = c /\ <<k, "left">> \in failed
    BY <2>1 DEF Held, NoOp, InTransaction
  <2>2. QED
    BY <2>1 DEF Lockless
<1>2. QED
  BY <1>1, HeldAlways, TypeCorrect, PTL

\* However connections are shared: a call is refused the lock only after a
\* cancelled call of another connection left its transaction open, and BEGIN is
\* refused as nested to a coroutine alone on its connection only after one of
\* the two happened to it.
THEOREM ContentionBacksOff == Spec => []ContendedWritesBackOff
<1>1. TypeOK /\ Held /\ Lockless /\ ContendedWritesBackOff /\ [Next]_vars
        => ContendedWritesBackOff'
  <2> SUFFICES ASSUME TypeOK, Held, Lockless, ContendedWritesBackOff, [Next]_vars,
                      NEW k \in Coroutines
               PROVE  /\ <<k, "busy">> \in failed' =>
                           \E j \in Coroutines :
                             ConnOf[j] # ConnOf[k] /\ <<j, "left">> \in failed'
                      /\ <<k, "nested">> \in failed' =>
                           \E j \in Coroutines :
                             /\ ConnOf[j] = ConnOf[k]
                             /\ j # k \/ <<j, "left">> \in failed' \/ <<j, "busy">> \in failed'
    BY Zenon DEF ContendedWritesBackOff
  <2>0. \A i \in Coroutines : ConnOf[i] \in Conns
    BY AgentMessageStoreAssumption
  <2>1. failed \subseteq failed'
    BY FailedGrows
  <2>2. CASE failed' = failed
    BY <2>2 DEF ContendedWritesBackOff
  <2>3. ASSUME NEW i \in Coroutines, BeginRefused(i)
        PROVE  \E j \in Coroutines :
                 /\ ConnOf[j] = ConnOf[i]
                 /\ j # i \/ <<j, "left">> \in failed \/ <<j, "busy">> \in failed
    <3>1. CASE writer = ConnOf[i]
      <4>1. PICK j \in Coroutines :
              ConnOf[j] = writer /\ (op[j].at \in InTransaction \/ <<j, "left">> \in failed)
        BY <2>0, <3>1 DEF Held
      <4>2. op[i].at \notin InTransaction
        BY <2>3 DEF BeginRefused, InTransaction
      <4>3. QED
        BY <3>1, <4>1, <4>2
    <3>2. CASE DeferredOf(i).at # "none"
      BY <2>0, <3>2 DEF Lockless, DeferredOf
    <3>3. QED
      BY <2>3, <3>1, <3>2 DEF BeginRefused
  <2>4. ASSUME NEW i \in Coroutines, Busy(i)
        PROVE  \E j \in Coroutines : ConnOf[j] # ConnOf[i] /\ <<j, "left">> \in failed
    <3>1. CASE LockIsLeft(i)
      <4>1. writer \in Conns /\ writer # ConnOf[i]
        BY <3>1 DEF TypeOK, LockIsLeft
      <4>2. PICK j \in Coroutines :
              ConnOf[j] = writer /\ (op[j].at \in InTransaction \/ <<j, "left">> \in failed)
        BY <4>1 DEF Held
      <4>3. op[j] = NoOp
        BY <3>1, <4>2 DEF LockIsLeft
      <4>4. QED
        BY <4>1, <4>2, <4>3 DEF NoOp, InTransaction
    <3>2. CASE DeferredOf(i).at = "reading"
      <4>1. PICK l \in Coroutines : ConnOf[l] = ConnOf[i] /\ <<l, "busy">> \in failed
        BY <2>0, <3>2 DEF Lockless, DeferredOf
      <4>2. QED
        BY <4>1 DEF ContendedWritesBackOff
    <3>3. QED
      BY <2>4, <3>1, <3>2 DEF Busy
  <2>5. CASE \E i \in Coroutines : BeginRefused(i)
    <3>1. PICK i \in Coroutines : BeginRefused(i)
      BY <2>5
    <3>2. failed' = failed \cup {<<i, "nested">>}
      BY <3>1 DEF BeginRefused
    <3>3. <<k, "busy">> \in failed' => <<k, "busy">> \in failed
      BY <3>2
    <3>4. <<k, "nested">> \in failed' => <<k, "nested">> \in failed \/ k = i
      BY <3>2
    <3>5. QED
      BY <2>1, <2>3, <3>1, <3>3, <3>4 DEF ContendedWritesBackOff
  <2>6. CASE \E i \in Coroutines : Cancel(i)
    <3>1. PICK i \in Coroutines : failed' \subseteq failed \cup {<<i, "left">>}
      BY <2>6 DEF Cancel
    <3>2. /\ <<k, "busy">> \in failed' => <<k, "busy">> \in failed
          /\ <<k, "nested">> \in failed' => <<k, "nested">> \in failed
      BY <3>1
    <3>3. QED
      BY <2>1, <3>2 DEF ContendedWritesBackOff
  <2>7. CASE \E i \in Coroutines : Busy(i)
    <3>1. PICK i \in Coroutines : Busy(i)
      BY <2>7
    <3>2. failed' = failed \cup {<<i, "busy">>}
      BY <3>1 DEF Busy
    <3>3. <<k, "nested">> \in failed' => <<k, "nested">> \in failed
      BY <3>2
    <3>4. <<k, "busy">> \in failed' => <<k, "busy">> \in failed \/ k = i
      BY <3>2
    <3>5. QED
      BY <2>1, <2>4, <3>1, <3>3, <3>4 DEF ContendedWritesBackOff
  <2>8. QED
    BY <2>2, <2>5, <2>6, <2>7, FailedGrows
<1>2. Init => ContendedWritesBackOff
  BY DEF Init, ContendedWritesBackOff
<1>3. QED
  BY <1>1, <1>2, HeldAlways, TypeCorrect, PTL DEF Spec

-----------------------------------------------------------------------------
(* How the tables change                                                   *)

\* The table as the last statement left it, committed or not.
Newest == IF writer = NoConn THEN db ELSE work

\* The committed tables that are still read: the last one, and those that
\* transactions without the lock have frozen.
Seen == {db} \cup {deferred[c].sees : c \in {d \in Conns : deferred[d].at = "reading"}}

\* u is what became of t: no row is gone or has other columns, and none is
\* pending again.
Continues(t, u) ==
  \A m \in Present(t) :
    /\ u[m].status # "ABSENT"
    /\ u[m].from = t[m].from /\ u[m].to = t[m].to /\ u[m].at = t[m].at
    /\ u[m].asks = t[m].asks /\ u[m].inReplyTo = t[m].inReplyTo
    /\ u[m].status = "PENDING" => t[m].status = "PENDING"

\* A send whose row is not in the table yet.
Waiting(k) ==
  op[k].call = "send" /\ op[k].at \in {"begin", "count", "oldest", "expire", "insert"}

\* Rows that are sent are sent once, pending and in the sender's name; rows that
\* are picked are there.
Rows ==
  /\ Continues(db, Newest)
  /\ \A t \in Seen : Continues(t, db)
  /\ \A k \in Coroutines : Waiting(k) => Newest[op[k].msg].status = "ABSENT"
  /\ \A j, k \in Coroutines :
       op[j].call = "send" /\ op[k].call = "send" /\ j # k => op[j].msg # op[k].msg
  /\ \A k \in Coroutines :
       op[k].call = "send" =>
         op[k].row.status = "PENDING" /\ op[k].row.from = AddressOf[k]
  /\ \A k \in Coroutines : op[k].picked \subseteq Present(View(k))

LEMMA Continuing ==
  ASSUME NEW t \in Table, NEW u \in Table, NEW v,
         Continues(t, u), Continues(u, v)
  PROVE  Continues(t, v)
BY DEF Continues, Present

LEMMA SeenTyped ==
  ASSUME TypeOK
  PROVE  Seen \in SUBSET Table /\ Newest \in Table
<1>1. db \in Table /\ work \in Table /\ deferred \in [Conns -> Deferred]
  BY DEF TypeOK
<1>2. \A c \in Conns : deferred[c].sees \in Table
  BY <1>1 DEF Deferred
<1>3. QED
  BY <1>1, <1>2 DEF Seen, Newest

\* A coroutine reads a table that is committed or the newest one.
LEMMA ViewIsSeen ==
  ASSUME NEW k \in Coroutines
  PROVE  View(k) \in Seen \cup {Newest}
<1>1. ConnOf[k] \in Conns /\ ConnOf[k] # NoConn
  BY AgentMessageStoreAssumption
<1>2. QED
  BY <1>1 DEF View, Seen, Newest, DeferredOf

\* Nothing else comes to be read than the last committed table.
LEMMA SeenStep ==
  ASSUME TypeOK, [Next]_vars, NEW t \in Seen'
  PROVE  t = db' \/ t \in Seen
<1>1. CASE t = db'
  BY <1>1
<1>2. ASSUME NEW c \in Conns, deferred'[c].at = "reading", t = deferred'[c].sees
      PROVE  t = db' \/ t \in Seen
  <2>1. CASE deferred'[c] = deferred[c]
    BY <1>2, <2>1 DEF Seen
  <2>2. CASE deferred'[c] = [at |-> "reading", sees |-> db] /\ db' = db
    BY <1>2, <2>2
  <2>3. BegunOnly.at # "reading"
    BY DEF BegunOnly
  <2>4. QED
    BY <1>2, <2>1, <2>2, <2>3, DeferredMoves
<1>3. QED
  BY <1>1, <1>2 DEF Seen

\* A write continues its view and brings in no row but the one it inserts.
LEMMA WriteContinues ==
  ASSUME TypeOK, Rows, NEW k \in Coroutines, Writes(k)
  PROVE  /\ View(k) = Newest
         /\ Written(k) \in Table
         /\ Continues(View(k), Written(k))
         /\ \A m \in Messages :
              View(k)[m].status = "ABSENT" /\ ~(op[k].at = "insert" /\ m = op[k].msg)
                => Written(k)[m].status = "ABSENT"
<1>1. /\ op[k].at \in {"expire", "insert", "flip", "mark", "claim"}
      /\ writer \in {NoConn, ConnOf[k]}
      /\ DeferredOf(k).at = "reading" => DeferredOf(k).sees = db
  BY WritesEffect DEF Write
<1>2. View(k) = Newest /\ Written(k) \in Table
  <2>1. ConnOf[k] # NoConn
    BY AgentMessageStoreAssumption
  <2>2. QED
    BY <1>1, <2>1, WrittenTyped DEF View, Newest
<1>3. View(k) \in Table /\ op[k] \in Op \cup {NoOp}
  BY ViewTyped DEF TypeOK
<1>4. /\ op[k].picked \in SUBSET Messages
      /\ op[k].picked \subseteq Present(View(k))
      /\ op[k].at = "insert" =>
           /\ op[k].msg \in Messages /\ op[k].row \in Row
           /\ View(k)[op[k].msg].status = "ABSENT"
  BY <1>2, <1>3, StageTells DEF Rows, Waiting
<1>5. CASE op[k].at = "expire"
  <2>1. Written(k) = SetStatus(View(k), op[k].picked, "EXPIRED")
    BY <1>5 DEF Written
  <2>2. "EXPIRED" \in Statuses
    BY DEF Statuses
  <2>3. QED
    BY <1>2, <1>3, <1>4, <1>5, <2>1, <2>2, SetStatusType DEF Continues, Present
<1>6. CASE op[k].at = "insert"
  <2>1. Written(k) = InsertRow(View(k), op[k].msg, op[k].row)
    BY <1>6 DEF Written
  <2>2. \A n \in Messages \ {op[k].msg} : Written(k)[n] = View(k)[n]
    BY <1>3, <1>4, <1>6, <2>1, InsertRowEffect
  <2>3. QED
    BY <1>2, <1>4, <1>6, <2>2 DEF Continues, Present
<1>7. CASE op[k].at = "flip"
  <2>1. Written(k) = FlipAnswered(View(k), op[k].row.inReplyTo)
    BY <1>7 DEF Written
  <2>2. QED
    BY <1>2, <1>3, <1>7, <2>1, FlipEffect DEF Continues, Present
<1>8. CASE op[k].at \in {"mark", "claim"}
  <2>1. Written(k) = SetDelivered(View(k), op[k].picked)
    BY <1>8 DEF Written
  <2>2. QED
    BY <1>2, <1>3, <1>4, <1>8, <2>1, SetDeliveredEffect DEF Continues, Present
<1>9. QED
  BY <1>1, <1>5, <1>6, <1>7, <1>8

\* The committed table and the newest one: a statement writes the newest, a
\* commit commits it, a crash throws it away.
LEMMA TablesStep ==
  ASSUME TypeOK, Rows, [Next]_vars
  PROVE  \/ db' = db /\ Newest' \in {db, Newest}
         \/ db' = Newest /\ Newest' = Newest
         \/ \E k \in Coroutines :
              /\ Writes(k) /\ View(k) = Newest
              /\ db' = db /\ Newest' = Written(k)
<1>0. NoConn \notin Conns /\ ConnOf \in [Coroutines -> Conns]
  BY AgentMessageStoreAssumption
<1>1. ASSUME NEW k \in Coroutines, Writes(k)
      PROVE  View(k) = Newest /\ db' = db /\ Newest' = Written(k)
  <2>1. Write(k, Written(k)) /\ View(k) = Newest
    BY <1>1, WritesEffect, WriteContinues
  <2>2. QED
    BY <1>0, <2>1 DEF Write, Newest
<1>2. ASSUME NEW k \in Coroutines, Commit(k)
      PROVE  Newest' = Newest /\ db' \in {db, Newest}
  BY <1>0, <1>2 DEF Commit, Newest
<1>3. ASSUME NEW k \in Coroutines, Begin(k)
      PROVE  Newest' = Newest /\ db' = db
  BY <1>0, <1>3 DEF Begin, Newest
<1>4. ASSUME NEW c \in Conns, Crash(c)
      PROVE  db' = db /\ Newest' \in {db, Newest}
  BY <1>4 DEF Crash, Newest
<1>5. ASSUME UNCHANGED <<db, work, writer>>
      PROVE  db' = db /\ Newest' = Newest
  BY <1>5 DEF Newest
<1>6. ASSUME NEW k \in Coroutines, Step(k)
      PROVE  \/ Writes(k) \/ Commit(k) \/ Begin(k)
             \/ UNCHANGED <<db, work, writer>>
  BY <1>6 DEF Step, Writes, BeginRefused, CountPending, SelectOldest, PersistGroup,
              SelectReply
<1>7. CASE \E k \in Coroutines : Step(k)
  BY <1>1, <1>2, <1>3, <1>5, <1>6, <1>7
<1>8. QED
  BY <1>4, <1>5, <1>7
     DEF Next, vars, StartSend, SelectGroup, StartClaim, SelectNothing, Cancel, Busy

\* What a coroutine sees is what it saw before, or what became of it, unless
\* its process died.
LEMMA ViewStep ==
  ASSUME TypeOK, Rows, [Next]_vars, NEW k \in Coroutines
  PROVE  \/ op'[k] = NoOp
         \/ View(k)' = View(k)
         \/ \E j \in Coroutines :
              Writes(j) /\ View(k) = View(j) /\ View(k)' = Written(j)
         \/ View(k) \in Seen /\ View(k)' \in {db, Newest}
<1> DEFINE OnlySees == View(k) \in Seen /\ View(k)' \in {db, Newest}
<1>0. /\ NoConn \notin Conns /\ \A j \in Coroutines : ConnOf[j] \in Conns
      /\ deferred \in [Conns -> Deferred]
  BY AgentMessageStoreAssumption DEF TypeOK
<1>1. ASSUME NEW j \in Coroutines, Writes(j)
      PROVE  \/ View(k)' = View(k)
             \/ View(k) = View(j) /\ View(k)' = Written(j)
  <2>1. Write(j, Written(j))
    BY <1>1, WritesEffect
  <2>2. CASE ConnOf[k] = ConnOf[j]
    BY <2>1, <2>2 DEF Write, View, DeferredOf
  <2>3. CASE ConnOf[k] # ConnOf[j]
    <3>1. deferred'[ConnOf[k]] = deferred[ConnOf[k]]
      BY <1>0, <2>1, <2>3, EndTyped DEF Write
    <3>2. QED
      BY <1>0, <2>1, <2>3, <3>1 DEF Write, View, DeferredOf
  <2>4. QED
    BY <2>2, <2>3
<1>2. ASSUME NEW j \in Coroutines, Commit(j)
      PROVE  View(k)' = View(k) \/ OnlySees
  <2>1. ConnOf[k] \in Conns /\ ConnOf[j] \in Conns /\ EndDeferred(j)
    BY <1>0, <1>2 DEF Commit
  <2>2. /\ deferred'[ConnOf[j]].at = "none"
        /\ ConnOf[k] # ConnOf[j] => deferred'[ConnOf[k]] = deferred[ConnOf[k]]
    BY <2>1, EndTyped
  <2>3. CASE writer = ConnOf[j]
    <3>1. db' = work /\ writer' = NoConn /\ Newest = work
      BY <1>0, <1>2, <2>1, <2>3 DEF Commit, Newest
    <3>2. CASE ConnOf[k] = ConnOf[j]
      BY <1>0, <2>1, <2>2, <2>3, <3>1, <3>2 DEF View, DeferredOf
    <3>3. CASE ConnOf[k] # ConnOf[j] /\ DeferredOf(k).at = "reading"
      BY <1>0, <2>1, <2>2, <2>3, <3>1, <3>3 DEF View, DeferredOf
    <3>4. CASE ConnOf[k] # ConnOf[j] /\ DeferredOf(k).at # "reading"
      <4>1. View(k) = db /\ View(k)' = db'
        BY <1>0, <2>1, <2>2, <2>3, <3>1, <3>4 DEF View, DeferredOf
      <4>2. QED
        BY <3>1, <4>1 DEF Seen
    <3>5. QED
      BY <3>2, <3>3, <3>4
  <2>4. CASE writer # ConnOf[j]
    <3>1. db' = db /\ writer' = writer /\ work' = work
      BY <1>2, <2>4 DEF Commit
    <3>2. CASE ConnOf[k] = ConnOf[j]
      <4>1. View(k)' = db
        BY <2>2, <2>4, <3>1, <3>2 DEF View, DeferredOf
      <4>2. View(k) \in Seen
        BY <2>1, <2>4, <3>2 DEF View, DeferredOf, Seen
      <4>3. QED
        BY <4>1, <4>2
    <3>3. CASE ConnOf[k] # ConnOf[j]
      BY <2>2, <3>1, <3>3 DEF View, DeferredOf
    <3>4. QED
      BY <3>2, <3>3
  <2>5. QED
    BY <2>3, <2>4
<1>3. ASSUME NEW j \in Coroutines, Begin(j)
      PROVE  View(k)' = View(k)
  BY <1>0, <1>3 DEF Begin, View, DeferredOf
<1>4. ASSUME NEW c \in Conns, Crash(c)
      PROVE  op'[k] = NoOp \/ View(k)' = View(k)
  BY <1>0, <1>4 DEF Crash, View, DeferredOf
<1>5. ASSUME NEW j \in Coroutines, Busy(j)
      PROVE  View(k)' = View(k) \/ OnlySees
  <2> DEFINE e == IF op[j].at # "mark" THEN NotDeferred
                  ELSE IF deferred[ConnOf[j]].at = "none" THEN BegunOnly
                  ELSE deferred[ConnOf[j]]
  <2>1. UNCHANGED <<db, work, writer>> /\ deferred' = [deferred EXCEPT ![ConnOf[j]] = e]
    BY <1>5 DEF Busy
  <2>2. e = deferred[ConnOf[j]] \/ e.at # "reading"
    BY DEF NotDeferred, BegunOnly
  <2> HIDE DEF e
  <2>3. CASE ConnOf[k] # ConnOf[j] \/ e = deferred[ConnOf[j]]
    <3>1. deferred'[ConnOf[k]] = deferred[ConnOf[k]]
      BY <1>0, <2>1, <2>3
    <3>2. QED
      BY <2>1, <3>1 DEF View, DeferredOf
  <2>4. CASE ConnOf[k] = ConnOf[j] /\ e.at # "reading"
    <3>1. deferred'[ConnOf[k]] = e
      BY <1>0, <2>1, <2>4
    <3>2. CASE writer = ConnOf[k]
      BY <2>1, <3>2 DEF View
    <3>3. CASE writer # ConnOf[k]
      BY <1>0, <2>1, <2>4, <3>1, <3>3 DEF View, DeferredOf, Seen
    <3>4. QED
      BY <3>2, <3>3
  <2>5. QED
    BY <2>2, <2>3, <2>4
<1>6. ASSUME UNCHANGED <<db, work, writer, deferred>>
      PROVE  View(k)' = View(k)
  BY <1>6 DEF View, DeferredOf
<1>7. ASSUME NEW j \in Coroutines, Looks(j)
      PROVE  View(k)' = View(k)
  BY <1>7, LooksSees
<1>8. ASSUME NEW j \in Coroutines, Step(j)
      PROVE  \/ Writes(j) \/ Commit(j) \/ Begin(j) \/ Looks(j)
             \/ UNCHANGED <<db, work, writer, deferred>>
  BY <1>8 DEF Step, Writes, Looks, BeginRefused, PersistGroup
<1>9. CASE \E j \in Coroutines : Step(j)
  BY <1>1, <1>2, <1>3, <1>6, <1>7, <1>8, <1>9
<1>10. CASE \E j \in Coroutines : SelectGroup(j) \/ SelectNothing(j)
  BY <1>7, <1>10 DEF Looks
<1>11. QED
  BY <1>4, <1>5, <1>6, <1>9, <1>10
     DEF Next, vars, StartSend, StartClaim, Cancel

LEMMA ViewContinues ==
  ASSUME TypeOK, Rows, [Next]_vars, NEW k \in Coroutines, op'[k] # NoOp
  PROVE  Continues(View(k), View(k)')
<1>1. Continues(View(k), View(k)) /\ Continues(db, Newest)
  BY DEF Continues, Present, Rows
<1>2. ASSUME NEW j \in Coroutines, Writes(j), View(k) = View(j), View(k)' = Written(j)
      PROVE  Continues(View(k), View(k)')
  BY <1>2, WriteContinues
<1>3. ASSUME View(k) \in Seen, View(k)' \in {db, Newest}
      PROVE  Continues(View(k), View(k)')
  <2>1. Continues(View(k), db) /\ View(k) \in Table /\ db \in Table
    BY <1>3, SeenTyped DEF Rows, TypeOK
  <2>2. QED
    BY <1>1, <1>3, <2>1, Continuing
<1>4. QED
  BY <1>1, <1>2, <1>3, ViewStep

\* A call that goes on was left alone or ran its next statement.
LEMMA CallMoves ==
  ASSUME TypeOK, [Next]_vars, NEW k \in Coroutines, op'[k] # NoOp, op[k] # NoOp
  PROVE  op'[k] = op[k] \/ (Step(k) /\ ~BeginRefused(k) /\ ~Commit(k))
<1>1. op \in [Coroutines -> Op \cup {NoOp}] /\ op[k] \in Op
  BY DEF TypeOK
<1>2. ~BeginRefused(k) /\ ~Commit(k) /\ ~Cancel(k) /\ ~Busy(k) /\ ~SelectNothing(k)
  BY <1>1 DEF BeginRefused, Commit, SelectNothing, Cancel, Busy, Return
<1>3. ASSUME NEW c \in Conns, Crash(c) PROVE op'[k] = op[k]
  BY <1>3 DEF Crash
<1>4. ASSUME NEW j \in Coroutines, j # k,
             \/ \E m \in Messages, to \in Agents, asks, re \in MaybeCorrelation :
                  StartSend(j, m, to, asks, re)
             \/ SelectGroup(j)
             \/ \E c \in Correlations : StartClaim(j, c)
             \/ Step(j)
             \/ SelectNothing(j)
             \/ Cancel(j)
             \/ Busy(j)
      PROVE  op'[k] = op[k]
  BY <1>4, OneMoves
<1>5. ~SelectGroup(k)
      /\ (\A m, to, asks, re : ~StartSend(k, m, to, asks, re))
      /\ (\A c : ~StartClaim(k, c))
  BY DEF SelectGroup, StartSend, StartClaim
<1>6. CASE UNCHANGED vars
  BY <1>6 DEF vars
<1>7. QED
  BY <1>2, <1>3, <1>4, <1>5, <1>6 DEF Next

\* At which stage each statement is run.
LEMMA StageOf ==
  ASSUME NEW k
  PROVE  /\ Begin(k) => op[k].at = "begin"
         /\ CountPending(k) => op[k].at = "count"
         /\ SelectOldest(k) => op[k].at = "oldest"
         /\ Expire(k) => op[k].at = "expire"
         /\ Insert(k) => op[k].at = "insert"
         /\ Flip(k) => op[k].at = "flip"
         /\ PersistGroup(k) => op[k].at = "persist"
         /\ MarkDelivered(k) => op[k].at = "mark"
         /\ SelectReply(k) => op[k].at = "select"
         /\ ClaimReply(k) => op[k].at = "claim"
         /\ Commit(k) => op[k].at = "commit"
BY DEF Begin, CountPending, SelectOldest, Expire, Insert, Flip, PersistGroup,
       MarkDelivered, SelectReply, ClaimReply, Commit

\* A call keeps the arguments it was made with and its rows, which it picks by
\* a SELECT; and this is where each of its statements leads.
LEMMA CallStep ==
  ASSUME TypeOK, [Next]_vars, NEW k \in Coroutines, op'[k] # NoOp, op[k] # NoOp
  PROVE  /\ op'[k].call = op[k].call
         /\ op[k].call = "send" => op'[k].msg = op[k].msg /\ op'[k].row = op[k].row
         /\ op[k].call = "claim" => op'[k].corr = op[k].corr
         /\ \/ op'[k] = op[k]
            \/ /\ op'[k].picked = op[k].picked
               /\ \/ /\ Begin(k)
                     /\ op'[k].at = IF op[k].call = "send" THEN "count" ELSE "select"
                  \/ /\ CountPending(k)
                     /\ op'[k].at = IF Cardinality(PendingIn(View(k), op[k].row.to)) < Cap
                                      THEN "insert" ELSE "oldest"
                  \/ /\ Insert(k)
                     /\ op'[k].at = IF op[k].row.inReplyTo = NoCorrelation
                                      THEN "commit" ELSE "flip"
                  \/ Flip(k) /\ op'[k].at = "commit"
                  \/ PersistGroup(k) /\ op'[k].at = "mark"
                  \/ MarkDelivered(k) /\ op'[k].at = "commit"
                  \/ ClaimReply(k) /\ op'[k].at = "commit"
            \/ Expire(k) /\ op'[k].at = "insert" /\ op'[k].picked = {}
            \/ /\ SelectOldest(k)
               /\ LET S == PendingIn(View(k), op[k].row.to)
                  IN  /\ op'[k].at = IF S = {} THEN "insert" ELSE "expire"
                      /\ op'[k].picked = IF S = {} THEN {} ELSE {Oldest(View(k), S)}
            \/ /\ SelectReply(k)
               /\ LET S == RepliesTo(View(k), AddressOf[k], op[k].corr)
                  IN  /\ op'[k].at = IF S = {} THEN "commit" ELSE "claim"
                      /\ op'[k].picked = IF S = {} THEN {} ELSE {Oldest(View(k), S)}
<1>1. op \in [Coroutines -> Op \cup {NoOp}] /\ op[k] \in Op
  BY DEF TypeOK
<1>2. ASSUME NEW stage, op' = [op EXCEPT ![k].at = stage]
      PROVE  /\ op'[k].call = op[k].call /\ op'[k].picked = op[k].picked
             /\ op'[k].at = stage
             /\ op[k].call = "send" => op'[k].msg = op[k].msg /\ op'[k].row = op[k].row
             /\ op[k].call = "claim" => op'[k].corr = op[k].corr
  BY <1>1, <1>2 DEF Op
<1>3. ASSUME NEW stage, NEW P, op' = [op EXCEPT ![k].at = stage, ![k].picked = P]
      PROVE  /\ op'[k].call = op[k].call /\ op'[k].picked = P
             /\ op'[k].at = stage
             /\ op[k].call = "send" => op'[k].msg = op[k].msg /\ op'[k].row = op[k].row
             /\ op[k].call = "claim" => op'[k].corr = op[k].corr
  BY <1>1, <1>3 DEF Op
<1>4. CASE op'[k] = op[k]
  BY <1>4
<1>5. CASE Begin(k)
  BY <1>2, <1>5 DEF Begin, Goto
<1>6. CASE CountPending(k)
  BY <1>2, <1>6 DEF CountPending, Goto
<1>7. CASE Insert(k) \/ Flip(k)
  BY <1>2, <1>7 DEF Insert, Flip, Goto
<1>8. CASE PersistGroup(k) \/ MarkDelivered(k) \/ ClaimReply(k)
  BY <1>2, <1>8 DEF PersistGroup, MarkDelivered, ClaimReply, Goto
<1>9. CASE Expire(k)
  BY <1>3, <1>9 DEF Expire
<1>10. CASE SelectOldest(k)
  <2> DEFINE S == PendingIn(View(k), op[k].row.to)
             stage == IF S = {} THEN "insert" ELSE "expire"
             P == IF S = {} THEN {} ELSE {Oldest(View(k), S)}
  <2>1. op' = [op EXCEPT ![k].at = stage, ![k].picked = P]
    BY <1>10 DEF SelectOldest
  <2>2. /\ op'[k].call = op[k].call /\ op'[k].picked = P
        /\ op'[k].at = stage
        /\ op[k].call = "send" => op'[k].msg = op[k].msg /\ op'[k].row = op[k].row
        /\ op[k].call = "claim" => op'[k].corr = op[k].corr
    <3> HIDE DEF stage, P
    <3>1. QED
      BY <1>3, <2>1
  <2>3. QED
    BY <1>10, <2>2
<1>11. CASE SelectReply(k)
  <2> DEFINE S == RepliesTo(View(k), AddressOf[k], op[k].corr)
             stage == IF S = {} THEN "commit" ELSE "claim"
             P == IF S = {} THEN {} ELSE {Oldest(View(k), S)}
  <2>1. op' = [op EXCEPT ![k].at = stage, ![k].picked = P]
    BY <1>11 DEF SelectReply
  <2>2. /\ op'[k].call = op[k].call /\ op'[k].picked = P
        /\ op'[k].at = stage
        /\ op[k].call = "send" => op'[k].msg = op[k].msg /\ op'[k].row = op[k].row
        /\ op[k].call = "claim" => op'[k].corr = op[k].corr
    <3> HIDE DEF stage, P
    <3>1. QED
      BY <1>3, <2>1
  <2>3. QED
    BY <1>11, <2>2
<1>12. QED
  BY <1>4, <1>5, <1>6, <1>7, <1>8, <1>9, <1>10, <1>11, CallMoves DEF Step

\* A call starts with no rows, except a drain, which starts with a SELECT.
LEMMA CallStart ==
  ASSUME TypeOK, [Next]_vars, NEW k \in Coroutines, op'[k] # NoOp, op[k] = NoOp
  PROVE  /\ UNCHANGED <<db, work, writer, handed>>
         /\ \A j \in Coroutines : View(j)' = View(j)
         /\ \/ \E m \in Messages, to \in Agents, asks, re \in MaybeCorrelation :
                 StartSend(k, m, to, asks, re)
            \/ SelectGroup(k)
            \/ \E c \in Correlations : StartClaim(k, c)
<1>1. ASSUME NEW c \in Conns, Crash(c) PROVE FALSE
  BY <1>1 DEF Crash
<1>2. ~Step(k)
  BY DEF Step, Begin, BeginRefused, CountPending, SelectOldest, Expire, Insert, Flip,
         Commit, PersistGroup, MarkDelivered, SelectReply, ClaimReply, NoOp
<1>3. ~Cancel(k) /\ ~Busy(k) /\ ~SelectNothing(k)
  <2>1. op[k].at = "idle"
    BY DEF NoOp
  <2>2. ~Busy(k)
    BY <2>1 DEF Busy, Writing
  <2>3. ~Cancel(k) /\ ~SelectNothing(k)
    BY DEF Cancel, SelectNothing
  <2>4. QED
    BY <2>2, <2>3
<1>4. ASSUME NEW j \in Coroutines, j # k,
             \/ \E m \in Messages, to \in Agents, asks, re \in MaybeCorrelation :
                  StartSend(j, m, to, asks, re)
             \/ SelectGroup(j)
             \/ \E c \in Correlations : StartClaim(j, c)
             \/ Step(j)
             \/ SelectNothing(j)
             \/ Cancel(j)
             \/ Busy(j)
      PROVE  FALSE
  BY <1>4, OneMoves
<1>5. \/ \E m \in Messages, to \in Agents, asks, re \in MaybeCorrelation :
           StartSend(k, m, to, asks, re)
      \/ SelectGroup(k)
      \/ \E c \in Correlations : StartClaim(k, c)
  BY <1>1, <1>2, <1>3, <1>4 DEF Next, vars
<1>6. \A j \in Coroutines : View(j)' = View(j)
  <2>1. CASE SelectGroup(k)
    BY <2>1, LooksSees DEF Looks
  <2>2. CASE UNCHANGED <<db, work, writer, deferred>>
    BY <2>2 DEF View, DeferredOf
  <2>3. QED
    BY <1>5, <2>1, <2>2 DEF StartSend, StartClaim
<1>7. QED
  BY <1>5, <1>6 DEF StartSend, SelectGroup, StartClaim

\* A send that is waiting now was waiting before, and a write of its own took
\* place only to make room.
LEMMA WaitingBefore ==
  ASSUME TypeOK, [Next]_vars, NEW k \in Coroutines, op[k] # NoOp, Waiting(k)'
  PROVE  /\ Waiting(k) /\ op'[k].msg = op[k].msg /\ op'[k].row = op[k].row
         /\ Writes(k) => op[k].at # "insert"
<1>1. op'[k] # NoOp /\ op'[k].call = "send" /\ op'[k].at \notin {"flip", "commit", "claim"}
  BY DEF Waiting, NoOp
<1>2. op[k].call = "send" /\ op'[k].msg = op[k].msg /\ op'[k].row = op[k].row
  BY <1>1, CallStep
<1>3. op[k] \in Op \cup {NoOp}
  BY DEF TypeOK
<1>4. op[k].at \notin {"persist", "mark", "select", "claim", "idle"}
  BY <1>2, <1>3, StageTells
<1>5. CASE op'[k] = op[k]
  <2>1. Writes(k) => \E stage \in {"insert", "flip", "commit"} : op'[k].at = stage
                       /\ (op[k].at = "insert" => op'[k].at # "insert")
    <3>1. op \in [Coroutines -> Op \cup {NoOp}] /\ op[k] \in Op
      BY DEF TypeOK
    <3>2. Insert(k) => op'[k].at \in {"flip", "commit"}
      BY <3>1 DEF Insert, Goto, Op
    <3>3. Writes(k) /\ op[k].at = "insert" => Insert(k)
      BY DEF Writes, Expire, Flip, MarkDelivered, ClaimReply
    <3>4. Writes(k) => op'[k].at \in {"insert", "flip", "commit"}
      <4>1. ASSUME Writes(k) PROVE op'[k].at \in {"insert", "flip", "commit"}
        <5>1. PICK stage \in {"insert", "flip", "commit"} :
                \/ op' = [op EXCEPT ![k].at = stage]
                \/ op' = [op EXCEPT ![k].at = stage, ![k].picked = {}]
          BY <4>1, WritesEffect
        <5>2. op'[k].at = stage
          BY <3>1, <5>1 DEF Op
        <5>3. QED
          BY <5>2
      <4>2. QED
        BY <4>1
    <3>5. QED
      BY <3>2, <3>3, <3>4
  <2>2. QED
    BY <1>2, <1>5, <2>1 DEF Waiting
<1>6. CASE op'[k] # op[k]
  <2>1. \/ Begin(k) \/ CountPending(k) \/ Expire(k) \/ SelectOldest(k)
    BY <1>1, <1>2, <1>4, <1>6, CallStep DEF Insert, PersistGroup, SelectReply
  <2>2. op[k].at \in {"begin", "count", "oldest", "expire"}
    BY <2>1 DEF Begin, CountPending, Expire, SelectOldest
  <2>3. QED
    BY <1>2, <2>2 DEF Waiting
<1>7. QED
  BY <1>5, <1>6

LEMMA InitRows == Init => Rows
<1> SUFFICES ASSUME Init PROVE Rows
  OBVIOUS
<1>1. Newest = db /\ \A m \in Messages : db[m].status = "ABSENT"
  BY EmptyTableType DEF Init, Newest
<1>2. \A k \in Coroutines : op[k].call = "none" /\ op[k].picked = {}
  BY DEF Init, NoOp
<1>3. Seen = {db}
  BY DEF Init, Seen, NotDeferred
<1>4. QED
  BY <1>1, <1>2, <1>3 DEF Rows, Continues, Present, Waiting

LEMMA StepRows == TypeOK /\ TypeOK' /\ Rows /\ [Next]_vars => Rows'
<1> SUFFICES ASSUME TypeOK, TypeOK', Rows, [Next]_vars PROVE Rows'
  OBVIOUS
<1>0. /\ op \in [Coroutines -> Op \cup {NoOp}] /\ db \in Table /\ Newest \in Table
      /\ op' \in [Coroutines -> Op \cup {NoOp}]
  BY DEF TypeOK, Newest
<1>7. ASSUME NEW t \in Seen' PROVE Continues(t, db')
  <2>1. Continues(db', db')
    BY DEF Continues, Present
  <2>2. ASSUME t \in Seen PROVE Continues(t, db')
    <3>1. t \in Table /\ Continues(t, db) /\ Continues(db, Newest)
      BY <2>2, SeenTyped DEF Rows
    <3>2. db' \in {db, Newest}
      BY TablesStep
    <3>3. QED
      BY <1>0, <3>1, <3>2, Continuing
  <2>3. QED
    BY <2>1, <2>2, SeenStep
<1>1. Continues(db', Newest')
  <2>1. CASE db' = db /\ Newest' \in {db, Newest}
    BY <2>1 DEF Rows, Continues, Present
  <2>2. CASE db' = Newest /\ Newest' = Newest
    BY <2>2 DEF Continues, Present
  <2>3. ASSUME NEW k \in Coroutines, Writes(k), View(k) = Newest,
               db' = db, Newest' = Written(k)
        PROVE  Continues(db', Newest')
    <3>1. Continues(db, Newest) /\ Continues(Newest, Newest')
      BY <2>3, WriteContinues DEF Rows
    <3>2. QED
      BY <2>3, <3>1 DEF Continues, Present
  <2>4. QED
    BY <2>1, <2>2, <2>3, TablesStep
<1>2. ASSUME NEW k \in Coroutines, Waiting(k)'
      PROVE  Newest'[op'[k].msg].status = "ABSENT"
  <2>0. op'[k] # NoOp
    BY <1>2 DEF Waiting, NoOp
  <2>1. CASE op[k] = NoOp
    <3>1. UNCHANGED <<db, work, writer>>
          /\ \E m \in Messages, to \in Agents, asks, re \in MaybeCorrelation :
               StartSend(k, m, to, asks, re)
      BY <1>0, <1>2, <2>0, <2>1, CallStart DEF SelectGroup, StartClaim, Waiting
    <3>2. PICK m \in Messages : \E to \in Agents, asks, re \in MaybeCorrelation :
               StartSend(k, m, to, asks, re)
      BY <3>1
    <3>3. op'[k].msg = m /\ m \notin Present(db) \cup Present(work)
      BY <1>0, <3>2 DEF StartSend
    <3>4. Newest'[m].status = "ABSENT"
      BY <3>1, <3>3 DEF Newest, Present
    <3>5. QED
      BY <3>3, <3>4
  <2>2. CASE op[k] # NoOp
    <3> DEFINE m == op[k].msg
    <3>1. /\ Waiting(k) /\ op'[k].msg = m
          /\ Writes(k) => op[k].at # "insert"
      BY <1>2, <2>2, WaitingBefore
    <3>2. m \in Messages /\ Newest[m].status = "ABSENT"
      BY <1>0, <3>1, StageTells DEF Waiting, Rows
    <3>3. db[m].status = "ABSENT"
      BY <3>2 DEF Rows, Continues, Present
    <3>4. ASSUME NEW j \in Coroutines, Writes(j), View(j) = Newest,
                 Newest' = Written(j)
          PROVE  Newest'[m].status = "ABSENT"
      <4>1. ~(op[j].at = "insert" /\ m = op[j].msg)
        <5>1. CASE j = k
          BY <3>1, <3>4, <5>1
        <5>2. CASE j # k
          <6>1. op[j].at = "insert" => op[j].call = "send"
            BY <1>0, StageTells
          <6>2. QED
            BY <3>1, <5>2, <6>1 DEF Rows, Waiting
        <5>3. QED
          BY <5>1, <5>2
      <4>2. QED
        BY <3>2, <3>4, <4>1, WriteContinues
    <3>5. Newest'[m].status = "ABSENT"
      BY <3>2, <3>3, <3>4, TablesStep
    <3>6. QED
      BY <3>1, <3>5
  <2>3. QED
    BY <2>1, <2>2
<1>3. ASSUME NEW j \in Coroutines, NEW k \in Coroutines, j # k,
             op'[j].call = "send", op'[k].call = "send"
      PROVE  op'[j].msg # op'[k].msg
  <2>1. op'[j] # NoOp /\ op'[k] # NoOp
    BY <1>3 DEF NoOp
  <2>2. ASSUME NEW i \in Coroutines, op[i] # NoOp, op'[i] # NoOp, op'[i].call = "send"
        PROVE  op[i].call = "send" /\ op'[i].msg = op[i].msg
    BY <2>2, CallStep
  <2>3. ASSUME NEW i \in Coroutines, NEW l \in Coroutines, i # l, op[i] = NoOp,
               op'[i] # NoOp, op'[i].call = "send", op'[l] # NoOp, op'[l].call = "send"
        PROVE  op'[i].msg # op'[l].msg
    <3>1. \E m \in Messages, to \in Agents, asks, re \in MaybeCorrelation :
            StartSend(i, m, to, asks, re)
      BY <1>0, <2>3, CallStart DEF SelectGroup, StartClaim
    <3>2. PICK m \in Messages : \E to \in Agents, asks, re \in MaybeCorrelation :
            StartSend(i, m, to, asks, re)
      BY <3>1
    <3>3. op'[i].msg = m /\ m \notin InFlight /\ op'[l] = op[l]
      BY <1>0, <2>3, <3>2 DEF StartSend
    <3>4. QED
      BY <2>3, <3>3 DEF InFlight
  <2>4. QED
    BY <1>3, <2>1, <2>2, <2>3 DEF Rows
<1>4. ASSUME NEW k \in Coroutines
      PROVE  op'[k].picked \subseteq Present(View(k)')
  <2>1. CASE op'[k] = NoOp
    BY <2>1 DEF NoOp
  <2>2. CASE op'[k] # NoOp /\ op[k] = NoOp
    <3>2. View(k)' = View(k)
      BY <2>2, CallStart
    <3>3. CASE SelectGroup(k)
      <4>1. op'[k].picked = OldestGroup(View(k), AddressOf[k])
        BY <1>0, <3>3 DEF SelectGroup
      <4>2. QED
        BY <3>2, <4>1, GroupIsPending DEF PendingIn, Present
    <3>4. CASE ~SelectGroup(k)
      <4>1. op'[k].picked = {}
        BY <1>0, <2>2, <3>4, CallStart DEF StartSend, StartClaim
      <4>2. QED
        BY <4>1
    <3>5. QED
      BY <3>3, <3>4
  <2>3. CASE op'[k] # NoOp /\ op[k] # NoOp
    <3>1. View(k) \in Table
      BY ViewTyped
    <3>2. ASSUME op'[k].picked \subseteq op[k].picked
          PROVE  op'[k].picked \subseteq Present(View(k)')
      BY <2>3, <3>2, ViewContinues DEF Rows, Continues, Present
    <3>3. CASE SelectOldest(k)
      <4> DEFINE S == PendingIn(View(k), op[k].row.to)
      <4>1. op'[k].picked = IF S = {} THEN {} ELSE {Oldest(View(k), S)}
        <5>1. op[k].at = "oldest"
          BY <3>3, StageOf
        <5>2. op'[k].at # "oldest"
          <6> DEFINE stage == IF S = {} THEN "insert" ELSE "expire"
                     P == IF S = {} THEN {} ELSE {Oldest(View(k), S)}
          <6>1. op' = [op EXCEPT ![k].at = stage, ![k].picked = P]
            BY <3>3 DEF SelectOldest
          <6>2. op[k] \in Op /\ stage # "oldest"
            BY <1>0, <2>3
          <6> HIDE DEF stage, P
          <6>3. op'[k].at = stage
            BY <1>0, <6>1, <6>2 DEF Op
          <6>4. QED
            BY <6>2, <6>3
        <5>3. QED
          BY <2>3, <5>1, <5>2, CallStep, StageOf
      <4>2. S \in SUBSET Present(View(k)) /\ S \in SUBSET Messages
        BY DEF PendingIn, Present
      <4>3. View(k)' = View(k)
        BY <3>3, LooksSees DEF Looks
      <4> HIDE DEF S
      <4>4. QED
        BY <3>1, <4>1, <4>2, <4>3, OldestPicked
    <3>4. CASE SelectReply(k)
      <4> DEFINE S == RepliesTo(View(k), AddressOf[k], op[k].corr)
      <4>1. op'[k].picked = IF S = {} THEN {} ELSE {Oldest(View(k), S)}
        <5>1. op[k].at = "select"
          BY <3>4, StageOf
        <5>2. op'[k].at # "select"
          <6> DEFINE stage == IF S = {} THEN "commit" ELSE "claim"
                     P == IF S = {} THEN {} ELSE {Oldest(View(k), S)}
          <6>1. op' = [op EXCEPT ![k].at = stage, ![k].picked = P]
            BY <3>4 DEF SelectReply
          <6>2. op[k] \in Op /\ stage # "select"
            BY <1>0, <2>3
          <6> HIDE DEF stage, P
          <6>3. op'[k].at = stage
            BY <1>0, <6>1, <6>2 DEF Op
          <6>4. QED
            BY <6>2, <6>3
        <5>3. QED
          BY <2>3, <5>1, <5>2, CallStep, StageOf
      <4>2. S \in SUBSET Present(View(k)) /\ S \in SUBSET Messages
        BY DEF RepliesTo, PendingIn, Present
      <4>3. View(k)' = View(k)
        BY <3>4, LooksSees DEF Looks
      <4> HIDE DEF S
      <4>4. QED
        BY <3>1, <4>1, <4>2, <4>3, OldestPicked
    <3>5. QED
      BY <2>3, <3>2, <3>3, <3>4, CallStep
  <2>4. QED
    BY <2>1, <2>2, <2>3
<1>5. ASSUME NEW k \in Coroutines, op'[k].call = "send"
      PROVE  op'[k].row.status = "PENDING" /\ op'[k].row.from = AddressOf[k]
  <2>0. op'[k] # NoOp
    BY <1>5 DEF NoOp
  <2>1. CASE op[k] = NoOp
    <3>1. \E m \in Messages, to \in Agents, asks, re \in MaybeCorrelation :
            StartSend(k, m, to, asks, re)
      BY <1>0, <1>5, <2>0, <2>1, CallStart DEF SelectGroup, StartClaim
    <3>2. QED
      BY <1>0, <3>1 DEF StartSend, NewRow
  <2>2. CASE op[k] # NoOp
    BY <1>5, <2>0, <2>2, CallStep DEF Rows
  <2>3. QED
    BY <2>1, <2>2
<1>6. QED
  BY <1>1, <1>2, <1>3, <1>4, <1>5, <1>7 DEF Rows

-----------------------------------------------------------------------------
(* Delivery                                                                *)

\* An acknowledged message that answers nothing was handed over, committed or
\* not; what a drain has persisted was handed over, and a claim takes answers.
Delivery ==
  /\ \A t \in {db, Newest}, m \in Messages :
       t[m].status = "DELIVERED" /\ t[m].inReplyTo = NoCorrelation => m \in handed
  /\ \A k \in Coroutines :
       op[k].call = "drain" /\ op[k].at # "persist" => op[k].picked \subseteq handed
  /\ \A k \in Coroutines :
       op[k].call = "claim" =>
         \A m \in op[k].picked : View(k)[m].inReplyTo # NoCorrelation

\* Only mark_delivered and claim_reply deliver, and only what they picked.
LEMMA WriteDelivers ==
  ASSUME TypeOK, Rows, NEW k \in Coroutines, Writes(k), NEW m \in Messages,
         Written(k)[m].status = "DELIVERED"
  PROVE  /\ View(k)[m].status # "ABSENT"
         /\ Written(k)[m].inReplyTo = View(k)[m].inReplyTo
         /\ \/ View(k)[m].status = "DELIVERED"
            \/ op[k].at \in {"mark", "claim"} /\ m \in op[k].picked
<1>1. /\ op[k].at \in {"expire", "insert", "flip", "mark", "claim"}
      /\ View(k) \in Table /\ op[k] \in Op \cup {NoOp}
  BY WritesEffect, ViewTyped DEF TypeOK
<1>2. op[k].picked \in SUBSET Messages
  BY <1>1, StageTells
<1>3. CASE op[k].at = "expire"
  <2>1. Written(k) = SetStatus(View(k), op[k].picked, "EXPIRED")
        /\ "EXPIRED" \in Statuses
    BY <1>3 DEF Written, Statuses
  <2>2. QED
    BY <1>1, <1>2, <2>1, SetStatusType
<1>4. CASE op[k].at = "insert"
  <2>1. op[k].call = "send" /\ op[k].msg \in Messages /\ op[k].row \in Row
    BY <1>1, <1>4, StageTells
  <2>2. Written(k) = InsertRow(View(k), op[k].msg, op[k].row)
    BY <1>4 DEF Written
  <2>3. m # op[k].msg => Written(k)[m] = View(k)[m]
    BY <1>1, <2>1, <2>2, InsertRowEffect
  <2>4. m = op[k].msg => Written(k)[m] = op[k].row
    BY <1>1, <2>1, <2>2, InsertRowEffect
  <2>5. op[k].row.status = "PENDING"
    BY <2>1 DEF Rows
  <2>6. QED
    BY <2>3, <2>4, <2>5
<1>5. CASE op[k].at = "flip"
  <2>1. Written(k) = FlipAnswered(View(k), op[k].row.inReplyTo)
    BY <1>5 DEF Written
  <2>2. QED
    BY <1>1, <2>1, FlipEffect
<1>6. CASE op[k].at \in {"mark", "claim"}
  <2>1. Written(k) = SetDelivered(View(k), op[k].picked)
    BY <1>6 DEF Written
  <2>2. QED
    BY <1>1, <1>2, <1>6, <2>1, SetDeliveredEffect
<1>7. QED
  BY <1>1, <1>3, <1>4, <1>5, <1>6

LEMMA InitDelivery == Init => Delivery
<1> SUFFICES ASSUME Init PROVE Delivery
  OBVIOUS
<1>1. Newest = db /\ \A m \in Messages : db[m].status = "ABSENT"
  BY EmptyTableType DEF Init, Newest
<1>2. \A k \in Coroutines : op[k].call = "none"
  BY DEF Init, NoOp
<1>3. QED
  BY <1>1, <1>2 DEF Delivery

LEMMA StepDelivery ==
  TypeOK /\ TypeOK' /\ Rows /\ Rows' /\ Delivery /\ [Next]_vars => Delivery'
<1> SUFFICES ASSUME TypeOK, TypeOK', Rows, Rows', Delivery, [Next]_vars
             PROVE  Delivery'
  OBVIOUS
<1>0. /\ op \in [Coroutines -> Op \cup {NoOp}] /\ db \in Table /\ Newest \in Table
      /\ op' \in [Coroutines -> Op \cup {NoOp}]
  BY DEF TypeOK, Newest
<1>1. handed \subseteq handed'
  <2>1. \A k \in Coroutines : Step(k) => handed \subseteq handed'
    BY DEF Step, Begin, BeginRefused, CountPending, SelectOldest, Expire, Insert, Flip,
           Commit, PersistGroup, MarkDelivered, SelectReply, ClaimReply
  <2>2. QED
    BY <2>1 DEF Next, vars, StartSend, SelectGroup, StartClaim, SelectNothing,
                Cancel, Busy, Crash
<1>2. ASSUME NEW t \in {db', Newest'}, NEW m \in Messages,
             t[m].status = "DELIVERED", t[m].inReplyTo = NoCorrelation
      PROVE  m \in handed'
  <2>1. CASE t \in {db, Newest}
    BY <1>1, <1>2, <2>1 DEF Delivery
  <2>2. ASSUME NEW k \in Coroutines, Writes(k), View(k) = Newest, t = Written(k)
        PROVE  m \in handed'
    <3>1. /\ View(k)[m].inReplyTo = NoCorrelation
          /\ \/ View(k)[m].status = "DELIVERED"
             \/ op[k].at \in {"mark", "claim"} /\ m \in op[k].picked
      BY <1>2, <2>2, WriteDelivers
    <3>2. CASE op[k].at = "mark" /\ m \in op[k].picked
      <4>1. op[k].call = "drain"
        BY <1>0, <3>2, StageTells
      <4>2. QED
        BY <1>1, <3>2, <4>1 DEF Delivery
    <3>3. CASE op[k].at = "claim" /\ m \in op[k].picked
      <4>1. op[k].call = "claim"
        BY <1>0, <3>3, StageTells
      <4>2. QED
        BY <3>1, <3>3, <4>1 DEF Delivery
    <3>4. CASE View(k)[m].status = "DELIVERED"
      BY <1>1, <2>2, <3>1, <3>4 DEF Delivery
    <3>5. QED
      BY <3>1, <3>2, <3>3, <3>4
  <2>3. QED
    BY <2>1, <2>2, TablesStep
<1>3. ASSUME NEW k \in Coroutines, op'[k].call = "drain", op'[k].at # "persist"
      PROVE  op'[k].picked \subseteq handed'
  <2>0. op'[k] # NoOp
    BY <1>3 DEF NoOp
  <2>1. CASE op[k] = NoOp
    BY <1>0, <1>3, <2>0, <2>1, CallStart DEF SelectGroup, StartClaim, StartSend
  <2>2. CASE op[k] # NoOp
    <3>1. op[k].call = "drain"
      BY <1>3, <2>0, <2>2, CallStep
    <3>2. CASE op[k].at # "persist"
      <4>1. op[k].at \notin {"oldest", "select", "expire"}
        BY <1>0, <3>1, StageTells
      <4>2. op'[k].picked = op[k].picked
        BY <2>0, <2>2, <4>1, CallStep DEF Expire, SelectOldest, SelectReply
      <4>3. QED
        BY <1>1, <3>1, <3>2, <4>2 DEF Delivery
    <3>3. CASE op[k].at = "persist"
      <4>1. PersistGroup(k) /\ op'[k].picked = op[k].picked
        BY <1>3, <2>0, <2>2, <3>3, CallStep
           DEF Begin, CountPending, Insert, Flip, MarkDelivered, ClaimReply, Expire,
               SelectOldest, SelectReply
      <4>2. QED
        BY <4>1 DEF PersistGroup
    <3>4. QED
      BY <3>2, <3>3
  <2>3. QED
    BY <2>1, <2>2
<1>4. ASSUME NEW k \in Coroutines, op'[k].call = "claim", NEW m \in op'[k].picked
      PROVE  View(k)'[m].inReplyTo # NoCorrelation
  <2>0. op'[k] # NoOp
    BY <1>4 DEF NoOp
  <2>1. CASE op[k] = NoOp
    BY <1>0, <1>4, <2>0, <2>1, CallStart DEF SelectGroup, StartClaim, StartSend
  <2>2. CASE op[k] # NoOp
    <3>1. op[k].call = "claim" /\ op[k].at \notin {"oldest", "expire"}
      BY <1>0, <1>4, <2>0, <2>2, CallStep, StageTells
    <3>2. CASE m \in op[k].picked
      <4>1. View(k)[m].inReplyTo # NoCorrelation /\ m \in Present(View(k))
        BY <3>1, <3>2 DEF Delivery, Rows
      <4>2. QED
        BY <2>0, <4>1, ViewContinues DEF Continues
    <3>3. CASE m \notin op[k].picked
      <4> DEFINE S == RepliesTo(View(k), AddressOf[k], op[k].corr)
      <4>1. SelectReply(k) /\ op'[k].picked = IF S = {} THEN {} ELSE {Oldest(View(k), S)}
        BY <1>4, <2>0, <2>2, <3>1, <3>3, CallStep DEF Expire, SelectOldest
      <4>2. S \in SUBSET Messages /\ View(k) \in Table
        BY ViewTyped DEF RepliesTo, PendingIn
      <4>3. View(k)' = View(k)
        BY <4>1, LooksSees DEF Looks
      <4>4. \A n \in S : View(k)[n].inReplyTo = op[k].corr
        BY DEF RepliesTo
      <4>5. op[k].corr # NoCorrelation
        BY <1>0, <3>1, StageTells, MessageTableAssumption
      <4> HIDE DEF S
      <4>6. m \in S
        BY <1>4, <4>1, <4>2, OldestPicked
      <4>7. QED
        BY <4>3, <4>4, <4>5, <4>6
    <3>4. QED
      BY <3>2, <3>3
  <2>3. QED
    BY <2>1, <2>2
<1>5. QED
  BY <1>2, <1>3, <1>4 DEF Delivery

\* In every state the newest table continues the committed one, and each row in
\* flight is sent once.
THEOREM RowsAlways == Spec => [](TypeOK /\ Rows)
<1>1. TypeOK /\ Rows /\ [Next]_vars => TypeOK' /\ Rows'
  BY StepTypeOK, StepRows
<1>2. QED
  BY <1>1, InitTypeOK, InitRows, PTL DEF Spec

\* However the coroutines of the processes mix up their transactions, and
\* wherever one is cancelled or a process dies, a message that is acknowledged
\* and answers nothing has become a turn of its recipient.
THEOREM DrainedAlwaysHanded == Spec => []DrainedWasHanded
<1>1. TypeOK /\ Rows /\ Delivery /\ [Next]_vars => TypeOK' /\ Rows' /\ Delivery'
  BY StepTypeOK, StepRows, StepDelivery
<1>2. Delivery => DrainedWasHanded
  BY DEF Delivery, DrainedWasHanded
<1>3. QED
  BY <1>1, <1>2, InitTypeOK, InitRows, InitDelivery, PTL DEF Spec

-----------------------------------------------------------------------------
(* The order of one sender's messages                                      *)

\* Messages of one sender to one inbox are not overtaken in t.
OrderedIn(t) ==
  \A m, n \in Present(t) :
    /\ t[m].from = t[n].from /\ t[m].to = t[n].to
    /\ t[m].at < t[n].at
    /\ t[n].status = "DELIVERED" /\ t[n].inReplyTo = NoCorrelation
    => t[m].status # "PENDING"

\* A group of rows P leaves out no pending row its sender sent before.
ClosedIn(t, P) ==
  \A n \in P : n \in Present(t) /\
    \A m \in Present(t) :
      t[m].from = t[n].from /\ t[m].to = t[n].to /\ t[m].at < t[n].at
        /\ t[m].status = "PENDING" => m \in P

\* Stamps follow the clock; the row a sender is sending is younger than its
\* others, and so is one that is not committed.
Stamped ==
  /\ \A m \in Present(Newest) : Newest[m].at < clock
  /\ \A k \in Coroutines : op[k].call = "send" => op[k].row.at < clock
  /\ \A k \in Coroutines : Waiting(k) =>
       \A m \in Present(Newest) :
         Newest[m].from = AddressOf[k] => Newest[m].at < op[k].row.at
  /\ \A t \in Seen : \A n \in Present(t), m \in Present(Newest) :
       t[n].from = Newest[m].from /\ Newest[m].at < t[n].at => m \in Present(t)

\* What a drain holds while it has not marked it.
InOrder ==
  /\ OrderedIn(db) /\ OrderedIn(Newest)
  /\ \A k \in Coroutines : op[k].at \in {"persist", "mark"} =>
       ClosedIn(View(k), op[k].picked)

\* An agent's messages are sent by one coroutine.
OneSenderEach == \A j, k \in Coroutines : AddressOf[j] = AddressOf[k] => j = k

LEMMA StampsCompare ==
  ASSUME NEW t \in Table, NEW m \in Messages
  PROVE  t[m].at \in Nat
BY MessageTableAssumption DEF Table, Row

\* inbox() returns the oldest rows, so the group a drain picks is closed.
LEMMA GroupIsClosed ==
  ASSUME NEW t \in Table, NEW a
  PROVE  ClosedIn(t, OldestGroup(t, a))
<1> DEFINE Pend == PendingIn(t, a)
           Before(x) == {y \in Pend : t[y].at < t[x].at}
<1> SUFFICES ASSUME NEW n \in OldestGroup(t, a)
             PROVE  n \in Present(t) /\
                    \A m \in Present(t) :
                      t[m].from = t[n].from /\ t[m].to = t[n].to /\ t[m].at < t[n].at
                        /\ t[m].status = "PENDING" => m \in OldestGroup(t, a)
  BY DEF ClosedIn
<1>1. n \in Pend /\ Cardinality(Before(n)) < Cap
      /\ t[n].from = t[Oldest(t, Inbox(t, a))].from
  BY DEF OldestGroup, Inbox
<1>2. n \in Messages /\ t[n].status = "PENDING" /\ t[n].to = a
  BY <1>1 DEF PendingIn
<1>3. ASSUME NEW m \in Present(t), t[m].from = t[n].from, t[m].to = t[n].to,
             t[m].at < t[n].at, t[m].status = "PENDING"
      PROVE  m \in OldestGroup(t, a)
  <2>1. m \in Messages /\ m \in Pend
    BY <1>2, <1>3 DEF Present, PendingIn
  <2>2. Before(m) \subseteq Before(n)
    <3>1. \A y \in Pend : t[y].at \in Nat
      BY StampsCompare DEF PendingIn
    <3>2. t[m].at \in Nat /\ t[n].at \in Nat
      BY <1>2, <2>1, StampsCompare
    <3>3. QED
      BY <1>3, <3>1, <3>2
  <2>3. /\ IsFiniteSet(Before(n)) /\ IsFiniteSet(Before(m))
    BY PendingFinite, FS_Subset
  <2>4. /\ Cardinality(Before(m)) <= Cardinality(Before(n))
        /\ Cardinality(Before(m)) \in Nat /\ Cardinality(Before(n)) \in Nat
    BY <2>2, <2>3, FS_Subset, FS_CardinalityType
  <2>5. Cardinality(Before(m)) < Cap
    BY <1>1, <2>4, MessageTableAssumption
  <2>6. m \in Inbox(t, a)
    BY <2>1, <2>5 DEF Inbox
  <2>7. QED
    BY <1>1, <1>3, <2>6 DEF OldestGroup
<1>4. QED
  BY <1>2, <1>3 DEF Present

\* What holds of an insert's row holds of what a write brings in.
LEMMA BroughtIn ==
  ASSUME TypeOK, Rows, Stamped, NEW k \in Coroutines, Writes(k),
         NEW m \in Present(Written(k)), m \notin Present(View(k))
  PROVE  /\ op[k].at = "insert" /\ m = op[k].msg /\ Waiting(k)
         /\ Written(k)[m] = op[k].row
         /\ op[k].row.from = AddressOf[k] /\ op[k].row.at < clock
         /\ \A n \in Present(Newest) :
              Newest[n].from = AddressOf[k] => Newest[n].at < op[k].row.at
<1>1. op[k].at = "insert" /\ m = op[k].msg /\ m \in Messages
  BY WriteContinues DEF Present
<1>2. /\ op[k].call = "send" /\ op[k].row \in Row
      /\ View(k) \in Table
  BY <1>1, StageTells, ViewTyped DEF TypeOK
<1>3. Written(k)[m] = op[k].row
  BY <1>1, <1>2, InsertRowEffect DEF Written
<1>4. QED
  BY <1>1, <1>2, <1>3 DEF Rows, Stamped, Waiting

LEMMA StepStamped ==
  OneSenderEach /\ TypeOK /\ TypeOK' /\ Rows /\ Rows' /\ Stamped /\ [Next]_vars
    => Stamped'
<1> SUFFICES ASSUME OneSenderEach, TypeOK, TypeOK', Rows, Rows', Stamped, [Next]_vars
             PROVE  Stamped'
  OBVIOUS
<1>0. /\ op \in [Coroutines -> Op \cup {NoOp}] /\ db \in Table /\ Newest \in Table
      /\ op' \in [Coroutines -> Op \cup {NoOp}] /\ clock \in Nat /\ clock' \in Nat
      /\ db' \in Table /\ Newest' \in Table
  BY DEF TypeOK, Newest
<1>1. clock <= clock'
  <2>1. \A k \in Coroutines : Step(k) => clock' = clock
    BY DEF Step, Begin, BeginRefused, CountPending, SelectOldest, Expire, Insert, Flip,
           Commit, PersistGroup, MarkDelivered, SelectReply, ClaimReply
  <2>2. QED
    BY <1>0, <2>1 DEF Next, vars, StartSend, SelectGroup, StartClaim,
                      SelectNothing, Cancel, Busy, Crash
\* Where a row of the newest table comes from.
<1>2. ASSUME NEW m \in Present(Newest')
      PROVE  \/ /\ m \in Present(Newest) /\ Newest'[m].at = Newest[m].at
                /\ Newest'[m].from = Newest[m].from
             \/ \E j \in Coroutines :
                  /\ Writes(j) /\ db' = db /\ op[j].at = "insert"
                  /\ Newest'[m].from = AddressOf[j] /\ Newest'[m].at < clock
                  /\ \A n \in Present(Newest) :
                       Newest[n].from = AddressOf[j] => Newest[n].at < Newest'[m].at
  <2>1. CASE Newest' = Newest
    BY <1>2, <2>1
  <2>2. CASE Newest' = db
    BY <1>2, <2>2 DEF Rows, Continues, Present
  <2>3. ASSUME NEW j \in Coroutines, Writes(j), View(j) = Newest, db' = db,
               Newest' = Written(j)
        PROVE  \/ /\ m \in Present(Newest) /\ Newest'[m].at = Newest[m].at
                  /\ Newest'[m].from = Newest[m].from
               \/ /\ op[j].at = "insert"
                  /\ Newest'[m].from = AddressOf[j] /\ Newest'[m].at < clock
                  /\ \A n \in Present(Newest) :
                       Newest[n].from = AddressOf[j] => Newest[n].at < Newest'[m].at
    <3>1. CASE m \in Present(View(j))
      BY <2>3, <3>1, WriteContinues DEF Continues
    <3>2. CASE m \notin Present(View(j))
      BY <1>2, <2>3, <3>2, BroughtIn
    <3>3. QED
      BY <3>1, <3>2
  <2>4. QED
    BY <2>1, <2>2, <2>3, TablesStep
<1>3. ASSUME NEW m \in Present(Newest') PROVE Newest'[m].at < clock'
  <2>1. m \in Messages /\ Newest'[m].at \in Nat
    BY <1>0, StampsCompare DEF Present
  <2>2. Newest'[m].at < clock
    BY <1>2 DEF Stamped
  <2>3. QED
    BY <1>0, <1>1, <2>1, <2>2
<1>4. ASSUME NEW k \in Coroutines, op'[k].call = "send"
      PROVE  /\ op'[k].row.at < clock'
             /\ op[k] = NoOp => op'[k].row.at = clock /\ Newest' = Newest
  <2>0. op'[k] # NoOp
    BY <1>4 DEF NoOp
  <2>1. CASE op[k] = NoOp
    <3>1. /\ UNCHANGED <<db, work, writer>>
          /\ \E m \in Messages, to \in Agents, asks, re \in MaybeCorrelation :
               StartSend(k, m, to, asks, re)
      BY <1>0, <1>4, <2>0, <2>1, CallStart DEF SelectGroup, StartClaim
    <3>2. Newest' = Newest
      BY <3>1 DEF Newest
    <3>3. op'[k].row.at = clock /\ clock' = clock + 1
      BY <1>0, <3>1 DEF StartSend, NewRow
    <3>4. QED
      BY <1>0, <3>2, <3>3
  <2>2. CASE op[k] # NoOp
    <3>1. op'[k].row = op[k].row /\ op[k].call = "send"
      BY <1>4, <2>0, <2>2, CallStep
    <3>2. op[k].row.at \in Nat
      BY <1>0, <3>1, StageTells, MessageTableAssumption DEF Row
    <3>3. op[k].row.at < clock
      BY <3>1 DEF Stamped
    <3>4. QED
      BY <1>0, <1>1, <2>2, <3>1, <3>2, <3>3
  <2>3. QED
    BY <2>1, <2>2
<1>5. ASSUME NEW k \in Coroutines, Waiting(k)', NEW m \in Present(Newest'),
             Newest'[m].from = AddressOf[k]
      PROVE  Newest'[m].at < op'[k].row.at
  <2>1. CASE op[k] = NoOp
    BY <1>4, <1>5, <2>1 DEF Waiting, Stamped
  <2>2. CASE op[k] # NoOp
    <3>1. /\ Waiting(k) /\ op'[k].row = op[k].row
          /\ Writes(k) => op[k].at # "insert"
      BY <1>5, <2>2, WaitingBefore
    <3>2. ASSUME NEW j \in Coroutines, Writes(j), op[j].at = "insert",
                 Newest'[m].from = AddressOf[j]
          PROVE  FALSE
      <4>1. j = k
        BY <1>5, <3>2 DEF OneSenderEach
      <4>2. QED
        BY <3>1, <3>2, <4>1
    <3>3. QED
      BY <1>2, <1>5, <3>1, <3>2 DEF Stamped
  <2>3. QED
    BY <2>1, <2>2
<1>6. ASSUME NEW t \in Seen', NEW n \in Present(t), NEW m \in Present(Newest'),
             t[n].from = Newest'[m].from, Newest'[m].at < t[n].at
      PROVE  m \in Present(t)
  <2>1. CASE Newest' = t
    BY <1>6, <2>1
  <2>2. ASSUME t \in Seen
        PROVE  m \in Present(t)
    <3>0. t \in Table /\ Continues(t, Newest)
      BY <1>0, <2>2, SeenTyped, Continuing DEF Rows
    <3>1. CASE m \in Present(Newest) /\ Newest'[m].at = Newest[m].at
               /\ Newest'[m].from = Newest[m].from
      BY <1>6, <2>2, <3>1 DEF Stamped
    <3>2. CASE \E j \in Coroutines :
                  /\ Newest'[m].from = AddressOf[j]
                  /\ \A x \in Present(Newest) :
                       Newest[x].from = AddressOf[j] => Newest[x].at < Newest'[m].at
      <4>1. n \in Present(Newest) /\ Newest[n].from = t[n].from /\ Newest[n].at = t[n].at
        BY <1>6, <3>0 DEF Continues, Present
      <4>2. t[n].at < Newest'[m].at /\ Newest'[m].at < t[n].at
        BY <1>6, <3>2, <4>1
      <4>3. t[n].at \in Nat /\ Newest'[m].at \in Nat
        BY <1>0, <1>6, <3>0, StampsCompare DEF Present
      <4>4. QED
        BY <4>2, <4>3
    <3>3. QED
      BY <1>2, <3>1, <3>2
  <2>3. t \in Seen \/ Newest' = t
    <3>1. db \in Seen
      BY DEF Seen
    <3>2. db' = db \/ Newest' = db'
      BY TablesStep
    <3>3. QED
      BY <3>1, <3>2, SeenStep
  <2>4. QED
    BY <2>1, <2>2, <2>3
<1>7. QED
  BY <1>3, <1>4, <1>5, <1>6 DEF Stamped

\* A write leaves a closed group closed.
LEMMA WriteKeepsClosed ==
  ASSUME TypeOK, TypeOK', Rows, Stamped, NEW k \in Coroutines, Writes(k), NEW P,
         ClosedIn(View(k), P)
  PROVE  ClosedIn(Written(k), P)
<1>0. View(k) \in Table /\ Written(k) \in Table /\ View(k) = Newest
  BY WriteContinues, ViewTyped
<1> SUFFICES ASSUME NEW n \in P
             PROVE  n \in Present(Written(k)) /\
               \A m \in Present(Written(k)) :
                 Written(k)[m].from = Written(k)[n].from
                   /\ Written(k)[m].to = Written(k)[n].to
                   /\ Written(k)[m].at < Written(k)[n].at
                   /\ Written(k)[m].status = "PENDING" => m \in P
  BY DEF ClosedIn
<1>1. n \in Present(View(k)) /\ n \in Messages
  BY DEF ClosedIn, Present
<1>2. /\ n \in Present(Written(k)) /\ Written(k)[n].from = View(k)[n].from
      /\ Written(k)[n].to = View(k)[n].to /\ Written(k)[n].at = View(k)[n].at
  BY <1>1, WriteContinues DEF Continues, Present
<1>3. ASSUME NEW m \in Present(Written(k)),
             Written(k)[m].from = Written(k)[n].from,
             Written(k)[m].to = Written(k)[n].to,
             Written(k)[m].at < Written(k)[n].at,
             Written(k)[m].status = "PENDING"
      PROVE  m \in P
  <2>1. CASE m \in Present(View(k))
    <3>1. /\ Written(k)[m].from = View(k)[m].from /\ Written(k)[m].to = View(k)[m].to
          /\ Written(k)[m].at = View(k)[m].at /\ View(k)[m].status = "PENDING"
      BY <1>3, <2>1, WriteContinues DEF Continues
    <3>2. QED
      BY <1>2, <1>3, <2>1, <3>1 DEF ClosedIn
  <2>2. CASE m \notin Present(View(k))
    <3>1. /\ Written(k)[m] = op[k].row /\ op[k].row.from = AddressOf[k]
          /\ \A x \in Present(Newest) :
               Newest[x].from = AddressOf[k] => Newest[x].at < op[k].row.at
      BY <1>3, <2>2, BroughtIn
    <3>2. View(k)[n].at < Written(k)[m].at /\ Written(k)[m].at < View(k)[n].at
      BY <1>0, <1>1, <1>2, <1>3, <3>1
    <3>3. View(k)[n].at \in Nat /\ Written(k)[m].at \in Nat
      BY <1>0, <1>1, <1>3, StampsCompare DEF Present
    <3>4. QED
      BY <3>2, <3>3
  <2>3. QED
    BY <2>1, <2>2
<1>4. QED
  BY <1>2, <1>3

\* A group that is closed in a table that is read is closed in the committed one
\* and in the newest.
LEMMA NewestKeepsClosed ==
  ASSUME TypeOK, Rows, Stamped, NEW t \in Seen, NEW P, ClosedIn(t, P),
         NEW u \in {db, Newest}
  PROVE  ClosedIn(u, P)
<1> SUFFICES ASSUME NEW n \in P
             PROVE  n \in Present(u) /\
               \A m \in Present(u) :
                 u[m].from = u[n].from /\ u[m].to = u[n].to
                   /\ u[m].at < u[n].at
                   /\ u[m].status = "PENDING" => m \in P
  BY DEF ClosedIn
<1>0. /\ t \in Table /\ u \in Table /\ Continues(t, u)
      /\ \A m \in Present(u) :
           m \in Present(Newest) /\ Newest[m].from = u[m].from /\ Newest[m].at = u[m].at
  <2>1. t \in Table /\ db \in Table /\ Newest \in Table /\ Continues(t, db)
        /\ Continues(db, Newest)
    BY SeenTyped DEF Rows, TypeOK
  <2>2. Continues(t, u) /\ u \in Table
    BY <2>1, Continuing
  <2>3. QED
    BY <2>1, <2>2 DEF Continues, Present
<1>1. n \in Present(t)
  BY DEF ClosedIn
<1>2. n \in Present(u) /\ u[n].from = t[n].from /\ u[n].to = t[n].to /\ u[n].at = t[n].at
  BY <1>0, <1>1 DEF Continues, Present
<1>3. ASSUME NEW m \in Present(u),
             u[m].from = u[n].from, u[m].to = u[n].to,
             u[m].at < u[n].at, u[m].status = "PENDING"
      PROVE  m \in P
  <2>1. m \in Present(t)
    BY <1>0, <1>1, <1>2, <1>3 DEF Stamped
  <2>2. /\ u[m].from = t[m].from /\ u[m].to = t[m].to
        /\ u[m].at = t[m].at /\ t[m].status = "PENDING"
    BY <1>0, <1>3, <2>1 DEF Continues
  <2>3. QED
    BY <1>2, <1>3, <2>1, <2>2 DEF ClosedIn
<1>4. QED
  BY <1>2, <1>3

\* A write overtakes nothing: what it delivers was picked with all the rows its
\* sender sent before, and what it inserts is its sender's youngest.
LEMMA WriteKeepsOrder ==
  ASSUME TypeOK, TypeOK', Rows, Delivery, Stamped, InOrder,
         NEW k \in Coroutines, Writes(k)
  PROVE  OrderedIn(Written(k))
<1> DEFINE v == View(k)
           w == Written(k)
<1>0. v \in Table /\ w \in Table /\ v = Newest /\ op[k] \in Op \cup {NoOp}
  BY WriteContinues, ViewTyped DEF TypeOK
<1> SUFFICES ASSUME NEW m \in Present(w), NEW n \in Present(w),
                    w[m].from = w[n].from, w[m].to = w[n].to, w[m].at < w[n].at,
                    w[n].status = "DELIVERED", w[n].inReplyTo = NoCorrelation,
                    w[m].status = "PENDING"
             PROVE  FALSE
  BY DEF OrderedIn
<1>1. /\ n \in Present(v) /\ v[n].inReplyTo = NoCorrelation
      /\ \/ v[n].status = "DELIVERED"
         \/ op[k].at \in {"mark", "claim"} /\ n \in op[k].picked
  BY WriteDelivers DEF Present
<1>2. w[n].from = v[n].from /\ w[n].to = v[n].to /\ w[n].at = v[n].at
  BY <1>1, WriteContinues DEF Continues
<1>3. m \in Present(v)
  <2> SUFFICES ASSUME m \notin Present(v) PROVE FALSE
    OBVIOUS
  <2>1. /\ w[m] = op[k].row /\ op[k].row.from = AddressOf[k]
        /\ \A x \in Present(Newest) :
             Newest[x].from = AddressOf[k] => Newest[x].at < op[k].row.at
    BY BroughtIn
  <2>2. v[n].at < w[m].at /\ w[m].at < v[n].at
    BY <1>0, <1>1, <1>2, <2>1
  <2>3. v[n].at \in Nat /\ w[m].at \in Nat
    BY <1>0, <1>1, StampsCompare DEF Present
  <2>4. QED
    BY <2>2, <2>3
<1>4. /\ w[m].from = v[m].from /\ w[m].to = v[m].to /\ w[m].at = v[m].at
      /\ v[m].status = "PENDING"
  BY <1>3, WriteContinues DEF Continues
<1>5. CASE v[n].status = "DELIVERED"
  BY <1>0, <1>1, <1>2, <1>3, <1>4, <1>5 DEF InOrder, OrderedIn
<1>6. CASE op[k].at = "claim" /\ n \in op[k].picked
  <2>1. op[k].call = "claim"
    BY <1>0, <1>6, StageTells
  <2>2. QED
    BY <1>1, <1>6, <2>1 DEF Delivery
<1>7. CASE op[k].at = "mark" /\ n \in op[k].picked
  <2>1. m \in op[k].picked
    BY <1>2, <1>3, <1>4, <1>7 DEF InOrder, ClosedIn
  <2>2. w = SetDelivered(v, op[k].picked) /\ op[k].picked \in SUBSET Messages
    BY <1>0, <1>7, StageTells DEF Written
  <2>3. QED
    BY <1>0, <1>4, <2>1, <2>2, SetDeliveredEffect DEF Present
<1>8. QED
  BY <1>1, <1>5, <1>6, <1>7

LEMMA StepInOrder ==
  TypeOK /\ TypeOK' /\ Rows /\ Delivery /\ Stamped /\ InOrder /\ [Next]_vars
    => InOrder'
<1> SUFFICES ASSUME TypeOK, TypeOK', Rows, Delivery, Stamped, InOrder, [Next]_vars
             PROVE  InOrder'
  OBVIOUS
<1>0. /\ op \in [Coroutines -> Op \cup {NoOp}] /\ db \in Table /\ Newest \in Table
      /\ op' \in [Coroutines -> Op \cup {NoOp}]
  BY DEF TypeOK, Newest
<1>1. OrderedIn(db') /\ OrderedIn(Newest')
  <2>1. OrderedIn(db) /\ OrderedIn(Newest)
    BY DEF InOrder
  <2>2. \A k \in Coroutines : Writes(k) => OrderedIn(Written(k))
    BY WriteKeepsOrder
  <2>3. QED
    BY <2>1, <2>2, TablesStep
<1>2. ASSUME NEW k \in Coroutines, op'[k].at \in {"persist", "mark"}
      PROVE  ClosedIn(View(k)', op'[k].picked)
  <2> DEFINE P == op'[k].picked
  <2>0. op'[k] # NoOp /\ op'[k].call = "drain"
    BY <1>0, <1>2, StageTells DEF NoOp
  <2>1. CASE op[k] = NoOp
    <3>1. SelectGroup(k) /\ View(k)' = View(k)
      BY <1>0, <2>0, <2>1, CallStart DEF StartSend, StartClaim
    <3>2. P = OldestGroup(View(k), AddressOf[k]) /\ View(k) \in Table
      BY <1>0, <3>1, ViewTyped DEF SelectGroup
    <3> HIDE DEF P
    <3>3. QED
      BY <3>1, <3>2, GroupIsClosed DEF P
  <2>2. CASE op[k] # NoOp
    <3>1. op[k].call = "drain"
      BY <2>0, <2>2, CallStep
    <3>2. op[k].at \in {"persist", "mark"} /\ P = op[k].picked
      <4>1. op[k].at \notin {"oldest", "select", "expire", "begin", "insert", "count",
                             "flip", "claim", "idle"}
        BY <1>0, <2>2, <3>1, StageTells
      <4>2. P = op[k].picked
        BY <2>0, <2>2, <4>1, CallStep DEF Expire, SelectOldest, SelectReply
      <4>3. op[k].at # "commit"
        <5>1. CASE op'[k] = op[k]
          BY <1>2, <5>1
        <5>2. CASE op'[k] # op[k]
          BY <2>0, <2>2, <5>2, CallStep
             DEF Begin, CountPending, Insert, Flip, PersistGroup, MarkDelivered,
                 ClaimReply, Expire, SelectOldest, SelectReply
        <5>3. QED
          BY <5>1, <5>2
      <4>4. op[k].at \in DrainStages
        BY <1>0, <2>2, <3>1 DEF Op
      <4>5. QED
        BY <4>2, <4>3, <4>4 DEF DrainStages
    <3> HIDE DEF P
    <3>3. ClosedIn(View(k), P)
      BY <3>2 DEF InOrder
    <3>4. ASSUME NEW j \in Coroutines, Writes(j), ClosedIn(View(j), P)
          PROVE  ClosedIn(Written(j), P)
      BY <3>4, WriteKeepsClosed
    <3>5. View(k) \in Seen => ClosedIn(db, P) /\ ClosedIn(Newest, P)
      BY <3>3, NewestKeepsClosed
    <3>6. ClosedIn(View(k)', P)
      BY <2>0, <3>3, <3>4, <3>5, ViewStep
    <3>7. QED
      BY <3>6 DEF P
  <2>3. QED
    BY <2>1, <2>2
<1>3. QED
  BY <1>1, <1>2 DEF InOrder

LEMMA InitOrder == Init => Stamped /\ InOrder
<1> SUFFICES ASSUME Init PROVE Stamped /\ InOrder
  OBVIOUS
<1>1. Newest = db /\ \A m \in Messages : db[m].status = "ABSENT"
  BY EmptyTableType DEF Init, Newest
<1>2. \A k \in Coroutines : op[k].call = "none" /\ op[k].at = "idle"
  BY DEF Init, NoOp
<1>3. Seen = {db}
  BY DEF Init, Seen, NotDeferred
<1>4. QED
  BY <1>1, <1>2, <1>3 DEF Stamped, InOrder, OrderedIn, Present, Waiting

\* When each agent's messages are sent by one coroutine, they reach an inbox's
\* reader in the order they were sent, however the connections are shared and
\* wherever calls are cancelled or processes die.
THEOREM SenderOrderKept ==
  ASSUME OneSenderEach
  PROVE  Spec => []PerSenderOrder
<1> DEFINE Inv == TypeOK /\ Rows /\ Delivery /\ Stamped /\ InOrder
<1>1. Init => Inv
  BY InitTypeOK, InitRows, InitDelivery, InitOrder
<1>2. Inv /\ [Next]_vars => Inv'
  <2>1. SUFFICES ASSUME Inv, [Next]_vars PROVE Inv'
    OBVIOUS
  <2>2. TypeOK'
    BY <2>1, StepTypeOK
  <2>3. Rows'
    BY <2>1, <2>2, StepRows
  <2>4. Delivery'
    BY <2>1, <2>2, <2>3, StepDelivery
  <2>5. Stamped'
    BY <2>1, <2>2, <2>3, StepStamped
  <2>6. InOrder'
    BY <2>1, <2>2, StepInOrder
  <2>7. QED
    BY <2>2, <2>3, <2>4, <2>5, <2>6
<1>3. Inv => PerSenderOrder
  BY DEF InOrder, OrderedIn, PerSenderOrder
<1>4. QED
  BY <1>1, <1>2, <1>3, PTL DEF Spec

-----------------------------------------------------------------------------
(* Coroutines on connections of their own                                  *)

\* No two coroutines share a connection or an address, and none is cancelled:
\* a process that runs one agent's loop and nothing else.
Isolated ==
  /\ \A j, k \in Coroutines : ConnOf[j] = ConnOf[k] => j = k
  /\ OneSenderEach
  /\ Cancellable = {}

\* The writer is the one coroutine inside a transaction, and no other
\* transaction is open.
Holding ==
  /\ \A c \in Conns : deferred[c].at = "none"
  /\ writer # NoConn => \E k \in Coroutines : writer = ConnOf[k]
  /\ \A k \in Coroutines : writer = ConnOf[k] <=> op[k].at \in InTransaction

\* How far a call o of agent a has turned the committed table t into u.
Underway(o, a, t, u) ==
  /\ o.at \in {"count", "oldest", "expire", "select", "claim"} => u = t
  /\ o.at \in {"oldest", "expire"} => Cardinality(PendingIn(t, o.row.to)) >= Cap
  /\ o.at = "expire" => o.picked = {Oldest(t, PendingIn(t, o.row.to))}
  /\ o.at = "insert" => u = EnforceCap(t, o.row.to)
  /\ o.at = "flip" => u = InsertRow(EnforceCap(t, o.row.to), o.msg, o.row)
  /\ o.at = "commit" /\ o.call = "send" =>
       u = FlipAnswered(InsertRow(EnforceCap(t, o.row.to), o.msg, o.row),
                        o.row.inReplyTo)
  /\ o.at = "commit" /\ o.call \in {"drain", "claim"} => u = SetDelivered(t, o.picked)
  /\ o.call = "claim" /\ o.at \in {"claim", "commit"} =>
       o.picked = IF RepliesTo(t, a, o.corr) = {} THEN {}
                    ELSE {Oldest(t, RepliesTo(t, a, o.corr))}

Progress == \A k \in Coroutines : Underway(op[k], AddressOf[k], db, work)

\* Updates that find no row.
LEMMA NothingSet ==
  ASSUME NEW t \in Table
  PROVE  SetDelivered(t, {}) = t /\ FlipAnswered(t, NoCorrelation) = t
<1>1. \A s : SetStatus(t, {}, s) = t
  BY DEF SetStatus, Table
<1>2. {m \in {} : t[m].status = "PENDING"} = {} /\ OpenQuestions(t, NoCorrelation) = {}
  BY DEF OpenQuestions
<1>3. QED
  BY <1>1, <1>2 DEF SetDelivered, FlipAnswered

\* So a call is never refused the lock, and reads its own transaction's table or
\* the committed one.
LEMMA HoldingTells ==
  ASSUME Holding, NEW k \in Coroutines
  PROVE  /\ ~Busy(k) /\ ~SelectNothing(k)
         /\ View(k) = IF writer = ConnOf[k] THEN work ELSE db
<1>1. DeferredOf(k).at = "none"
  BY AgentMessageStoreAssumption DEF Holding, DeferredOf
<1>2. ~LockIsLeft(k)
  BY DEF LockIsLeft, Holding, NoOp, InTransaction
<1>3. QED
  BY <1>1, <1>2 DEF Busy, SelectNothing, View

LEMMA StepHolding ==
  Isolated /\ TypeOK /\ Holding /\ [Next]_vars => Holding'
<1> SUFFICES ASSUME Isolated, TypeOK, Holding, [Next]_vars PROVE Holding'
  OBVIOUS
<1>0. /\ op \in [Coroutines -> Op \cup {NoOp}] /\ NoConn \notin Conns
      /\ \A k \in Coroutines : ConnOf[k] \in Conns
      /\ \A j, k \in Coroutines : ConnOf[j] = ConnOf[k] => j = k
  BY AgentMessageStoreAssumption DEF TypeOK, Isolated
<1>4. \A k \in Coroutines : ~Busy(k) /\ ~SelectNothing(k)
  BY HoldingTells
<1>9. \A c \in Conns : deferred'[c].at = "none"
  BY <1>4, DeferredMoves DEF Holding
<1>1. ASSUME NEW k \in Coroutines, UNCHANGED writer,
             op[k].at \in InTransaction <=> op'[k].at \in InTransaction,
             \A j \in Coroutines \ {k} : op'[j] = op[j]
      PROVE  Holding'
  BY <1>1, <1>9 DEF Holding
<1>2. ASSUME NEW k \in Coroutines, Step(k) PROVE Holding'
  <2>1. \A j \in Coroutines \ {k} : op'[j] = op[j] /\ ConnOf[j] # ConnOf[k]
    BY <1>0, <1>2, OneMoves
  <2>2. CASE /\ writer' = ConnOf[k] /\ op'[k].at \in InTransaction
             /\ writer \in {NoConn, ConnOf[k]}
    <3>1. ASSUME NEW j \in Coroutines, j # k
          PROVE  writer' = ConnOf[j] <=> op'[j].at \in InTransaction
      <4>1. writer # ConnOf[j] /\ writer' # ConnOf[j] /\ op'[j] = op[j]
        BY <1>0, <2>1, <2>2, <3>1
      <4>2. QED
        BY <4>1 DEF Holding
    <3>2. QED
      BY <1>9, <2>2, <3>1 DEF Holding
  <2>3. CASE /\ op[k].at = "commit" /\ op'[k].at = "idle"
             /\ writer' = IF writer = ConnOf[k] THEN NoConn ELSE writer
    <3>1. writer = ConnOf[k] /\ writer' = NoConn /\ op'[k].at \notin InTransaction
      BY <2>3 DEF Holding, InTransaction
    <3>2. ASSUME NEW j \in Coroutines, j # k
          PROVE  writer' = ConnOf[j] <=> op'[j].at \in InTransaction
      <4>1. writer # ConnOf[j] /\ writer' # ConnOf[j] /\ op'[j] = op[j]
        BY <1>0, <2>1, <3>1, <3>2
      <4>2. QED
        BY <4>1 DEF Holding
    <3>3. QED
      BY <1>0, <1>9, <3>1, <3>2 DEF Holding
  <2>4. QED
    BY <1>1, <1>2, <2>1, <2>2, <2>3, StepLock
<1>3. ASSUME NEW k \in Coroutines,
             \/ \E m \in Messages, to \in Agents, asks, re \in MaybeCorrelation :
                  StartSend(k, m, to, asks, re)
             \/ SelectGroup(k)
             \/ \E c \in Correlations : StartClaim(k, c)
      PROVE  Holding'
  <2>1. op[k] = NoOp /\ UNCHANGED writer /\ op'[k].at \in {"begin", "persist"}
    BY <1>0, <1>3 DEF StartSend, SelectGroup, StartClaim
  <2>2. \A j \in Coroutines \ {k} : op'[j] = op[j]
    BY <1>3, OneMoves
  <2>3. QED
    BY <1>1, <2>1, <2>2 DEF NoOp, InTransaction
<1>5. ASSUME NEW c \in Conns, Crash(c) PROVE Holding'
  <2>1. ASSUME NEW k \in Coroutines
        PROVE  writer' = ConnOf[k] <=> op'[k].at \in InTransaction
    <3>1. CASE ConnOf[k] = c
      BY <1>0, <1>5, <3>1 DEF Crash, NoOp, InTransaction
    <3>2. CASE ConnOf[k] # c
      BY <1>0, <1>5, <3>2 DEF Crash, Holding
    <3>3. QED
      BY <3>1, <3>2
  <2>2. writer' \in {NoConn, writer}
    BY <1>5 DEF Crash
  <2>3. QED
    BY <1>9, <2>1, <2>2 DEF Holding
<1>6. \A k \in Coroutines : ~Cancel(k)
  BY DEF Isolated, Cancel
<1>7. CASE UNCHANGED vars
  BY <1>7, <1>9 DEF Holding, vars
<1>8. QED
  BY <1>2, <1>3, <1>4, <1>5, <1>6, <1>7 DEF Next

\* Another's transaction keeps everybody else's statements off the tables.
LEMMA Undisturbed ==
  ASSUME Isolated, TypeOK, Holding, NEW j \in Coroutines, NEW k \in Coroutines,
         j # k, op[j].at \in InTransaction, Step(k)
  PROVE  UNCHANGED <<db, work>>
<1>1. writer = ConnOf[j] /\ ConnOf[j] # ConnOf[k] /\ ConnOf[j] # NoConn
  BY AgentMessageStoreAssumption DEF Holding, Isolated
<1>2. ~Begin(k) /\ ~Writes(k)
  BY <1>1, WritesEffect DEF Begin, Write
<1>3. QED
  BY <1>1, <1>2 DEF Step, Writes, BeginRefused, CountPending, SelectOldest, Commit,
                    PersistGroup, SelectReply

LEMMA StepProgress ==
  Isolated /\ TypeOK /\ Holding /\ Progress /\ [Next]_vars => Progress'
<1> SUFFICES ASSUME Isolated, TypeOK, Holding, Progress, [Next]_vars PROVE Progress'
  OBVIOUS
<1>0. /\ op \in [Coroutines -> Op \cup {NoOp}] /\ NoConn \notin Conns
      /\ \A k \in Coroutines : ConnOf[k] \in Conns /\ AddressOf[k] \in Agents
      /\ db \in Table /\ work \in Table
  BY AgentMessageStoreAssumption DEF TypeOK
\* Nothing is said of a call outside its transaction.
<1>1. ASSUME NEW o \in Op \cup {NoOp}, o.at \notin InTransaction, NEW a, NEW t, NEW u
      PROVE  Underway(o, a, t, u)
  BY <1>1 DEF Underway, InTransaction
<1>2. ASSUME NEW k \in Coroutines, Step(k), NEW j \in Coroutines, j # k
      PROVE  Underway(op'[j], AddressOf[j], db', work')
  <2>1. op'[j] = op[j]
    BY <1>2, OneMoves
  <2>2. CASE op[j].at \in InTransaction
    BY <1>2, <2>1, <2>2, Undisturbed DEF Progress
  <2>3. CASE op[j].at \notin InTransaction
    BY <1>0, <1>1, <2>1, <2>3
  <2>4. QED
    BY <2>2, <2>3
<1>3. ASSUME NEW k \in Coroutines, Step(k)
      PROVE  Underway(op'[k], AddressOf[k], db', work')
  <2> DEFINE o == op[k]
             a == AddressOf[k]
  <2>0. o \in Op \cup {NoOp} /\ Underway(o, a, db, work) /\ a \in Agents
        /\ (writer = ConnOf[k] <=> o.at \in InTransaction)
    BY <1>0 DEF Progress, Holding
  <2>1. CASE op'[k] = NoOp
    BY <1>1, <2>1 DEF NoOp, InTransaction
  <2>2. CASE op'[k] # NoOp
    <3>1. o # NoOp
      BY <1>3 DEF Step, Begin, BeginRefused, CountPending, SelectOldest, Expire,
                  Insert, Flip, Commit, PersistGroup, MarkDelivered, SelectReply,
                  ClaimReply, NoOp
    <3>2. /\ op'[k].call = o.call
          /\ o.call = "send" => op'[k].msg = o.msg /\ op'[k].row = o.row
          /\ o.call = "claim" => op'[k].corr = o.corr
      BY <2>2, <3>1, CallStep
    <3>3. CASE Begin(k)
      <4>1. o.call \in {"send", "claim"} /\ work' = db /\ db' = db
        BY <2>0, <3>3, StageTells DEF Begin
      <4>2. op'[k].at = IF o.call = "send" THEN "count" ELSE "select"
        BY <1>0, <3>1, <3>3 DEF Begin, Goto, Op
      <4>3. QED
        BY <4>1, <4>2 DEF Underway
    <3>4. CASE CountPending(k)
      <4> DEFINE n == Cardinality(PendingIn(db, o.row.to))
      <4>1. o.at = "count" /\ o.call = "send" /\ work = db /\ View(k) = db
            /\ UNCHANGED <<db, work>>
        BY <2>0, <3>4, StageTells
           DEF CountPending, Underway, InTransaction, View
      <4>2. op'[k].at = IF n < Cap THEN "insert" ELSE "oldest"
        BY <1>0, <3>1, <3>4, <4>1 DEF CountPending, Goto, Op
      <4>3. n \in Nat /\ Cap \in Nat
        BY PendingFinite, MessageTableAssumption
      <4>4. n < Cap => EnforceCap(db, o.row.to) = db
        BY DEF EnforceCap
      <4>5. ~(n < Cap) => n >= Cap
        BY <4>3
      <4> HIDE DEF n
      <4>6. QED
        BY <3>2, <4>1, <4>2, <4>4, <4>5 DEF Underway, n
    <3>5. CASE SelectOldest(k)
      <4> DEFINE S == PendingIn(db, o.row.to)
      <4>1. o.at = "oldest" /\ o.call = "send" /\ work = db /\ View(k) = db
            /\ UNCHANGED <<db, work>> /\ Cardinality(S) >= Cap
        BY <2>0, <3>5, StageTells
           DEF SelectOldest, Underway, InTransaction, View
      <4>2. S # {}
        BY <4>1, FS_EmptySet, MessageTableAssumption
      <4>3. op'[k].at = "expire" /\ op'[k].picked = {Oldest(db, S)}
        BY <1>0, <3>1, <3>5, <4>1, <4>2 DEF SelectOldest, Op
      <4>4. QED
        BY <3>2, <4>1, <4>3 DEF Underway
    <3>6. CASE Expire(k)
      <4> DEFINE S == PendingIn(db, o.row.to)
      <4>1. o.at = "expire" /\ o.call = "send" /\ work = db /\ View(k) = db
            /\ Cardinality(S) >= Cap /\ o.picked = {Oldest(db, S)}
        BY <2>0, <3>6, StageTells DEF Expire, Underway, InTransaction, View
      <4>2. op'[k].at = "insert" /\ db' = db
            /\ work' = SetStatus(db, {Oldest(db, S)}, "EXPIRED")
        BY <1>0, <3>1, <3>6, <4>1 DEF Expire, Write, Op
      <4>3. ~(Cardinality(S) < Cap)
        BY <4>1, PendingFinite, MessageTableAssumption
      <4>4. work' = EnforceCap(db, o.row.to)
        BY <4>2, <4>3 DEF EnforceCap
      <4>5. QED
        BY <3>2, <4>1, <4>2, <4>4 DEF Underway
    <3>7. CASE Insert(k)
      <4> DEFINE u == InsertRow(EnforceCap(db, o.row.to), o.msg, o.row)
      <4>1. o.at = "insert" /\ o.call = "send" /\ work = EnforceCap(db, o.row.to)
            /\ View(k) = work
        BY <2>0, <3>7, StageTells DEF Insert, Underway, InTransaction, View
      <4>2. db' = db /\ work' = u
            /\ op'[k].at = IF o.row.inReplyTo = NoCorrelation THEN "commit" ELSE "flip"
        BY <1>0, <3>1, <3>7, <4>1 DEF Insert, Write, Goto, Op
      <4>3. u \in Table
        BY <1>0, <2>0, <4>1, StageTells, InsertRowEffect
      <4>4. FlipAnswered(u, NoCorrelation) = u
        BY <4>3, NothingSet
      <4>5. QED
        BY <3>2, <4>1, <4>2, <4>4 DEF Underway
    <3>8. CASE Flip(k)
      <4>1. o.at = "flip" /\ o.call = "send" /\ View(k) = work
            /\ work = InsertRow(EnforceCap(db, o.row.to), o.msg, o.row)
        BY <2>0, <3>8, StageTells DEF Flip, Underway, InTransaction, View
      <4>2. db' = db /\ work' = FlipAnswered(work, o.row.inReplyTo)
            /\ op'[k].at = "commit"
        BY <1>0, <3>1, <3>8, <4>1 DEF Flip, Write, Goto, Op
      <4>3. QED
        BY <3>2, <4>1, <4>2 DEF Underway
    <3>9. CASE Commit(k) \/ BeginRefused(k)
      BY <1>0, <2>2, <3>9 DEF Commit, BeginRefused, Return
    <3>10. CASE PersistGroup(k)
      <4>1. op'[k].at = "mark"
        BY <1>0, <3>1, <3>10 DEF PersistGroup, Goto, Op
      <4>2. QED
        BY <4>1 DEF Underway
    <3>11. CASE MarkDelivered(k)
      <4>1. o.at = "mark" /\ o.call = "drain"
        BY <2>0, <3>11, StageTells DEF MarkDelivered
      <4>2. writer # ConnOf[k] /\ View(k) = db
        BY <2>0, <4>1, HoldingTells DEF InTransaction
      <4>3. db' = db /\ work' = SetDelivered(db, o.picked)
            /\ op'[k].at = "commit" /\ op'[k].picked = o.picked
        BY <1>0, <3>1, <3>11, <4>2 DEF MarkDelivered, Write, Goto, Op
      <4>4. QED
        BY <3>2, <4>1, <4>3 DEF Underway
    <3>12. CASE SelectReply(k)
      <4> DEFINE S == RepliesTo(db, a, o.corr)
      <4>1. o.at = "select" /\ o.call = "claim" /\ work = db /\ View(k) = db
            /\ UNCHANGED <<db, work>>
        BY <2>0, <3>12, StageTells
           DEF SelectReply, Underway, InTransaction, View
      <4>2. op'[k].at = (IF S = {} THEN "commit" ELSE "claim")
            /\ op'[k].picked = (IF S = {} THEN {} ELSE {Oldest(db, S)})
        BY <1>0, <3>1, <3>12, <4>1 DEF SelectReply, Op
      <4>3. SetDelivered(db, {}) = db
        BY <1>0, NothingSet
      <4>4. QED
        BY <3>2, <4>1, <4>2, <4>3 DEF Underway
    <3>13. CASE ClaimReply(k)
      <4>1. o.at = "claim" /\ o.call = "claim" /\ work = db /\ View(k) = db
        BY <2>0, <3>13, StageTells DEF ClaimReply, Underway, InTransaction, View
      <4>2. db' = db /\ work' = SetDelivered(db, o.picked)
            /\ op'[k].at = "commit" /\ op'[k].picked = o.picked
        BY <1>0, <3>1, <3>13, <4>1 DEF ClaimReply, Write, Goto, Op
      <4>3. QED
        BY <2>0, <3>2, <4>1, <4>2 DEF Underway
    <3>14. QED
      BY <1>3, <3>3, <3>4, <3>5, <3>6, <3>7, <3>8, <3>9, <3>10, <3>11, <3>12, <3>13
         DEF Step
  <2>3. QED
    BY <2>1, <2>2
<1>4. ASSUME NEW k \in Coroutines,
             \/ \E m \in Messages, to \in Agents, asks, re \in MaybeCorrelation :
                  StartSend(k, m, to, asks, re)
             \/ SelectGroup(k)
             \/ \E c \in Correlations : StartClaim(k, c)
             \/ Cancel(k)
      PROVE  Progress'
  <2>1. UNCHANGED <<db, work>> /\ op'[k].at \in {"begin", "persist", "idle"}
    BY <1>0, <1>4
       DEF StartSend, SelectGroup, StartClaim, Cancel, Return, NoOp
  <2>2. \A j \in Coroutines \ {k} : op'[j] = op[j]
    BY <1>4, OneMoves
  <2>3. Underway(op'[k], AddressOf[k], db', work')
    BY <2>1 DEF Underway
  <2>4. QED
    BY <2>1, <2>2, <2>3 DEF Progress
<1>5. ASSUME NEW c \in Conns, Crash(c) PROVE Progress'
  <2>1. UNCHANGED <<db, work>>
        /\ \A k \in Coroutines : op'[k] = NoOp \/ op'[k] = op[k]
    BY <1>5 DEF Crash
  <2>2. NoOp \in Op \cup {NoOp} /\ NoOp.at \notin InTransaction
    BY DEF NoOp, InTransaction
  <2>3. QED
    BY <1>1, <2>1, <2>2 DEF Progress
<1>6. CASE UNCHANGED vars
  BY <1>6 DEF Progress, vars
<1>7. QED
  BY <1>2, <1>3, <1>4, <1>5, <1>6, HoldingTells DEF Next, Progress

\* The rows being sent are not in the committed table, nor are their stamps and
\* correlation ids, which no other send can know.
Separate ==
  \A k \in Coroutines : op[k].call = "send" =>
    /\ db[op[k].msg].status = "ABSENT"
    /\ \A m \in Present(db) : db[m].at # op[k].row.at
    /\ op[k].row.asks # NoCorrelation =>
         /\ op[k].row.asks # op[k].row.inReplyTo
         /\ \A m \in Present(db) : op[k].row.asks \notin {db[m].asks, db[m].inReplyTo}
    /\ \A j \in Coroutines \ {k} : op[j].call = "send" =>
         /\ op[j].row.at # op[k].row.at
         /\ op[k].row.asks # NoCorrelation =>
              op[k].row.asks \notin {op[j].row.asks, op[j].row.inReplyTo}

\* Only an agent's loop drains.
Draining == \A k \in Coroutines : op[k].call = "drain" => k \in Readers

\* What a commit makes of the committed table.
LEMMA CommitEffect ==
  ASSUME Isolated, TypeOK, Rows, Holding, Progress, NEW k \in Coroutines, Commit(k)
  PROVE  /\ db' = work /\ Continues(db, db')
         /\ op[k].call = "send" =>
              db' = FlipAnswered(InsertRow(EnforceCap(db, op[k].row.to),
                                           op[k].msg, op[k].row),
                                 op[k].row.inReplyTo)
         /\ op[k].call # "send" => db' = SetDelivered(db, op[k].picked)
         /\ \A n \in Present(db') :
              \/ /\ n \in Present(db) /\ db'[n].at = db[n].at
                 /\ db'[n].asks = db[n].asks /\ db'[n].inReplyTo = db[n].inReplyTo
              \/ /\ op[k].call = "send" /\ n = op[k].msg /\ db'[n].at = op[k].row.at
                 /\ db'[n].asks = op[k].row.asks
                 /\ db'[n].inReplyTo = op[k].row.inReplyTo
<1>0. /\ op[k] \in Op \cup {NoOp} /\ db \in Table /\ work \in Table
      /\ op[k].at = "commit" /\ ConnOf[k] # NoConn
  BY AgentMessageStoreAssumption DEF TypeOK, Commit
<1>1. writer = ConnOf[k] /\ db' = work /\ Newest = work
  BY <1>0 DEF Holding, InTransaction, Commit, Newest
<1>2. Continues(db, db')
  BY <1>1 DEF Rows
<1>3. Underway(op[k], AddressOf[k], db, work)
  BY DEF Progress
<1>4. op[k].call \in {"send", "drain", "claim"} /\ op[k].picked \in SUBSET Messages
  BY <1>0, StageTells
<1>5. CASE op[k].call = "send"
  <2> DEFINE c == EnforceCap(db, op[k].row.to)
             i == InsertRow(c, op[k].msg, op[k].row)
  <2>1. work = FlipAnswered(i, op[k].row.inReplyTo)
    BY <1>0, <1>3, <1>5 DEF Underway
  <2>2. /\ op[k].msg \in Messages /\ op[k].row \in Row /\ op[k].row.to \in Agents
    BY <1>0, <1>5, StageTells DEF Row
  <2>3. c \in Table /\ \A n \in Messages :
          /\ c[n].status = "ABSENT" <=> db[n].status = "ABSENT"
          /\ c[n].at = db[n].at /\ c[n].asks = db[n].asks
          /\ c[n].inReplyTo = db[n].inReplyTo
    BY <1>0, <2>2, EnforceCapEffect
  <2> HIDE DEF c
  <2>4. i \in Table /\ i[op[k].msg] = op[k].row
        /\ \A n \in Messages \ {op[k].msg} : i[n] = c[n]
    BY <2>2, <2>3, InsertRowEffect
  <2> HIDE DEF i
  <2>5. ASSUME NEW n \in Messages
        PROVE  /\ work[n].status = "ABSENT" <=> i[n].status = "ABSENT"
               /\ work[n].at = i[n].at /\ work[n].asks = i[n].asks
               /\ work[n].inReplyTo = i[n].inReplyTo
    BY <2>1, <2>4, FlipEffect
  <2>6. ASSUME NEW n \in Present(db')
        PROVE  \/ /\ n \in Present(db) /\ db'[n].at = db[n].at
                  /\ db'[n].asks = db[n].asks /\ db'[n].inReplyTo = db[n].inReplyTo
               \/ /\ op[k].call = "send" /\ n = op[k].msg /\ db'[n].at = op[k].row.at
                  /\ db'[n].asks = op[k].row.asks
                  /\ db'[n].inReplyTo = op[k].row.inReplyTo
    <3>1. n \in Messages /\ work[n].status # "ABSENT"
      BY <1>1 DEF Present
    <3>2. QED
      BY <1>1, <1>5, <2>3, <2>4, <2>5, <3>1 DEF Present
  <2>7. db' = FlipAnswered(InsertRow(EnforceCap(db, op[k].row.to),
                                   op[k].msg, op[k].row),
                         op[k].row.inReplyTo)
    BY <1>1, <2>1 DEF c, i
  <2>8. db' = work
    BY <1>0, <1>1 DEF Commit
  <2>9. QED
    BY <1>2, <1>5, <2>6, <2>7, <2>8, Zenon
<1>6. CASE op[k].call \in {"drain", "claim"}
  <2>1. work = SetDelivered(db, op[k].picked)
    BY <1>0, <1>3, <1>6 DEF Underway
  <2>2. QED
    BY <1>0, <1>1, <1>2, <1>4, <1>6, <2>1, SetDeliveredEffect DEF Present
<1>7. QED
  BY <1>4, <1>5, <1>6

\* Nothing but a commit changes the committed table.
LEMMA OnlyCommits ==
  ASSUME [Next]_vars
  PROVE  db' = db \/ \E k \in Coroutines : Commit(k)
<1>1. \A k \in Coroutines : Step(k) => db' = db \/ Commit(k)
  BY DEF Step, Begin, BeginRefused, CountPending, SelectOldest, Expire, Insert, Flip,
         PersistGroup, MarkDelivered, SelectReply, ClaimReply, Write
<1>2. QED
  BY <1>1 DEF Next, vars, StartSend, SelectGroup, StartClaim, SelectNothing, Cancel,
              Busy, Crash

LEMMA StepSeparate ==
  Isolated /\ TypeOK /\ TypeOK' /\ Rows /\ Stamped /\ Holding /\ Progress /\ Separate
    /\ [Next]_vars => Separate'
<1> SUFFICES ASSUME Isolated, TypeOK, TypeOK', Rows, Stamped, Holding, Progress,
                    Separate, [Next]_vars,
                    NEW k \in Coroutines, op'[k].call = "send"
             PROVE  /\ db'[op'[k].msg].status = "ABSENT"
                    /\ \A m \in Present(db') : db'[m].at # op'[k].row.at
                    /\ op'[k].row.asks # NoCorrelation =>
                         /\ op'[k].row.asks # op'[k].row.inReplyTo
                         /\ \A m \in Present(db') :
                              op'[k].row.asks \notin {db'[m].asks, db'[m].inReplyTo}
                    /\ \A j \in Coroutines \ {k} : op'[j].call = "send" =>
                         /\ op'[j].row.at # op'[k].row.at
                         /\ op'[k].row.asks # NoCorrelation =>
                              op'[k].row.asks \notin {op'[j].row.asks, op'[j].row.inReplyTo}
  BY DEF Separate
<1>0. /\ op \in [Coroutines -> Op \cup {NoOp}] /\ op' \in [Coroutines -> Op \cup {NoOp}]
      /\ db \in Table /\ clock \in Nat /\ op'[k] # NoOp
  BY DEF TypeOK, NoOp
\* A send that starts, with a stamp and a correlation id of its own.
<1>1. ASSUME NEW i \in Coroutines, op[i] = NoOp, op'[i].call = "send"
      PROVE  /\ UNCHANGED <<db, work, writer>>
             /\ op'[i].msg \in Messages
             /\ op'[i].msg \notin Present(db) /\ op'[i].row.at = clock
             /\ op'[i].row.asks # NoCorrelation =>
                  /\ op'[i].row.asks # op'[i].row.inReplyTo
                  /\ \A m \in Present(db) :
                       op'[i].row.asks \notin {db[m].asks, db[m].inReplyTo}
                  /\ \A j \in Coroutines : op[j].call = "send" =>
                       op'[i].row.asks \notin {op[j].row.asks, op[j].row.inReplyTo}
             /\ op'[i].row.inReplyTo = NoCorrelation \/ ~Undisclosed(op'[i].row.inReplyTo)
             /\ \A j \in Coroutines \ {i} : op'[j] = op[j]
  <2>1. op'[i] # NoOp
    BY <1>1 DEF NoOp
  <2>2. \E m \in Messages, to \in Agents, asks, re \in MaybeCorrelation :
          StartSend(i, m, to, asks, re)
    BY <1>0, <1>1, <2>1, CallStart DEF SelectGroup, StartClaim
  <2>3. \A j \in Coroutines \ {i} : op'[j] = op[j]
    BY <2>2, OneMoves
  <2>4. PICK m \in Messages, to \in Agents, asks \in MaybeCorrelation,
             re \in MaybeCorrelation : StartSend(i, m, to, asks, re)
    BY <2>2
  <2>5. op'[i] = [call |-> "send", at |-> "begin", msg |-> m, picked |-> {},
                  row |-> NewRow(AddressOf[i], to, clock, asks, re)]
    BY <1>0, <2>4 DEF StartSend
  <2>6. op'[i].msg = m /\ op'[i].row.at = clock /\ op'[i].row.asks = asks
        /\ op'[i].row.inReplyTo = re
    BY <2>5 DEF NewRow
  <2>7. QED
    BY <2>3, <2>4, <2>6 DEF StartSend, FreshCorrelation
\* One that goes on.
<1>2. ASSUME NEW i \in Coroutines, op[i] # NoOp, op'[i].call = "send"
      PROVE  op[i].call = "send" /\ op'[i].msg = op[i].msg /\ op'[i].row = op[i].row
             /\ op[i].msg \in Messages /\ op[i].row.at \in Nat /\ op[i].row.at < clock
  <2>1. op'[i] # NoOp
    BY <1>2 DEF NoOp
  <2>2. op[i].call = "send" /\ op'[i].msg = op[i].msg /\ op'[i].row = op[i].row
    BY <1>2, <2>1, CallStep
  <2>3. op[i].msg \in Messages /\ op[i].row \in Row
    BY <1>0, <2>2, StageTells
  <2>4. QED
    BY <2>2, <2>3, MessageTableAssumption DEF Row, Stamped
<1>3. ASSUME NEW j \in Coroutines \ {k}, op'[j].call = "send"
      PROVE  /\ op'[j].row.at # op'[k].row.at
             /\ op'[k].row.asks # NoCorrelation =>
                  op'[k].row.asks \notin {op'[j].row.asks, op'[j].row.inReplyTo}
  <2>1. CASE op[k] # NoOp /\ op[j] # NoOp
    BY <1>2, <1>3, <2>1 DEF Separate
  <2>2. CASE op[k] = NoOp
    <3>1. op'[j] = op[j] /\ op[j] # NoOp
      BY <1>1, <1>3, <2>2 DEF NoOp
    <3>2. op[j].row.at < clock /\ op[j].row.at \in Nat /\ op'[k].row.at = clock
      BY <1>1, <1>2, <1>3, <2>2, <3>1
    <3>3. op'[j].row.at # op'[k].row.at
      BY <1>0, <3>1, <3>2
    <3>4. QED
      BY <1>1, <1>3, <2>2, <3>1, <3>3
  <2>3. CASE op[k] # NoOp /\ op[j] = NoOp
    <3>1. op[k].call = "send" /\ op'[k].row = op[k].row
      BY <1>2, <2>3
    <3>2. op[k].row.at < clock /\ op[k].row.at \in Nat /\ op'[j].row.at = clock
      BY <1>1, <1>2, <1>3, <2>3
    <3>3. op'[j].row.at # op'[k].row.at
      BY <1>0, <3>1, <3>2
    <3>4. op'[k].row.asks # NoCorrelation =>
            op'[k].row.asks \notin {op'[j].row.asks, op'[j].row.inReplyTo}
      <4> SUFFICES ASSUME op[k].row.asks # NoCorrelation
                   PROVE  op[k].row.asks \notin {op'[j].row.asks, op'[j].row.inReplyTo}
        BY <3>1
      <4>1. \A q \in Present(db) : db[q].asks # op[k].row.asks
        BY <3>1 DEF Separate
      <4>2. Undisclosed(op[k].row.asks)
        BY <3>1, <4>1 DEF Undisclosed
      <4>3. op'[j].row.asks # op[k].row.asks
        BY <1>1, <1>3, <2>3, <3>1
      <4>4. op'[j].row.inReplyTo # op[k].row.asks
        BY <1>1, <1>3, <2>3, <4>2
      <4>5. QED
        BY <4>3, <4>4
    <3>5. QED
      BY <3>3, <3>4
  <2>4. QED
    BY <2>1, <2>2, <2>3
<1>4. CASE op[k] = NoOp
  <2>1. \A m \in Present(db) : db[m].at # clock
    <3>1. ASSUME NEW m \in Present(db) PROVE db[m].at < clock /\ db[m].at \in Nat
      BY <1>0, StampsCompare DEF Stamped, Rows, Continues, Present
    <3>2. QED
      BY <1>0, <3>1
  <2>2. db'[op'[k].msg].status = "ABSENT" /\ db' = db
    BY <1>1, <1>4 DEF Present
  <2>3. QED
    BY <1>1, <1>3, <1>4, <2>1, <2>2
<1>5. CASE op[k] # NoOp /\ db' = db
  BY <1>2, <1>3, <1>5 DEF Separate
<1>6. ASSUME op[k] # NoOp, NEW j \in Coroutines, Commit(j)
      PROVE  /\ db'[op'[k].msg].status = "ABSENT"
             /\ \A m \in Present(db') : db'[m].at # op'[k].row.at
             /\ op'[k].row.asks # NoCorrelation =>
                  /\ op'[k].row.asks # op'[k].row.inReplyTo
                  /\ \A m \in Present(db') :
                       op'[k].row.asks \notin {db'[m].asks, db'[m].inReplyTo}
  <2> DEFINE o == op[k]
  <2>1. j # k
    BY <1>0, <1>6 DEF Commit, Return
  <2>2. /\ o.call = "send" /\ op'[k].msg = o.msg /\ op'[k].row = o.row /\ o.msg \in Messages
    BY <1>2, <1>6
  <2>3. ASSUME NEW n \in Present(db')
        PROVE  \/ /\ n \in Present(db) /\ db'[n].at = db[n].at
                  /\ db'[n].asks = db[n].asks /\ db'[n].inReplyTo = db[n].inReplyTo
               \/ /\ op[j].call = "send" /\ n = op[j].msg /\ db'[n].at = op[j].row.at
                  /\ db'[n].asks = op[j].row.asks
                  /\ db'[n].inReplyTo = op[j].row.inReplyTo
    BY <1>6, CommitEffect
  <2>4. op[j].call = "send" =>
          /\ op[j].msg # o.msg /\ op[j].row.at # o.row.at
          /\ o.row.asks # NoCorrelation =>
               op[j].row.asks # o.row.asks /\ op[j].row.inReplyTo # o.row.asks
    BY <2>1, <2>2 DEF Rows, Separate
  <2>5. db'[o.msg].status = "ABSENT"
    BY <2>2, <2>3, <2>4 DEF Separate, Present
  <2>6. \A m \in Present(db') : db'[m].at # o.row.at
    BY <2>2, <2>3, <2>4 DEF Separate
  <2>7. o.row.asks # NoCorrelation =>
          /\ o.row.asks # o.row.inReplyTo
          /\ \A m \in Present(db') : o.row.asks \notin {db'[m].asks, db'[m].inReplyTo}
    BY <2>2, <2>3, <2>4 DEF Separate
  <2>8. QED
    BY <2>2, <2>5, <2>6, <2>7
<1>7. QED
  BY <1>3, <1>4, <1>5, <1>6, OnlyCommits

LEMMA StepDraining == TypeOK /\ TypeOK' /\ Draining /\ [Next]_vars => Draining'
<1> SUFFICES ASSUME TypeOK, TypeOK', Draining, [Next]_vars,
                    NEW k \in Coroutines, op'[k].call = "drain"
             PROVE  k \in Readers
  BY DEF Draining
<1>0. op \in [Coroutines -> Op \cup {NoOp}] /\ op'[k] # NoOp
  BY DEF TypeOK, NoOp
<1>1. CASE op[k] = NoOp
  BY <1>0, <1>1, CallStart DEF StartSend, StartClaim, SelectGroup
<1>2. CASE op[k] # NoOp
  BY <1>0, <1>2, CallStep DEF Draining
<1>3. QED
  BY <1>1, <1>2

-----------------------------------------------------------------------------
(* The store implements the mailbox                                        *)

\* The readers' progress as AgentMailbox sees it.
DrainMap ==
  [a \in Agents |->
     IF ReaderOf(a) = {} THEN "idle"
     ELSE IF \E k \in ReaderOf(a) : op[k].at = "persist"
       THEN "selected" ELSE "persisted"]
HandMap == [a \in Agents |-> UNION {op[k].picked : k \in ReaderOf(a)}]

\* The same of one call.
DrainOf(o) ==
  IF o.call # "drain" THEN "idle"
  ELSE IF o.at = "persist" THEN "selected" ELSE "persisted"
HandOf(o) == IF o.call # "drain" THEN {} ELSE o.picked

Mapped ==
  /\ \A k \in Coroutines :
       /\ AddressOf[k] \in Agents
       /\ DrainMap[AddressOf[k]] = DrainOf(op[k])
       /\ HandMap[AddressOf[k]] = HandOf(op[k])
  /\ \A a \in Agents :
       (\A k \in Coroutines : AddressOf[k] # a) =>
         DrainMap[a] = "idle" /\ HandMap[a] = {}

\* An agent's reader is where its one coroutine is.
LEMMA MapIsCall == OneSenderEach /\ Draining => Mapped
<1> SUFFICES ASSUME OneSenderEach, Draining PROVE Mapped
  OBVIOUS
<1>0. Readers \subseteq Coroutines /\ AddressOf \in [Coroutines -> Agents]
  BY AgentMessageStoreAssumption
<1>1. ASSUME NEW k \in Coroutines
      PROVE  /\ AddressOf[k] \in Agents
             /\ DrainMap[AddressOf[k]] = DrainOf(op[k])
             /\ HandMap[AddressOf[k]] = HandOf(op[k])
  <2>1. AddressOf[k] \in Agents
    BY <1>0
  <2>2. ReaderOf(AddressOf[k]) = IF op[k].call = "drain" THEN {k} ELSE {}
    BY <1>0 DEF ReaderOf, OneSenderEach, Draining
  <2>3. CASE op[k].call = "drain"
    <3>1. ReaderOf(AddressOf[k]) = {k}
      BY <2>2, <2>3
    <3>2. UNION {op[j].picked : j \in {k}} = op[k].picked
      OBVIOUS
    <3>3. QED
      BY <2>1, <2>3, <3>1, <3>2 DEF DrainMap, HandMap, DrainOf, HandOf
  <2>4. CASE op[k].call # "drain"
    <3>1. ReaderOf(AddressOf[k]) = {}
      BY <2>2, <2>4
    <3>2. UNION {op[j].picked : j \in {}} = {}
      OBVIOUS
    <3>3. QED
      BY <2>1, <2>4, <3>1, <3>2 DEF DrainMap, HandMap, DrainOf, HandOf
  <2>5. QED
    BY <2>3, <2>4
<1>2. ASSUME NEW a \in Agents, \A k \in Coroutines : AddressOf[k] # a
      PROVE  DrainMap[a] = "idle" /\ HandMap[a] = {}
  <2>1. ReaderOf(a) = {}
    BY <1>0, <1>2 DEF ReaderOf
  <2>2. UNION {op[j].picked : j \in {}} = {}
    OBVIOUS
  <2>3. QED
    BY <2>1, <2>2 DEF DrainMap, HandMap
<1>3. QED
  BY <1>1, <1>2 DEF Mapped

\* One call's step moves the reader of its agent.
LEMMA MapMoves ==
  ASSUME OneSenderEach, Draining, Draining', NEW k \in Coroutines,
         \A j \in Coroutines \ {k} : op'[j] = op[j]
  PROVE  /\ DrainMap' = [DrainMap EXCEPT ![AddressOf[k]] = DrainOf(op'[k])]
         /\ HandMap' = [HandMap EXCEPT ![AddressOf[k]] = HandOf(op'[k])]
<1>0. Mapped /\ Mapped'
  <2>1. OneSenderEach'
    BY DEF OneSenderEach
  <2>2. QED
    BY <2>1, MapIsCall, PTL
<1>1. DrainMap \in [Agents -> {"idle", "selected", "persisted"}]
      /\ DrainMap' \in [Agents -> {"idle", "selected", "persisted"}]
  BY DEF DrainMap
<1>2. HandMap = [a \in Agents |-> HandMap[a]] /\ HandMap' = [a \in Agents |-> HandMap'[a]]
  BY DEF HandMap
<1>3. ASSUME NEW a \in Agents
      PROVE  /\ DrainMap'[a] = [DrainMap EXCEPT ![AddressOf[k]] = DrainOf(op'[k])][a]
             /\ HandMap'[a] = [HandMap EXCEPT ![AddressOf[k]] = HandOf(op'[k])][a]
  <2>1. CASE a = AddressOf[k]
    BY <1>0, <1>1, <1>2, <2>1 DEF Mapped
  <2>2. ASSUME NEW j \in Coroutines, a = AddressOf[j], a # AddressOf[k]
        PROVE  DrainMap'[a] = DrainMap[a] /\ HandMap'[a] = HandMap[a]
    BY <1>0, <2>2 DEF Mapped
  <2>3. ASSUME \A j \in Coroutines : AddressOf[j] # a
        PROVE  DrainMap'[a] = DrainMap[a] /\ HandMap'[a] = HandMap[a]
    BY <1>0, <2>3 DEF Mapped
  <2>4. QED
    BY <1>1, <1>2, <2>1, <2>2, <2>3
<1>4. QED
  BY <1>1, <1>2, <1>3

\* The reader stays where it is when its call does not drain, before or after.
LEMMA MapStays ==
  ASSUME OneSenderEach, Draining, Draining', NEW k \in Coroutines,
         \A j \in Coroutines \ {k} : op'[j] = op[j],
         DrainOf(op'[k]) = DrainOf(op[k]), HandOf(op'[k]) = HandOf(op[k])
  PROVE  DrainMap' = DrainMap /\ HandMap' = HandMap
<1>1. /\ DrainMap' = [DrainMap EXCEPT ![AddressOf[k]] = DrainOf(op[k])]
      /\ HandMap' = [HandMap EXCEPT ![AddressOf[k]] = HandOf(op[k])]
  BY MapMoves
<1>2. /\ DrainMap[AddressOf[k]] = DrainOf(op[k]) /\ AddressOf[k] \in Agents
      /\ HandMap[AddressOf[k]] = HandOf(op[k])
  BY MapIsCall DEF Mapped
<1>3. DrainMap = [a \in Agents |-> DrainMap[a]] /\ HandMap = [a \in Agents |-> HandMap[a]]
  BY DEF DrainMap, HandMap
<1>4. QED
  BY <1>1, <1>2, <1>3

\* The mailbox's table is the store's.
LEMMA SameCount == \A S : Mailbox!Cardinality(S) = Cardinality(S)
BY DEF Mailbox!Cardinality, Cardinality, Mailbox!IsFiniteSet, IsFiniteSet

LEMMA SameQueries ==
  /\ \A t, a : Mailbox!PendingIn(t, a) = PendingIn(t, a)
  /\ \A t : Mailbox!Present(t) = Present(t)
  /\ \A t, S : Mailbox!Oldest(t, S) = Oldest(t, S)
  /\ \A t, a : Mailbox!OldestGroup(t, a) = OldestGroup(t, a)
  /\ \A t, a, c : Mailbox!RepliesTo(t, a, c) = RepliesTo(t, a, c)
<1>1. \A t, a : Mailbox!PendingIn(t, a) = PendingIn(t, a)
  BY DEF Mailbox!PendingIn, PendingIn
<1>2. \A t : Mailbox!Present(t) = Present(t)
  BY DEF Mailbox!Present, Present
<1>3. \A t, S : Mailbox!Oldest(t, S) = Oldest(t, S)
  BY DEF Mailbox!Oldest, Oldest
<1>4. \A t, a : Mailbox!Inbox(t, a) = Inbox(t, a)
  BY <1>1, SameCount DEF Mailbox!Inbox, Inbox
<1>5. \A t, a : Mailbox!OldestGroup(t, a) = OldestGroup(t, a)
  BY <1>3, <1>4 DEF Mailbox!OldestGroup, OldestGroup
<1>6. \A t, a, c : Mailbox!RepliesTo(t, a, c) = RepliesTo(t, a, c)
  BY <1>1 DEF Mailbox!RepliesTo, RepliesTo
<1>7. QED
  BY <1>1, <1>2, <1>3, <1>5, <1>6

LEMMA SameUpdates ==
  /\ \A t, a : Mailbox!EnforceCap(t, a) = EnforceCap(t, a)
  /\ \A t, m, r : Mailbox!InsertRow(t, m, r) = InsertRow(t, m, r)
  /\ \A t, c : Mailbox!FlipAnswered(t, c) = FlipAnswered(t, c)
  /\ \A t, S : Mailbox!SetDelivered(t, S) = SetDelivered(t, S)
  /\ \A f, t, s, a, r : Mailbox!NewRow(f, t, s, a, r) = NewRow(f, t, s, a, r)
  /\ Mailbox!EmptyTable = EmptyTable
<1>1. \A t, S, v : Mailbox!SetStatus(t, S, v) = SetStatus(t, S, v)
  BY DEF Mailbox!SetStatus, SetStatus
<1>2. \A t, a : Mailbox!EnforceCap(t, a) = EnforceCap(t, a)
  <2> TAKE t, a
  <2> DEFINE S == PendingIn(t, a)
             o == Oldest(t, S)
  <2>1. Mailbox!PendingIn(t, a) = S /\ Mailbox!Oldest(t, S) = o
    BY SameQueries
  <2>2. Mailbox!SetStatus(t, {o}, "EXPIRED") = SetStatus(t, {o}, "EXPIRED")
    BY <1>1
  <2>3. QED
    BY <2>1, <2>2, SameCount DEF Mailbox!EnforceCap, EnforceCap
<1>3. \A t, m, r : Mailbox!InsertRow(t, m, r) = InsertRow(t, m, r)
  BY DEF Mailbox!InsertRow, InsertRow
<1>4. \A t, c : Mailbox!OpenQuestions(t, c) = OpenQuestions(t, c)
  BY DEF Mailbox!OpenQuestions, OpenQuestions
<1>5. \A t, c : Mailbox!FlipAnswered(t, c) = FlipAnswered(t, c)
  BY <1>1, <1>4 DEF Mailbox!FlipAnswered, FlipAnswered
<1>6. \A t, S : Mailbox!SetDelivered(t, S) = SetDelivered(t, S)
  BY <1>1 DEF Mailbox!SetDelivered, SetDelivered
<1>7. \A f, t, s, a, r : Mailbox!NewRow(f, t, s, a, r) = NewRow(f, t, s, a, r)
  BY DEF Mailbox!NewRow, NewRow
<1>8. Mailbox!EmptyTable = EmptyTable
  BY DEF Mailbox!EmptyTable, EmptyTable, Mailbox!AbsentRow, AbsentRow
<1>9. QED
  BY <1>2, <1>3, <1>5, <1>6, <1>7, <1>8

\* Nothing of the mailbox moves.
LEMMA Stutter ==
  ASSUME db' = db, handed' = handed, DrainMap' = DrainMap, HandMap' = HandMap
  PROVE  [Mailbox!Next]_(Mailbox!vars)
BY DEF Mailbox!vars, DrainMap, HandMap

\* Each action of the mailbox, said of the store's variables.
LEMMA AsSend ==
  ASSUME NEW m \in Messages, NEW from \in Agents, NEW to \in Agents,
         NEW asks \in MaybeCorrelation, NEW re \in MaybeCorrelation, NEW at \in Stamps,
         db[m].status = "ABSENT",
         \A n \in Present(db) : db[n].at # at,
         asks # NoCorrelation =>
           asks # re /\ \A n \in Present(db) : asks \notin {db[n].asks, db[n].inReplyTo},
         db' = FlipAnswered(InsertRow(EnforceCap(db, to), m,
                                      NewRow(from, to, at, asks, re)), re),
         DrainMap' = DrainMap, HandMap' = HandMap, handed' = handed
  PROVE  Mailbox!Next
<1>1. Mailbox!UnusedStamp(at)
  BY SameQueries DEF Mailbox!UnusedStamp
<1>2. asks # NoCorrelation => asks # re /\ Mailbox!FreshCorrelation(asks)
  BY SameQueries DEF Mailbox!FreshCorrelation
<1>3. db' = Mailbox!FlipAnswered(Mailbox!InsertRow(Mailbox!EnforceCap(db, to), m,
                                   Mailbox!NewRow(from, to, at, asks, re)), re)
  BY SameUpdates
<1>4. Mailbox!Send(m, from, to, asks, re, at)
  BY <1>1, <1>2, <1>3 DEF Mailbox!Send, DrainMap, HandMap
<1>5. QED
  BY <1>4 DEF Mailbox!Next, Mailbox!MaybeCorrelation, MaybeCorrelation

LEMMA AsClaimReply ==
  ASSUME NEW a \in Agents, NEW c \in Correlations,
         DrainMap[a] = "idle", RepliesTo(db, a, c) # {},
         db' = SetDelivered(db, {Oldest(db, RepliesTo(db, a, c))}),
         handed' = handed \cup {Oldest(db, RepliesTo(db, a, c))},
         DrainMap' = DrainMap, HandMap' = HandMap
  PROVE  Mailbox!Next
<1>1. c # NoCorrelation
  BY MessageTableAssumption
<1>2. Mailbox!ClaimReply(a, c)
  BY <1>1, SameQueries, SameUpdates DEF Mailbox!ClaimReply, DrainMap, HandMap
<1>3. QED
  BY <1>2 DEF Mailbox!Next

LEMMA AsSelectGroup ==
  ASSUME NEW a \in Agents, DrainMap[a] = "idle", PendingIn(db, a) # {},
         DrainMap' = [DrainMap EXCEPT ![a] = "selected"],
         HandMap' = [HandMap EXCEPT ![a] = OldestGroup(db, a)],
         db' = db, handed' = handed
  PROVE  Mailbox!Next
<1>1. Mailbox!SelectGroup(a)
  BY SameQueries DEF Mailbox!SelectGroup, DrainMap, HandMap
<1>2. QED
  BY <1>1 DEF Mailbox!Next

LEMMA AsPersistGroup ==
  ASSUME NEW a \in Agents, DrainMap[a] = "selected",
         DrainMap' = [DrainMap EXCEPT ![a] = "persisted"], HandMap' = HandMap,
         db' = db, handed' = handed \cup HandMap[a]
  PROVE  Mailbox!Next
<1>1. Mailbox!PersistGroup(a)
  BY DEF Mailbox!PersistGroup, DrainMap, HandMap
<1>2. QED
  BY <1>1 DEF Mailbox!Next

LEMMA AsMarkDelivered ==
  ASSUME NEW a \in Agents, DrainMap[a] = "persisted",
         DrainMap' = [DrainMap EXCEPT ![a] = "idle"],
         HandMap' = [HandMap EXCEPT ![a] = {}],
         db' = SetDelivered(db, HandMap[a]), handed' = handed
  PROVE  Mailbox!Next
<1>1. Mailbox!MarkDelivered(a)
  BY SameUpdates DEF Mailbox!MarkDelivered, DrainMap, HandMap
<1>2. QED
  BY <1>1 DEF Mailbox!Next

LEMMA AsAbandonDrain ==
  ASSUME NEW a \in Agents, DrainMap[a] # "idle",
         DrainMap' = [DrainMap EXCEPT ![a] = "idle"],
         HandMap' = [HandMap EXCEPT ![a] = {}],
         db' = db, handed' = handed
  PROVE  Mailbox!Next
<1>1. Mailbox!AbandonDrain(a)
  BY DEF Mailbox!AbandonDrain, DrainMap, HandMap
<1>2. QED
  BY <1>1 DEF Mailbox!Next

\* What the refinement rests on.
Refining == TypeOK /\ Rows /\ Stamped /\ Holding /\ Progress /\ Separate /\ Draining

LEMMA InitRefining == Init => Refining
<1> SUFFICES ASSUME Init PROVE Refining
  OBVIOUS
<1>1. TypeOK /\ Rows /\ Stamped
  BY InitTypeOK, InitRows, InitOrder
<1>2. \A k \in Coroutines : op[k] = NoOp
  BY DEF Init
<1>3. Holding
  BY <1>2, AgentMessageStoreAssumption
     DEF Holding, Init, NoOp, InTransaction, NotDeferred
<1>4. Progress /\ Separate /\ Draining
  BY <1>2 DEF Progress, Separate, Draining, Underway, NoOp
<1>5. QED
  BY <1>1, <1>3, <1>4 DEF Refining

LEMMA StepRefining ==
  ASSUME Isolated, Refining, [Next]_vars
  PROVE  Refining'
<1>1. TypeOK /\ Rows /\ Stamped /\ Holding /\ Progress /\ Separate /\ Draining
  BY DEF Refining
<1>2. TypeOK'
  BY <1>1, StepTypeOK
<1>3. Rows'
  BY <1>1, <1>2, StepRows
<1>4. Stamped'
  BY <1>1, <1>2, <1>3, StepStamped DEF Isolated
<1>5. Holding' /\ Progress'
  BY <1>1, StepHolding, StepProgress
<1>6. Separate'
  BY <1>1, <1>2, <1>3, StepSeparate
<1>7. Draining'
  BY <1>1, <1>2, StepDraining
<1>8. QED
  BY <1>2, <1>3, <1>4, <1>5, <1>6, <1>7 DEF Refining

\* A call that ends without a commit leaves the mailbox as it is, or has its
\* agent abandon the drain.
LEMMA EndsEarly ==
  ASSUME Isolated, Refining, Draining', NEW k \in Coroutines,
         op' = [op EXCEPT ![k] = NoOp], db' = db, handed' = handed
  PROVE  [Mailbox!Next]_(Mailbox!vars)
<1>0. /\ OneSenderEach /\ Draining /\ AddressOf[k] \in Agents
      /\ op'[k] = NoOp /\ \A j \in Coroutines \ {k} : op'[j] = op[j]
  BY AgentMessageStoreAssumption DEF Isolated, Refining, TypeOK
<1>1. DrainOf(op'[k]) = "idle" /\ HandOf(op'[k]) = {}
  BY <1>0 DEF DrainOf, HandOf, NoOp
<1>2. CASE op[k].call = "drain"
  <2>1. DrainMap[AddressOf[k]] # "idle"
    BY <1>0, <1>2, MapIsCall DEF Mapped, DrainOf
  <2>2. /\ DrainMap' = [DrainMap EXCEPT ![AddressOf[k]] = "idle"]
        /\ HandMap' = [HandMap EXCEPT ![AddressOf[k]] = {}]
    BY <1>0, <1>1, MapMoves
  <2>3. QED
    BY <1>0, <2>1, <2>2, AsAbandonDrain
<1>3. CASE op[k].call # "drain"
  <2>1. DrainOf(op[k]) = "idle" /\ HandOf(op[k]) = {}
    BY <1>3 DEF DrainOf, HandOf
  <2>2. DrainMap' = DrainMap /\ HandMap' = HandMap
    BY <1>0, <1>1, <2>1, MapStays
  <2>3. QED
    BY <2>2, Stutter
<1>4. QED
  BY <1>2, <1>3

\* A commit is the transaction of its call.
LEMMA CommitIsOne ==
  ASSUME Isolated, Refining, Draining', NEW k \in Coroutines, Commit(k)
  PROVE  [Mailbox!Next]_(Mailbox!vars)
<1>0. /\ OneSenderEach /\ Draining /\ AddressOf[k] \in Agents
      /\ op[k] \in Op \cup {NoOp} /\ op[k].at = "commit" /\ db \in Table
      /\ op'[k] = NoOp /\ \A j \in Coroutines \ {k} : op'[j] = op[j]
  BY AgentMessageStoreAssumption DEF Isolated, Refining, TypeOK, Commit, Return
<1>1. op[k].call \in {"send", "drain", "claim"}
  BY <1>0, StageTells
<1>2. /\ op[k].call = "send" =>
           db' = FlipAnswered(InsertRow(EnforceCap(db, op[k].row.to),
                                        op[k].msg, op[k].row),
                              op[k].row.inReplyTo)
      /\ op[k].call # "send" => db' = SetDelivered(db, op[k].picked)
  BY CommitEffect DEF Refining
<1>3. DrainOf(op'[k]) = "idle" /\ HandOf(op'[k]) = {}
  BY <1>0 DEF DrainOf, HandOf, NoOp
<1>4. ASSUME op[k].call # "drain"
      PROVE  /\ DrainMap' = DrainMap /\ HandMap' = HandMap
             /\ DrainMap[AddressOf[k]] = "idle"
  <2>1. DrainOf(op[k]) = "idle" /\ HandOf(op[k]) = {}
    BY <1>4 DEF DrainOf, HandOf
  <2>2. DrainMap' = DrainMap /\ HandMap' = HandMap
    BY <1>0, <1>3, <2>1, MapStays
  <2>3. QED
    BY <1>0, <2>1, <2>2, MapIsCall DEF Mapped
<1>5. CASE op[k].call = "send"
  <2> DEFINE row == op[k].row
  <2>1. op[k].msg \in Messages /\ row \in Row
    BY <1>0, <1>5, StageTells
  <2>2. row.status = "PENDING" /\ row.from = AddressOf[k]
    BY <1>5 DEF Refining, Rows
  <2>3. row = NewRow(AddressOf[k], row.to, row.at, row.asks, row.inReplyTo)
    BY <2>1, <2>2 DEF Row, NewRow
  <2>4. /\ row.to \in Agents /\ row.at \in Stamps
        /\ row.asks \in MaybeCorrelation /\ row.inReplyTo \in MaybeCorrelation
    BY <2>1 DEF Row
  <2>5. /\ db[op[k].msg].status = "ABSENT"
        /\ \A m \in Present(db) : db[m].at # row.at
        /\ row.asks # NoCorrelation =>
             /\ row.asks # row.inReplyTo
             /\ \A m \in Present(db) : row.asks \notin {db[m].asks, db[m].inReplyTo}
    BY <1>5 DEF Refining, Separate
  <2>6. handed' = handed
    BY <1>5 DEF Commit
  <2> HIDE DEF row
  <2>7. db' = FlipAnswered(InsertRow(EnforceCap(db, row.to), op[k].msg,
                 NewRow(AddressOf[k], row.to, row.at, row.asks, row.inReplyTo)),
                 row.inReplyTo)
    BY <1>2, <1>5, <2>3 DEF row
  <2>8. QED
    BY <1>0, <1>4, <1>5, <2>1, <2>4, <2>5, <2>6, <2>7, AsSend
<1>6. CASE op[k].call = "claim"
  <2> DEFINE replies == RepliesTo(db, AddressOf[k], op[k].corr)
  <2>1. op[k].corr \in Correlations
    BY <1>0, <1>6, StageTells
  <2>2. op[k].picked = IF replies = {} THEN {} ELSE {Oldest(db, replies)}
    BY <1>0, <1>6 DEF Refining, Progress, Underway
  <2>3. handed' = handed \cup op[k].picked /\ db' = SetDelivered(db, op[k].picked)
    BY <1>2, <1>6 DEF Commit
  <2>4. CASE replies = {}
    <3>1. db' = db /\ handed' = handed
      BY <1>0, <2>2, <2>3, <2>4, NothingSet
    <3>2. QED
      BY <1>4, <1>6, <3>1, Stutter
  <2>5. CASE replies # {}
    BY <1>0, <1>4, <1>6, <2>1, <2>2, <2>3, <2>5, AsClaimReply
  <2>6. QED
    BY <2>4, <2>5
<1>7. CASE op[k].call = "drain"
  <2>1. DrainOf(op[k]) = "persisted" /\ HandOf(op[k]) = op[k].picked
    BY <1>0, <1>7 DEF DrainOf, HandOf
  <2>2. /\ DrainMap[AddressOf[k]] = "persisted"
        /\ HandMap[AddressOf[k]] = op[k].picked
    BY <1>0, <2>1, MapIsCall DEF Mapped
  <2>3. /\ DrainMap' = [DrainMap EXCEPT ![AddressOf[k]] = "idle"]
        /\ HandMap' = [HandMap EXCEPT ![AddressOf[k]] = {}]
    BY <1>0, <1>3, MapMoves
  <2>4. handed' = handed /\ db' = SetDelivered(db, HandMap[AddressOf[k]])
    BY <1>2, <1>7, <2>2 DEF Commit
  <2>5. QED
    BY <1>0, <2>2, <2>3, <2>4, AsMarkDelivered
<1>8. QED
  BY <1>1, <1>5, <1>6, <1>7

\* Any other step of a call is one of its reader, or none.
LEMMA StepIsOne ==
  ASSUME Isolated, Refining, TypeOK', Draining', NEW k \in Coroutines, Step(k)
  PROVE  [Mailbox!Next]_(Mailbox!vars)
<1>0. /\ OneSenderEach /\ Draining /\ TypeOK /\ AddressOf[k] \in Agents
      /\ op \in [Coroutines -> Op \cup {NoOp}] /\ op[k] \in Op \cup {NoOp}
  BY AgentMessageStoreAssumption DEF Isolated, Refining, TypeOK
<1>1. \A j \in Coroutines \ {k} : op'[j] = op[j]
  BY <1>0, OneMoves
<1>2. CASE Commit(k)
  BY <1>2, CommitIsOne DEF Refining
<1>3. CASE BeginRefused(k)
  BY <1>3, EndsEarly DEF BeginRefused, Return
<1>4. CASE PersistGroup(k)
  <2>1. /\ op[k].at = "persist" /\ op[k].call = "drain"
        /\ op' = [op EXCEPT ![k].at = "mark"] /\ db' = db
        /\ handed' = handed \cup op[k].picked
    BY <1>0, <1>4, StageTells DEF PersistGroup, Goto
  <2>2. op'[k].at = "mark" /\ op'[k].call = "drain" /\ op'[k].picked = op[k].picked
    BY <1>0, <2>1 DEF Op, NoOp
  <2>3. /\ DrainOf(op[k]) = "selected" /\ HandOf(op[k]) = op[k].picked
        /\ DrainOf(op'[k]) = "persisted" /\ HandOf(op'[k]) = op[k].picked
    BY <2>1, <2>2 DEF DrainOf, HandOf
  <2>4. DrainMap[AddressOf[k]] = "selected" /\ HandMap[AddressOf[k]] = op[k].picked
    BY <1>0, <2>3, MapIsCall DEF Mapped
  <2>5. /\ DrainMap' = [DrainMap EXCEPT ![AddressOf[k]] = "persisted"]
        /\ HandMap' = [HandMap EXCEPT ![AddressOf[k]] = op[k].picked]
    BY <1>0, <1>1, <2>3, MapMoves
  <2>6. HandMap' = HandMap
    <3>1. HandMap = [a \in Agents |-> HandMap[a]]
      BY DEF HandMap
    <3>2. QED
      BY <2>4, <2>5, <3>1
  <2>7. QED
    BY <1>0, <2>1, <2>4, <2>5, <2>6, AsPersistGroup
<1>5. CASE \/ Begin(k) \/ CountPending(k) \/ SelectOldest(k) \/ Writes(k)
           \/ SelectReply(k)
  <2>1. db' = db /\ handed' = handed
    BY <1>5 DEF Begin, CountPending, SelectOldest, SelectReply, Writes, Expire,
                Insert, Flip, MarkDelivered, ClaimReply, Write
  <2>2. /\ op[k].at \notin {"idle", "persist", "commit"}
        /\ op[k] \in Op /\ op[k].call \in {"send", "drain", "claim"}
    BY <1>0, <1>5, StageTells DEF Begin, CountPending, SelectOldest, SelectReply,
         Writes, Expire, Insert, Flip, MarkDelivered, ClaimReply
  <2>3. op[k].call = "drain" => MarkDelivered(k)
    BY <1>0, <1>5, StageTells DEF Begin, CountPending, SelectOldest, SelectReply,
         Writes, Expire, Insert, Flip, MarkDelivered, ClaimReply
  <2>4. /\ op'[k].call = op[k].call
        /\ MarkDelivered(k) => op'[k].at = "commit" /\ op'[k].picked = op[k].picked
    BY <1>0, <1>5, <2>2 DEF Begin, CountPending, SelectOldest, SelectReply,
         Writes, Expire, Insert, Flip, MarkDelivered, ClaimReply, Goto, Op
  <2>5. DrainOf(op'[k]) = DrainOf(op[k]) /\ HandOf(op'[k]) = HandOf(op[k])
    BY <2>2, <2>3, <2>4 DEF DrainOf, HandOf
  <2>6. DrainMap' = DrainMap /\ HandMap' = HandMap
    BY <1>0, <1>1, <2>5, MapStays
  <2>7. QED
    BY <2>1, <2>6, Stutter
<1>6. QED
  BY <1>2, <1>3, <1>4, <1>5 DEF Step, Writes

LEMMA NextIsOne ==
  ASSUME Isolated, Refining, TypeOK', Draining', [Next]_vars
  PROVE  [Mailbox!Next]_(Mailbox!vars)
<1>0. /\ OneSenderEach /\ Draining /\ TypeOK
      /\ \A k \in Coroutines : AddressOf[k] \in Agents /\ ConnOf[k] \in Conns
      /\ op \in [Coroutines -> Op \cup {NoOp}]
  BY AgentMessageStoreAssumption DEF Isolated, Refining, TypeOK
<1>1. CASE UNCHANGED vars
  <2>1. db' = db /\ handed' = handed /\ op' = op
    BY <1>1 DEF vars
  <2>2. DrainMap' = DrainMap /\ HandMap' = HandMap
    BY <2>1 DEF DrainMap, HandMap, ReaderOf
  <2>3. QED
    BY <2>1, <2>2, Stutter
<1>2. ASSUME NEW k \in Coroutines,
             \/ \E m \in Messages, to \in Agents, asks, re \in MaybeCorrelation :
                  StartSend(k, m, to, asks, re)
             \/ \E c \in Correlations : StartClaim(k, c)
      PROVE  [Mailbox!Next]_(Mailbox!vars)
  <2>1. op[k] = NoOp /\ db' = db /\ handed' = handed
    BY <1>2 DEF StartSend, StartClaim
  <2>2. op'[k].call \in {"send", "claim"}
    BY <1>0, <1>2 DEF StartSend, StartClaim
  <2>3. \A j \in Coroutines \ {k} : op'[j] = op[j]
    BY <1>0, <1>2, OneMoves
  <2>4. DrainOf(op'[k]) = DrainOf(op[k]) /\ HandOf(op'[k]) = HandOf(op[k])
    BY <2>1, <2>2 DEF DrainOf, HandOf, NoOp
  <2>5. DrainMap' = DrainMap /\ HandMap' = HandMap
    BY <1>0, <2>3, <2>4, MapStays
  <2>6. QED
    BY <2>1, <2>5, Stutter
<1>3. ASSUME NEW k \in Coroutines, SelectGroup(k)
      PROVE  [Mailbox!Next]_(Mailbox!vars)
  <2> DEFINE a == AddressOf[k]
  <2>1. op[k] = NoOp /\ op[k].at = "idle" /\ op[k].call = "none"
    BY <1>3 DEF SelectGroup, NoOp
  <2>2. View(k) = db
    BY <2>1, HoldingTells DEF Refining, Holding, InTransaction
  <2>3. /\ PendingIn(db, a) # {} /\ db' = db /\ handed' = handed
        /\ op'[k] = [call |-> "drain", at |-> "persist", picked |-> OldestGroup(db, a)]
    BY <1>0, <1>3, <2>2 DEF SelectGroup
  <2>4. \A j \in Coroutines \ {k} : op'[j] = op[j]
    BY <1>0, <1>3, OneMoves
  <2>5. DrainOf(op'[k]) = "selected" /\ HandOf(op'[k]) = OldestGroup(db, a)
    BY <2>3 DEF DrainOf, HandOf
  <2>6. DrainMap[a] = "idle"
    BY <1>0, <2>1, MapIsCall DEF Mapped, DrainOf
  <2>7. /\ DrainMap' = [DrainMap EXCEPT ![a] = "selected"]
        /\ HandMap' = [HandMap EXCEPT ![a] = OldestGroup(db, a)]
    BY <1>0, <2>4, <2>5, MapMoves
  <2> HIDE DEF a
  <2>8. QED
    BY <1>0, <2>3, <2>6, <2>7, AsSelectGroup DEF a
<1>4. ASSUME NEW k \in Coroutines, Step(k)
      PROVE  [Mailbox!Next]_(Mailbox!vars)
  BY <1>4, StepIsOne
<1>5. ASSUME NEW k \in Coroutines, Cancel(k) PROVE FALSE
  BY <1>5 DEF Cancel, Isolated
<1>6. \A k \in Coroutines : ~Busy(k) /\ ~SelectNothing(k)
  BY HoldingTells DEF Refining
<1>7. ASSUME NEW c \in Conns, Crash(c)
      PROVE  [Mailbox!Next]_(Mailbox!vars)
  <2>1. PICK k \in Coroutines : ConnOf[k] = c
    BY <1>7, AgentMessageStoreAssumption DEF Crash, Refining, Holding
  <2>2. \A j \in Coroutines : ConnOf[j] = c => j = k
    BY <2>1 DEF Isolated
  <2>3. op' = [op EXCEPT ![k] = NoOp]
    BY <1>0, <1>7, <2>1, <2>2 DEF Crash
  <2>4. db' = db /\ handed' = handed
    BY <1>7 DEF Crash
  <2>5. QED
    BY <2>3, <2>4, EndsEarly
<1>8. QED
  BY <1>1, <1>2, <1>3, <1>4, <1>5, <1>6, <1>7 DEF Next

LEMMA InitIsMailbox == Init => Mailbox!Init
<1> SUFFICES ASSUME Init PROVE Mailbox!Init
  OBVIOUS
<1>1. \A a \in Agents : ReaderOf(a) = {}
  BY AgentMessageStoreAssumption DEF Init, ReaderOf, NoOp
<1>2. DrainMap = [a \in Agents |-> "idle"]
  BY <1>1 DEF DrainMap
<1>3. UNION {op[k].picked : k \in {}} = {}
  OBVIOUS
<1>4. HandMap = [a \in Agents |-> {}]
  BY <1>1, <1>3 DEF HandMap
<1>5. db = Mailbox!EmptyTable /\ handed = {}
  BY SameUpdates DEF Init
<1>6. QED
  BY <1>2, <1>4, <1>5 DEF Mailbox!Init, DrainMap, HandMap

\* Statement by statement, a store whose coroutines have a connection and an
\* address each, none of them cancelled, is the mailbox of whole transactions:
\* a call's commit is its one step, and whatever ends a call before that (a
\* crash, the busy timeout) leaves no trace but an abandoned drain.
THEOREM StoreImplementsMailbox ==
  ASSUME Isolated
  PROVE  Spec => ImplementsMailbox
<1>1. Init => Refining /\ Mailbox!Init
  BY InitRefining, InitIsMailbox
<1>2. Refining /\ [Next]_vars => Refining'
  BY StepRefining
<1>3. Refining /\ Refining' /\ [Next]_vars => [Mailbox!Next]_(Mailbox!vars)
  BY NextIsOne DEF Refining
<1>4. QED
  BY <1>1, <1>2, <1>3, PTL DEF Spec, ImplementsMailbox, Mailbox!Spec

-----------------------------------------------------------------------------
(* The inbox bound, of the committed table                                 *)

Bounded == \A a \in Agents : Cardinality(PendingIn(db, a)) <= Cap

\* The effect of one send on the inboxes.
LEMMA SentBounded ==
  ASSUME NEW t \in Table, NEW m \in Messages, NEW row \in Row,
         \A a \in Agents : Cardinality(PendingIn(t, a)) <= Cap, NEW b \in Agents
  PROVE  Cardinality(PendingIn(
           FlipAnswered(InsertRow(EnforceCap(t, row.to), m, row), row.inReplyTo), b))
             <= Cap
<1> DEFINE c == EnforceCap(t, row.to)
           i == InsertRow(c, m, row)
           u == FlipAnswered(i, row.inReplyTo)
<1>1. row.to \in Agents /\ Cap \in Nat
  BY MessageTableAssumption DEF Row
<1>2. /\ c \in Table
      /\ \A a \in Agents : Cardinality(PendingIn(c, a)) <= Cap
      /\ Cardinality(PendingIn(c, row.to)) < Cap
  BY <1>1, EnforceCapEffect, EnforceCapBounds
<1> HIDE DEF c
<1>3. /\ i \in Table /\ i[m] = row /\ \A n \in Messages \ {m} : i[n] = c[n]
  BY <1>2, InsertRowEffect
<1> HIDE DEF i
<1>4. \A n \in Messages : u[n].to = i[n].to /\ (u[n].status = "PENDING" => i[n].status = "PENDING")
  BY <1>3, FlipEffect
<1> HIDE DEF u
<1>5. CASE b # row.to
  <2>1. PendingIn(u, b) \subseteq PendingIn(c, b)
    BY <1>3, <1>4, <1>5 DEF PendingIn
  <2>2. Cardinality(PendingIn(u, b)) <= Cardinality(PendingIn(c, b))
    BY <2>1, PendingFinite, FS_Subset
  <2>3. Cardinality(PendingIn(u, b)) <= Cap
    BY <1>1, <1>2, <2>2, PendingFinite
  <2>4. QED
    BY <2>3 DEF u, i, c
<1>6. CASE b = row.to
  <2> DEFINE P == PendingIn(c, b)
  <2>1. PendingIn(u, b) \subseteq P \cup {m}
    BY <1>3, <1>4 DEF PendingIn
  <2>2. IsFiniteSet(P) /\ Cardinality(P) \in Nat /\ Cardinality(P) < Cap
    BY <1>2, <1>6, PendingFinite
  <2> HIDE DEF P
  <2>3. /\ IsFiniteSet(P \cup {m})
        /\ \/ Cardinality(P \cup {m}) = Cardinality(P)
           \/ Cardinality(P \cup {m}) = Cardinality(P) + 1
    BY <2>2, FS_AddElement
  <2>4. Cardinality(PendingIn(u, b)) <= Cardinality(P \cup {m})
    BY <2>1, <2>3, FS_Subset
  <2>5. Cardinality(PendingIn(u, b)) \in Nat
    BY PendingFinite
  <2>6. Cardinality(PendingIn(u, b)) <= Cap
    BY <1>1, <2>2, <2>3, <2>4, <2>5
  <2>7. QED
    BY <2>6 DEF u, i, c
<1>7. QED
  BY <1>5, <1>6

LEMMA StepBounded ==
  ASSUME Isolated, Refining, Bounded, [Next]_vars
  PROVE  Bounded'
<1>0. db \in Table /\ op \in [Coroutines -> Op \cup {NoOp}] /\ Cap \in Nat
  BY MessageTableAssumption DEF Refining, TypeOK
<1>1. CASE db' = db
  BY <1>1 DEF Bounded
<1>2. ASSUME NEW k \in Coroutines, Commit(k), NEW b \in Agents
      PROVE  Cardinality(PendingIn(db', b)) <= Cap
  <2>1. /\ op[k].call = "send" =>
             db' = FlipAnswered(InsertRow(EnforceCap(db, op[k].row.to),
                                          op[k].msg, op[k].row),
                                op[k].row.inReplyTo)
        /\ op[k].call # "send" => db' = SetDelivered(db, op[k].picked)
    BY <1>2, CommitEffect DEF Refining
  <2>2. CASE op[k].call = "send"
    <3>1. op[k].msg \in Messages /\ op[k].row \in Row
      BY <1>0, <2>2, StageTells
    <3>2. QED
      BY <1>0, <2>1, <2>2, <3>1, SentBounded DEF Bounded
  <2>3. CASE op[k].call # "send"
    <3> DEFINE D == {m \in op[k].picked : db[m].status = "PENDING"}
    <3>1. D \in SUBSET Messages /\ "DELIVERED" \in Statuses \ {"PENDING"}
      BY <1>0, StageTells DEF Statuses
    <3>2. db' = SetStatus(db, D, "DELIVERED")
      BY <2>1, <2>3 DEF SetDelivered
    <3> HIDE DEF D
    <3>3. Cardinality(PendingIn(db', b)) <= Cardinality(PendingIn(db, b))
      BY <1>0, <3>1, <3>2, ClosingShrinksInbox
    <3>4. QED
      BY <1>0, <3>3, PendingFinite DEF Bounded
  <2>4. QED
    BY <2>2, <2>3
<1>3. QED
  BY <1>1, <1>2, OnlyCommits DEF Bounded

\* What the comment in send() says of its BEGIN IMMEDIATE: with the count, the
\* drop and the insert in transactions of their own, concurrent writers never
\* take an inbox past inbox_cap.
THEOREM ConcurrentSendsBounded ==
  ASSUME Isolated
  PROVE  Spec => []PendingBounded
<1>1. Init => Refining /\ Bounded
  <2> SUFFICES ASSUME Init, NEW a \in Agents
               PROVE  Refining /\ Cardinality(PendingIn(db, a)) <= Cap
    BY InitRefining DEF Bounded, Init
  <2>1. PendingIn(db, a) = {}
    BY EmptyTableType DEF Init, PendingIn
  <2>2. QED
    BY <2>1, InitRefining, MessageTableAssumption, FS_EmptySet
<1>2. Refining /\ Bounded /\ [Next]_vars => Refining' /\ Bounded'
  BY StepRefining, StepBounded
<1>3. Bounded => PendingBounded
  BY SameQueries, SameCount DEF Bounded, PendingBounded, Mailbox!PendingBounded
<1>4. QED
  BY <1>1, <1>2, <1>3, PTL DEF Spec
=============================================================================
