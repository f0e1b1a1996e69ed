-------------------------- MODULE AgentMessageStore --------------------------
(***************************************************************************)
(* storage/agent_message_store.py one SQL statement at a time.             *)
(*                                                                         *)
(* Every process opens ONE aiosqlite connection for the store              *)
(* (BaseSQLiteStore.initialize) and all its coroutines share it: the agent *)
(* loop, the reaper, the cron dispatcher, parallel tool calls.  Each await *)
(* of a statement lets another coroutine of the process run its own        *)
(* statement on the same connection.  SQLite isolates CONNECTIONS from     *)
(* each other (one writer, whose changes the others see at its commit); a  *)
(* statement of another coroutine on the same connection joins whatever    *)
(* transaction is open there.                                              *)
(*                                                                         *)
(* sqlite3 in its default isolation mode opens a transaction before an     *)
(* UPDATE or INSERT when none is open, runs a SELECT outside one, and      *)
(* refuses BEGIN inside one.  That implicit BEGIN takes no lock: when the  *)
(* UPDATE behind it gives up, the transaction is open without one, and its *)
(* first SELECT freezes what the connection sees.                          *)
(***************************************************************************)
EXTENDS MessageTable

CONSTANTS
  Coroutines,    \* asyncio tasks that call the store
  Readers,       \* those that run an agent loop and so read its inbox
  Conns,         \* one connection per process
  ConnOf,        \* the connection a coroutine's store uses
  AddressOf,     \* the agent a coroutine acts for
  Cancellable,   \* coroutines a user or a shutdown may cancel
  NoConn

ASSUME AgentMessageStoreAssumption ==
  /\ Readers \subseteq Coroutines /\ Cancellable \subseteq Coroutines
  /\ ConnOf \in [Coroutines -> Conns]
  /\ AddressOf \in [Coroutines -> Agents]
  /\ NoConn \notin Conns
  /\ \A s \in Stamps : s > 0 /\ 1 .. s \subseteq Stamps

VARIABLES
  db,       \* the committed table
  work,     \* the writer's view of it, when there is a writer
  writer,   \* the connection in a write transaction, or NoConn
  deferred, \* each connection's transaction without the write lock
  clock,    \* _utc_now()
  op,       \* op[k]: the store call coroutine k is in
  handed,   \* messages given to their recipient (history)
  failed    \* what went wrong in a call of which coroutine (history)

vars == <<db, work, writer, deferred, clock, op, handed, failed>>

SendStages  == {"begin", "count", "oldest", "expire", "insert", "flip", "commit"}
DrainStages == {"persist", "mark", "commit"}
ClaimStages == {"begin", "select", "claim", "commit"}

\* picked: the rows a SELECT returned and a later UPDATE will name.
Op == [call : {"send"},  at : SendStages, msg : Messages, row : Row,
         picked : SUBSET Messages]
      \cup [call : {"drain"}, at : DrainStages, picked : SUBSET Messages]
      \cup [call : {"claim"}, at : ClaimStages, corr : Correlations,
              picked : SUBSET Messages]

NoOp == [call |-> "none", at |-> "idle", picked |-> {}]

\* Between its BEGIN and its statements that end it, a call of the store is in
\* a transaction, as far as it knows.
InTransaction ==
  {"count", "oldest", "expire", "insert", "flip", "select", "claim", "commit"}

Writing == {"expire", "insert", "flip", "mark", "claim"}

\* A transaction that was begun but never got the write lock.  Its first
\* SELECT fixes the table it sees until it ends.
Deferred == [at : {"none", "begun", "reading"}, sees : Table]

NotDeferred == [at |-> "none", sees |-> EmptyTable]
BegunOnly   == [at |-> "begun", sees |-> EmptyTable]

\* "nested": BEGIN was refused inside a transaction.  "busy": the write lock,
\* or the snapshot the write relied on, belongs to another connection.
\* "left": a call that was cancelled left its transaction open.
Troubles == {"nested", "busy", "left"}

TypeOK ==
  /\ db \in Table /\ work \in Table
  /\ writer \in Conns \cup {NoConn}
  /\ deferred \in [Conns -> Deferred]
  /\ clock \in Nat
  /\ op \in [Coroutines -> Op \cup {NoOp}]
  /\ handed \in SUBSET Messages
  /\ failed \in SUBSET (Coroutines \X Troubles)

Init ==
  /\ db = EmptyTable /\ work = EmptyTable
  /\ writer = NoConn
  /\ deferred = [c \in Conns |-> NotDeferred]
  /\ clock = 1
  /\ op = [k \in Coroutines |-> NoOp]
  /\ handed = {} /\ failed = {}

DeferredOf(k) == deferred[ConnOf[k]]

\* What a SELECT of k reads.
View(k) ==
  IF writer = ConnOf[k] THEN work
  ELSE IF DeferredOf(k).at = "reading" THEN DeferredOf(k).sees
  ELSE db

\* What a SELECT of k leaves behind.
Look(k) ==
  deferred' = IF DeferredOf(k).at = "begun"
                THEN [deferred EXCEPT ![ConnOf[k]] = [at |-> "reading", sees |-> db]]
                ELSE deferred

EndDeferred(k) == deferred' = [deferred EXCEPT ![ConnOf[k]] = NotDeferred]

Goto(k, stage) == op' = [op EXCEPT ![k].at = stage]

Return(k) == op' = [op EXCEPT ![k] = NoOp]

\* An UPDATE or INSERT of k that turns its view into t.  It joins the open
\* transaction of k's connection or opens one; it waits for another's.  A
\* transaction that has read gets the lock only if nobody committed since.
Write(k, t) ==
  /\ writer \in {NoConn, ConnOf[k]}
  /\ DeferredOf(k).at = "reading" => DeferredOf(k).sees = db
  /\ writer' = ConnOf[k]
  /\ work' = t
  /\ EndDeferred(k)
  /\ UNCHANGED db

InFlight == {op[k].msg : k \in {j \in Coroutines : op[j].call = "send"}}

FreshCorrelation(c) ==
  /\ \A m \in Present(db) : c \notin {db[m].asks, db[m].inReplyTo}
  /\ \A k \in Coroutines :
       op[k].call = "send" => c \notin {op[k].row.asks, op[k].row.inReplyTo}

\* An id that a send under way has drawn from uuid4() and nobody can have read.
Undisclosed(c) ==
  /\ \E k \in Coroutines : op[k].call = "send" /\ op[k].row.asks = c
  /\ \A q \in Present(db) : db[q].asks # c

-----------------------------------------------------------------------------
(* send()                                                                  *)

\* The arguments: the callers write to inboxes that an agent loop reads, and
\* may reply to any id, be it that of a question or not.  created_at is taken
\* before the transaction begins.
StartSend(k, m, to, asks, re) ==
  /\ op[k] = NoOp
  /\ clock \in Stamps
  /\ m \notin Present(db) \cup Present(work) \cup InFlight
  /\ to \in {AddressOf[r] : r \in Readers} \ {AddressOf[k]}
  /\ asks # NoCorrelation => asks # re /\ FreshCorrelation(asks)
  /\ re # NoCorrelation => ~Undisclosed(re)
  /\ op' = [op EXCEPT ![k] =
       [call |-> "send", at |-> "begin", msg |-> m, picked |-> {},
        row |-> NewRow(AddressOf[k], to, clock, asks, re)]]
  /\ clock' = clock + 1
  /\ UNCHANGED <<db, work, writer, deferred, handed, failed>>

\* BEGIN IMMEDIATE of send() and claim_reply(), no transaction being open.
Begin(k) ==
  /\ op[k].at = "begin"
  /\ writer = NoConn /\ DeferredOf(k).at = "none"
  /\ writer' = ConnOf[k]
  /\ work' = db
  /\ Goto(k, IF op[k].call = "send" THEN "count" ELSE "select")
  /\ UNCHANGED <<db, deferred, clock, handed, failed>>

\* (Broken variant: no busy_timeout, a lock held elsewhere is an error.)
BeginRefusedAtOnce(k) ==
  /\ op[k].at = "begin"
  /\ writer # NoConn \/ DeferredOf(k).at # "none"
  /\ failed' = failed \cup
       {<<k, IF writer \in {NoConn, ConnOf[k]} THEN "nested" ELSE "busy">>}
  /\ Return(k)
  /\ UNCHANGED <<db, work, writer, deferred, clock, handed>>

\* BEGIN IMMEDIATE while a transaction is open on this connection, with the
\* lock or without: OperationalError, outside the try block.  The call has no
\* effect and does not end that transaction.
BeginRefused(k) ==
  /\ op[k].at = "begin"
  /\ writer = ConnOf[k] \/ DeferredOf(k).at # "none"
  /\ failed' = failed \cup {<<k, "nested">>}
  /\ Return(k)
  /\ UNCHANGED <<db, work, writer, deferred, clock, handed>>

CountPending(k) ==
  /\ op[k].at = "count"
  /\ Goto(k, IF Cardinality(PendingIn(View(k), op[k].row.to)) < Cap
               THEN "insert" ELSE "oldest")
  /\ Look(k)
  /\ UNCHANGED <<db, work, writer, clock, handed, failed>>

SelectOldest(k) ==
  /\ op[k].at = "oldest"
  /\ LET S == PendingIn(View(k), op[k].row.to)
     IN  op' = [op EXCEPT
           ![k].at = IF S = {} THEN "insert" ELSE "expire",
           ![k].picked = IF S = {} THEN {} ELSE {Oldest(View(k), S)}]
  /\ Look(k)
  /\ UNCHANGED <<db, work, writer, clock, handed, failed>>

\* UPDATE ... SET status = EXPIRED WHERE id = ?
Expire(k) ==
  /\ op[k].at = "expire"
  /\ Write(k, SetStatus(View(k), op[k].picked, "EXPIRED"))
  /\ op' = [op EXCEPT ![k].at = "insert", ![k].picked = {}]
  /\ UNCHANGED <<clock, handed, failed>>

\* (Broken variants: the question is not flipped; commit is forgotten.)
InsertOnly(k) ==
  /\ op[k].at = "insert"
  /\ Write(k, InsertRow(View(k), op[k].msg, op[k].row))
  /\ Goto(k, "commit")
  /\ UNCHANGED <<clock, handed, failed>>

InsertNoCommit(k) ==
  /\ op[k].at = "insert"
  /\ Write(k, InsertRow(View(k), op[k].msg, op[k].row))
  /\ Return(k)
  /\ UNCHANGED <<clock, handed, failed>>

Insert(k) ==
  /\ op[k].at = "insert"
  /\ Write(k, InsertRow(View(k), op[k].msg, op[k].row))
  /\ Goto(k, IF op[k].row.inReplyTo = NoCorrelation THEN "commit" ELSE "flip")
  /\ UNCHANGED <<clock, handed, failed>>

Flip(k) ==
  /\ op[k].at = "flip"
  /\ Write(k, FlipAnswered(View(k), op[k].row.inReplyTo))
  /\ Goto(k, "commit")
  /\ UNCHANGED <<clock, handed, failed>>

\* commit() of any call: it ends the connection's transaction, whoever
\* began it and with the lock or without, and does nothing when there is none.
\* claim_reply returns the row it claimed to its caller.
Commit(k) ==
  /\ op[k].at = "commit"
  /\ IF writer = ConnOf[k]
       THEN db' = work /\ writer' = NoConn
       ELSE UNCHANGED <<db, writer>>
  /\ EndDeferred(k)
  /\ handed' = IF op[k].call = "claim" THEN handed \cup op[k].picked ELSE handed
  /\ Return(k)
  /\ UNCHANGED <<work, clock, failed>>

-----------------------------------------------------------------------------
(* The reader: _drain_agent_inbox and request_input's claim_reply           *)

SelectGroup(k) ==
  LET a == AddressOf[k]
  IN  /\ k \in Readers /\ op[k] = NoOp
      /\ PendingIn(View(k), a) # {}
      /\ op' = [op EXCEPT ![k] =
           [call |-> "drain", at |-> "persist", picked |-> OldestGroup(View(k), a)]]
      /\ Look(k)
      /\ UNCHANGED <<db, work, writer, clock, handed, failed>>

\* A SELECT that leads to nothing: inbox() of an empty inbox, pending_count(),
\* get_by_correlation().
SelectNothing(k) ==
  /\ op[k] = NoOp
  /\ DeferredOf(k).at = "begun"
  /\ Look(k)
  /\ UNCHANGED <<db, work, writer, clock, op, handed, failed>>

PersistGroup(k) ==
  /\ op[k].at = "persist"
  /\ handed' = handed \cup op[k].picked
  /\ Goto(k, "mark")
  /\ UNCHANGED <<db, work, writer, deferred, clock, failed>>

\* (Broken variant: whatever is in the inbox by now is acknowledged.)
MarkInboxDelivered(k) ==
  /\ op[k].at = "mark"
  /\ Write(k, SetDelivered(View(k), PendingIn(View(k), AddressOf[k])))
  /\ Goto(k, "commit")
  /\ UNCHANGED <<clock, handed, failed>>

MarkDelivered(k) ==
  /\ op[k].at = "mark"
  /\ Write(k, SetDelivered(View(k), op[k].picked))
  /\ Goto(k, "commit")
  /\ UNCHANGED <<clock, handed, failed>>

\* One poll of request_input for the answer to a question of its own.
StartClaim(k, c) ==
  /\ k \in Readers /\ op[k] = NoOp
  /\ \E q \in Present(db) : db[q].asks = c /\ db[q].from = AddressOf[k]
  /\ op' = [op EXCEPT ![k] =
       [call |-> "claim", at |-> "begin", corr |-> c, picked |-> {}]]
  /\ UNCHANGED <<db, work, writer, deferred, clock, handed, failed>>

SelectReply(k) ==
  LET replies == RepliesTo(View(k), AddressOf[k], op[k].corr)
  IN  /\ op[k].at = "select"
      /\ op' = [op EXCEPT
           ![k].at = IF replies = {} THEN "commit" ELSE "claim",
           ![k].picked = IF replies = {} THEN {} ELSE {Oldest(View(k), replies)}]
      /\ Look(k)
      /\ UNCHANGED <<db, work, writer, clock, handed, failed>>

ClaimReply(k) ==
  /\ op[k].at = "claim"
  /\ Write(k, SetDelivered(View(k), op[k].picked))
  /\ Goto(k, "commit")
  /\ UNCHANGED <<clock, handed, failed>>

-----------------------------------------------------------------------------
(* Interruptions                                                           *)

\* CancelledError is no Exception: neither rollback() nor commit() runs and
\* the transaction stays open on the connection.
Cancel(k) ==
  /\ k \in Cancellable
  /\ op[k] # NoOp
  /\ failed' = IF writer = ConnOf[k] /\ op[k].at \in InTransaction
                 THEN failed \cup {<<k, "left">>} ELSE failed
  /\ Return(k)
  /\ UNCHANGED <<db, work, writer, deferred, clock, handed>>

\* The lock of another connection is left: none of its coroutines is in a call
\* that would end the transaction.  One in progress takes milliseconds of the
\* five seconds of PRAGMA busy_timeout.
LockIsLeft(k) ==
  /\ writer \notin {NoConn, ConnOf[k]}
  /\ \A j \in Coroutines : ConnOf[j] = writer => op[j] = NoOp

\* "database is locked": the busy timeout runs out; or, at once, the statement
\* is the first write of a transaction that has read, and another connection
\* (of this store or of another one in the same file) has the lock or has
\* committed.  send() and claim_reply() roll back; mark_delivered() does not,
\* and the BEGIN that went before its UPDATE stays.
Busy(k) ==
  /\ \/ /\ op[k].at \in Writing \cup {"begin"} /\ LockIsLeft(k)
        /\ DeferredOf(k).at = "none" \/ (DeferredOf(k).at = "begun" /\ op[k].at # "begin")
     \/ op[k].at \in Writing /\ DeferredOf(k).at = "reading"
  /\ failed' = failed \cup {<<k, "busy">>}
  /\ deferred' = [deferred EXCEPT ![ConnOf[k]] =
       IF op[k].at # "mark" THEN NotDeferred
       ELSE IF @.at = "none" THEN BegunOnly ELSE @]
  /\ Return(k)
  /\ UNCHANGED <<db, work, writer, clock, handed>>

\* The process dies; SQLite discards its transaction.
Crash(c) ==
  /\ \/ writer = c \/ deferred[c].at # "none"
     \/ \E k \in Coroutines : ConnOf[k] = c /\ op[k] # NoOp
  /\ op' = [k \in Coroutines |-> IF ConnOf[k] = c THEN NoOp ELSE op[k]]
  /\ writer' = IF writer = c THEN NoConn ELSE writer
  /\ deferred' = [deferred EXCEPT ![c] = NotDeferred]
  /\ UNCHANGED <<db, work, clock, handed, failed>>

\* The next statement of a call, as long as no other process is writing.
Step(k) ==
  \/ Begin(k) \/ BeginRefused(k) \/ CountPending(k) \/ SelectOldest(k)
  \/ Expire(k) \/ Insert(k) \/ Flip(k) \/ Commit(k)
  \/ PersistGroup(k) \/ MarkDelivered(k) \/ SelectReply(k) \/ ClaimReply(k)

Next ==
  \/ \E k \in Coroutines :
       \/ \E m \in Messages, to \in Agents, asks, re \in MaybeCorrelation :
            StartSend(k, m, to, asks, re)
       \/ SelectGroup(k)
       \/ \E c \in Correlations : StartClaim(k, c)
       \/ Step(k)
       \/ SelectNothing(k)
       \/ Cancel(k)
       \/ Busy(k)
  \/ \E c \in Conns : Crash(c)

Spec == Init /\ [][Next]_vars

-----------------------------------------------------------------------------
(* Properties                                                              *)

\* The committed table is what AgentMailbox makes of whole transactions:
\* the group a reader holds is its operation's, the rest is hidden.
ReaderOf(a) == {k \in Readers : AddressOf[k] = a /\ op[k].call = "drain"}

Mailbox == INSTANCE AgentMailbox WITH
  table <- db,
  drain <- [a \in Agents |->
              IF ReaderOf(a) = {} THEN "idle"
              ELSE IF \E k \in ReaderOf(a) : op[k].at = "persist"
                THEN "selected" ELSE "persisted"],
  inHand <- [a \in Agents |-> UNION {op[k].picked : k \in ReaderOf(a)}]

\* When no two coroutines share a connection, statements in a transaction
\* are as good as one step: the store implements AgentMailbox.
ImplementsMailbox == Mailbox!Spec

\* "two concurrent writers can't both pass the cap check and silently blow
\* past the FIFO bound" (the comment in send()).
PendingBounded == Mailbox!PendingBounded

\* Whatever the coroutines of a process do to each other's transactions, a
\* message is acknowledged only after it has become a turn of the recipient.
\* The exception is an answer: a request_input that is cancelled may have
\* claimed it, and the claim is committed with a later call.
DrainedWasHanded ==
  \A m \in Messages :
    db[m].status = "DELIVERED" /\ db[m].inReplyTo = NoCorrelation => m \in handed

\* The busy timeout "makes a contended write back off instead of hard-failing
\* with database is locked" (storage/connection.py), on connections that are
\* shared as on others: a call is refused the lock only once a cancelled call
\* of ANOTHER connection has left its transaction open.  BEGIN is refused as
\* nested only to a coroutine that shares its connection, or after a call on it
\* was cancelled in its transaction or was itself refused the lock.
ContendedWritesBackOff ==
  \A k \in Coroutines :
    /\ <<k, "busy">> \in failed =>
         \E j \in Coroutines : ConnOf[j] # ConnOf[k] /\ <<j, "left">> \in failed
    /\ <<k, "nested">> \in failed =>
         \E j \in Coroutines :
           /\ ConnOf[j] = ConnOf[k]
           /\ j # k \/ <<j, "left">> \in failed \/ <<j, "busy">> \in failed

\* Messages of one sender to one inbox reach the recipient in the order
\* they were sent.
PerSenderOrder ==
  \A m, n \in Present(db) :
    /\ db[m].from = db[n].from /\ db[m].to = db[n].to
    /\ db[m].at < db[n].at
    /\ db[n].status = "DELIVERED" /\ db[n].inReplyTo = NoCorrelation
    => db[m].status # "PENDING"

\* A transaction is left open with nobody to end it only where one of two
\* things happened on that very connection: with the write lock, a call was
\* cancelled in it; without the lock, a mark_delivered() was refused it.  Every
\* other path through the store, errors included, commits, rolls back or never
\* began.
NoStrandedTransaction ==
  \A c \in Conns :
    LET here == {k \in Coroutines : ConnOf[k] = c}
    IN  /\ writer = c /\ (\A k \in here : op[k] = NoOp)
             => \E k \in here : <<k, "left">> \in failed
        /\ deferred[c].at # "none"
             => writer # c /\ \E k \in here : <<k, "busy">> \in failed
=============================================================================
