----------------------------- MODULE Attachments ------------------------------
(***************************************************************************)
(* Files dropped into a message (storage/attachment_store.py,              *)
(* integrations/attachments/parse.py, core/agent/base.py:935-1060): the    *)
(* message is stored first, then each file is copied by a thread and gets  *)
(* a row; a failure or an interrupt discards message, rows and copies.     *)
(* Turns of different sessions share the session store's connection: one's *)
(* commit publishes what the others have written so far.                   *)
(* Row <<t, 0>> is turn t's message, <<t, i>> its i-th attachment; the     *)
(* latter also names the copy.                                             *)
(***************************************************************************)
EXTENDS Naturals, Sequences, FiniteSets, Functions

CONSTANTS
  Turns,        \* messages with files, of different sessions
  Drops,        \* what the user may type: sequences of tokens
  MaxTroubles   \* interrupts, errors and kills together

VARIABLES
  view,      \* rows as the connection sees them
  db,        \* rows that are committed
  disk,      \* copies under .feather/attachments, partial ones too
  copying,   \* copies a thread is at
  turn,      \* each turn: where it is, its files, which one, rows to discard
  index,     \* attachments whose indexing is under way, and done
  left,      \* turns whose clean-up was itself disturbed
  troubles   \* how many there were

atvars == <<view, db, disk, copying, turn, index, left, troubles>>

\* A file by what tells it apart: kind, size, and whether its stored name
\* keeps the suffix (a name of other than ASCII letters loses it).
Files ==
  [photo   |-> [kind |-> "image",  size |-> 2, safe |-> TRUE,  keeps |-> TRUE],
   drawing |-> [kind |-> "svg",    size |-> 1, safe |-> TRUE,  keeps |-> TRUE],
   notes   |-> [kind |-> "text",   size |-> 1, safe |-> TRUE,  keeps |-> TRUE],
   odd     |-> [kind |-> "text",   size |-> 1, safe |-> TRUE,  keeps |-> FALSE],
   log     |-> [kind |-> "text",   size |-> 2, safe |-> TRUE,  keeps |-> TRUE],
   key     |-> [kind |-> "text",   size |-> 1, safe |-> FALSE, keeps |-> TRUE]]

MaxBytes     == 4   \* MAX_DIRECT_ATTACHMENT_BYTES, in these sizes
MaxTextBytes == 1   \* MAX_INLINE_TEXT_ATTACHMENT_BYTES

\* A token is the paths glued together in it, none for a word.  Its files are
\* taken from the left as long as they may be read: where they are.
Recovered(token) == {i \in DOMAIN token : \A j \in 1..i : Files[token[j]].safe}

\* parse_attachment_drops: every file once, in the order it was dropped.
Draft(tokens) ==
  LET dropped  == UNION {{i} \X Recovered(tokens[i]) : i \in DOMAIN tokens}
      Spots(f) == {p \in dropped : tokens[p[1]][p[2]] = f}
      Sooner(f, g) == \E p \in Spots(f) : \A q \in Spots(g) :
                        p[1] < q[1] \/ (p[1] = q[1] /\ p[2] < q[2])
      files == {f \in DOMAIN Files : Spots(f) # {}}
  IN [n \in 1..Cardinality(files) |->
        CHOOSE f \in files : Cardinality({g \in files : Sooner(g, f)}) = n - 1]

\* validate_pending_attachments.
Acceptable(files) ==
  /\ FoldFunction(+, 0, [n \in DOMAIN files |-> Files[files[n]].size]) <= MaxBytes
  /\ \A f \in Range(files) :
       /\ Files[f].kind \in {"image", "pdf", "text"}
       /\ Files[f].kind = "text" => Files[f].size <= MaxTextBytes

-----------------------------------------------------------------------------

Init ==
  /\ view = {} /\ db = {} /\ disk = {} /\ copying = {}
  /\ turn = [t \in Turns |-> [at |-> "new", files |-> <<>>, i |-> 0, found |-> {}]]
  /\ index = [doing |-> {}, done |-> {}] /\ left = {} /\ troubles = 0

Goto(t, at)   == turn' = [turn EXCEPT ![t].at = at]
At(t, at)     == turn[t].at = at
Current(t)    == <<t, turn[t].i>>
RowsOf(t)     == {t} \X (0..Len(turn[t].files))
CopiesOf(t)   == {t} \X (1..Len(turn[t].files))
Discarding(t) == turn[t].at \in {"waiting", "list", "delete", "settle", "unlink"}
Ended         == {"started", "refused", "cut", "gone", "died", "died_discarding"}
Trouble       == troubles < MaxTroubles /\ troubles' = troubles + 1
Locked        == view = db   \* may be, unless this connection has the lock

\* discover, validate.
Drop(t, tokens) ==
  LET files == Draft(tokens) IN
  /\ At(t, "new")
  /\ turn' = [turn EXCEPT ![t].files = files,
                          ![t].at = IF Acceptable(files) THEN "message" ELSE "refused"]
  /\ UNCHANGED <<view, db, disk, copying, index, left, troubles>>

\* add_message's INSERT, with the markers of files that are not there yet.
AddMessage(t) ==
  /\ At(t, "message") /\ Goto(t, "publish")
  /\ view' = view \cup {<<t, 0>>}
  /\ UNCHANGED <<db, disk, copying, index, left, troubles>>

\* The INSERT is refused: another process holds the database.
RefuseMessage(t) ==
  /\ At(t, "message") /\ Locked /\ Trouble /\ Goto(t, "refused")
  /\ UNCHANGED <<view, db, disk, copying, index, left>>

\* The next file, or the provider's request; nothing more without files.
Proceed(t) ==
  LET r == turn[t] IN
  turn' = [turn EXCEPT ![t].at = IF r.files = <<>> THEN "started"
                                 ELSE IF r.i = Len(r.files) THEN "build" ELSE "copy",
                       ![t].i = IF r.i < Len(r.files) THEN @ + 1 ELSE @]

\* The commit of a message or of an attachment's row publishes all there is.
Commit(t) ==
  /\ At(t, "publish") \/ At(t, "record")
  /\ db' = view /\ Proceed(t)
  /\ UNCHANGED <<view, disk, copying, index, left, troubles>>

\* _save_one: the file is no longer there, or a thread copies it.
StartCopy(t) ==
  /\ At(t, "copy") /\ Goto(t, "copying")
  /\ copying' = copying \cup {Current(t)}
  /\ UNCHANGED <<view, db, disk, index, left, troubles>>

SourceGone(t) ==
  /\ At(t, "copy") /\ Trouble /\ Goto(t, "list")
  /\ UNCHANGED <<view, db, disk, copying, index, left>>

EndCopy(a) ==
  LET t == a[1] IN
  /\ a \in copying /\ copying' = copying \ {a}
  /\ disk' = disk \cup {a}
  /\ IF At(t, "copying") /\ Current(t) = a THEN Goto(t, "insert") ELSE UNCHANGED turn
  /\ UNCHANGED <<view, db, index, left, troubles>>

\* The copy fails: what there is of it is removed by the turn that waits.
CopyFails(a) ==
  LET t == a[1] IN
  /\ a \in copying /\ copying' = copying \ {a} /\ Trouble
  /\ IF turn[t].at \in {"copying", "waiting"} /\ Current(t) = a
       THEN Goto(t, "list") /\ UNCHANGED disk
       ELSE UNCHANGED turn /\ disk' \in {disk, disk \cup {a}}
  /\ UNCHANGED <<view, db, index, left>>

Insert(t) ==
  /\ At(t, "insert") /\ Goto(t, "record")
  /\ view' = view \cup {Current(t)}
  /\ UNCHANGED <<db, disk, copying, index, left, troubles>>

\* The INSERT is refused: the copy goes.
InsertFails(t) ==
  /\ At(t, "insert") /\ Locked /\ Trouble /\ Goto(t, "list")
  /\ disk' = disk \ {Current(t)}
  /\ UNCHANGED <<view, db, copying, index, left>>

\* build_attachment_content_blocks reads the copies by their stored names.
Readable(t) ==
  /\ CopiesOf(t) \subseteq disk
  /\ \A f \in Range(turn[t].files) : Files[f].kind = "text" => Files[f].keeps

\* All is well: indexing is scheduled, the run starts.  (The message needs no
\* update_message_content: its markers number the files by kind, and the
\* records have the kinds of the files: parse.py:164-179.)
Build(t) ==
  /\ At(t, "build") /\ Readable(t) /\ Goto(t, "started")
  /\ index' = [index EXCEPT !.doing = @ \cup CopiesOf(t)]
  /\ UNCHANGED <<view, db, disk, copying, left, troubles>>

BuildFails(t) ==
  /\ At(t, "build") /\ ~Readable(t) /\ Goto(t, "list")
  /\ UNCHANGED <<view, db, disk, copying, index, left, troubles>>

\* _index_best_effort: memory holds the attachment's text.
Index(a) ==
  /\ a \in index.doing
  /\ index' = [doing |-> index.doing \ {a}, done |-> index.done \cup {a}]
  /\ UNCHANGED <<view, db, disk, copying, turn, left, troubles>>

-----------------------------------------------------------------------------

\* An interrupt cancels what the turn awaits, but a statement that the
\* connection's thread has already is carried out, and a copy goes on.
InterruptMessage(t) ==
  /\ Trouble /\ Goto(t, "cut")
  /\ \/ At(t, "message") /\ view' = view \cup {<<t, 0>>} /\ UNCHANGED db
     \/ At(t, "publish") /\ db' \in {db, view} /\ UNCHANGED view
  /\ UNCHANGED <<disk, copying, index, left>>

InterruptCopy(t) ==
  /\ At(t, "copying") /\ Trouble /\ Goto(t, "waiting")
  /\ UNCHANGED <<view, db, disk, copying, index, left>>

InterruptRow(t) ==
  /\ Trouble /\ Goto(t, "list")
  /\ \/ At(t, "insert") /\ view' \in {view, view \cup {Current(t)}} /\ UNCHANGED db
     \/ At(t, "record") /\ db' \in {db, view} /\ UNCHANGED view
  /\ disk' = disk \ {Current(t)}
  /\ UNCHANGED <<copying, index, left>>

InterruptBuild(t) ==
  /\ At(t, "build") /\ Trouble /\ Goto(t, "list")
  /\ UNCHANGED <<view, db, disk, copying, index, left>>

\* (Broken variant: the thread is not waited for.)
RemoveCopyAtOnce(t) ==
  /\ At(t, "waiting") /\ Goto(t, "list")
  /\ disk' = disk \ {Current(t)}
  /\ UNCHANGED <<view, db, copying, index, left, troubles>>

\* The interrupted _save_one waits for its thread, then removes the copy.
RemoveCopy(t) ==
  /\ At(t, "waiting") /\ Current(t) \notin copying /\ Goto(t, "list")
  /\ disk' = disk \ {Current(t)}
  /\ UNCHANGED <<view, db, copying, index, left, troubles>>

\* A second interrupt ends that wait: nobody removes the copy.
InterruptAgain(t) ==
  /\ At(t, "waiting") /\ Trouble /\ Goto(t, "list")
  /\ left' = left \cup {t}
  /\ UNCHANGED <<view, db, disk, copying, index>>

\* discard_message, shielded: list the rows, delete them and the message,
\* commit, remove the copies.
List(t) ==
  /\ At(t, "list")
  /\ turn' = [turn EXCEPT ![t].at = "delete", ![t].found = view \cap CopiesOf(t)]
  /\ UNCHANGED <<view, db, disk, copying, index, left, troubles>>

Delete(t) ==
  /\ At(t, "delete") /\ Goto(t, "settle")
  /\ view' = view \ RowsOf(t)
  /\ UNCHANGED <<db, disk, copying, index, left, troubles>>

DeleteFails(t) ==
  /\ At(t, "delete") /\ Locked /\ Trouble /\ Goto(t, "gone")
  /\ left' = left \cup {t}
  /\ UNCHANGED <<view, db, disk, copying, index>>

Settle(t) ==
  /\ At(t, "settle") /\ Goto(t, "unlink")
  /\ db' = view
  /\ UNCHANGED <<view, disk, copying, index, left, troubles>>

Unlink(t) ==
  /\ At(t, "unlink") /\ Goto(t, "gone")
  /\ disk' = disk \ turn[t].found
  /\ UNCHANGED <<view, db, copying, index, left, troubles>>

UnlinkFails(t) ==
  /\ At(t, "unlink") /\ turn[t].found # {} /\ Trouble /\ Goto(t, "gone")
  /\ left' = left \cup {t}
  /\ UNCHANGED <<view, db, disk, copying, index>>

\* The process dies: what was not committed is gone, copies stay as they are.
Kill ==
  /\ Trouble /\ view' = db
  /\ \E part \in SUBSET copying : disk' = disk \cup part
  /\ copying' = {} /\ index' = [index EXCEPT !.doing = {}]
  /\ turn' = [t \in Turns |->
       IF turn[t].at \in {"new"} \cup Ended THEN turn[t]
       ELSE [turn[t] EXCEPT !.at = IF Discarding(t) THEN "died_discarding" ELSE "died"]]
  /\ UNCHANGED <<db, left>>

TurnStep(t) ==
  \/ \E tokens \in Drops : Drop(t, tokens)
  \/ AddMessage(t) \/ RefuseMessage(t) \/ Commit(t) \/ StartCopy(t) \/ SourceGone(t)
  \/ Insert(t) \/ InsertFails(t) \/ Build(t) \/ BuildFails(t)

DiscardStep(t) ==
  \/ RemoveCopy(t) \/ InterruptAgain(t) \/ List(t) \/ Delete(t) \/ DeleteFails(t)
  \/ Settle(t) \/ Unlink(t) \/ UnlinkFails(t)

Interrupt(t) ==
  InterruptMessage(t) \/ InterruptCopy(t) \/ InterruptRow(t) \/ InterruptBuild(t)

Next ==
  \/ \E t \in Turns : TurnStep(t) \/ DiscardStep(t) \/ Interrupt(t)
  \/ \E a \in copying : EndCopy(a) \/ CopyFails(a)
  \/ \E a \in index.doing : Index(a)
  \/ Kill

-----------------------------------------------------------------------------

Ats == {"new", "message", "publish", "copy", "copying", "insert", "record",
        "build", "waiting", "list", "delete", "settle", "unlink"} \cup Ended
Copies == Turns \X (1..Cardinality(DOMAIN Files))

\* Every variable keeps its shape.
TypeOK ==
  /\ view \subseteq Copies \cup (Turns \X {0}) /\ db \subseteq Copies \cup (Turns \X {0})
  /\ disk \subseteq Copies /\ copying \subseteq Copies /\ left \subseteq Turns
  /\ \A t \in Turns : /\ turn[t].at \in Ats /\ turn[t].i \in 0..Len(turn[t].files)
                      /\ Range(turn[t].files) \subseteq DOMAIN Files
                      /\ turn[t].found \subseteq Copies
  /\ index.doing \subseteq Copies /\ index.done \subseteq Copies
  /\ troubles \in 0..MaxTroubles

\* A message whose run started has its row, all its attachments' rows and all
\* their copies for good, whatever other turns undo on the same connection and
\* whenever the process dies (base.py:977-1004).
StartedIsWhole ==
  \A t \in Turns : At(t, "started") => RowsOf(t) \subseteq db /\ CopiesOf(t) \subseteq disk

\* A message that was discarded leaves no row and no copy behind, nor one that
\* a thread still makes or another's commit publishes, unless its clean-up
\* was disturbed (attachment_store.py:91-109, 150-165).
DiscardedIsGone ==
  \A t \in Turns : At(t, "gone") /\ t \notin left =>
    (view \cup db \cup disk \cup copying) \cap RowsOf(t) = {}

\* A committed row without its copy belongs to a message on its way out, or one
\* the process died discarding, or whose clean-up was disturbed: no other is
\* replayed without its image, also when the process died with some of the rows
\* written.
RowHasCopy ==
  \A t \in Turns : (db \cap CopiesOf(t)) \ disk # {} =>
    Discarding(t) \/ At(t, "died_discarding") \/ t \in left

\* A message whose storing was itself interrupted leaves no attachment behind:
\* its row may stay, with the markers of files that are nowhere (the INSERT is
\* outside the try: base.py:973-1004).
CutIsBare ==
  \A t \in Turns : At(t, "cut") =>
    (view \cup db \cup disk \cup copying) \cap RowsOf(t) \subseteq {<<t, 0>>}

\* The memory learns of no attachment whose message is not kept
\* (attachment_store.py:73-78, base.py:987-1000).
IndexedIsKept == \A a \in index.doing \cup index.done : At(a[1], "started")

AttachmentsFollowMessage ==
  StartedIsWhole /\ DiscardedIsGone /\ CutIsBare /\ RowHasCopy /\ IndexedIsKept
=============================================================================
