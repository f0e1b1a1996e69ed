------------------------------ MODULE LogTriage -------------------------------
(***************************************************************************)
(* The log triage bot (core/log_triage_bot.py): a loop that reads the tail *)
(* of the log, picks the errors it has not reported and posts a summary to *)
(* the lead's mailbox.  An error is its fingerprint, a number: fingerprints*)
(* sort by second and text, and the log is not written in that order.      *)
(***************************************************************************)
EXTENDS Naturals, Sequences, FiniteSetsExt

CONSTANTS
  Errors,       \* fingerprints, as numbers
  MaxLog,       \* bound: errors written
  MaxLogs,      \* bound: log files
  TailErrors,   \* _tail_bytes: errors the read reaches back
  PerSummary,   \* _max_per_summary
  DedupCap      \* maxlen of _reported

VARIABLES
  log,      \* the file: its number (inode) and its errors; errors written
  bot,      \* _high_water, _reported and _last_inode
  scan,     \* where run_once is, and what it has read
  shown,    \* how many summaries of this bot have listed each error of a file
  raced     \* it read a file that was rotated after the read's stat

ltvars == <<log, bot, scan, shown, raced>>

None    == 0
Fresh   == [high |-> None, reported |-> <<>>, inode |-> None]
Waiting == [at |-> "wait", new |-> <<>>, file |-> None]
Nothing == [f \in 1..MaxLogs |-> [e \in Errors |-> 0]]

Init ==
  /\ log = [file |-> 1, errors |-> <<>>, written |-> 0]
  /\ bot = Fresh /\ scan = Waiting /\ shown = Nothing /\ raced = FALSE

\* The last n of a sequence; the first n.
Ending(s, n)    == SubSeq(s, IF Len(s) > n THEN Len(s) - n + 1 ELSE 1, Len(s))
Beginning(s, n) == SubSeq(s, 1, IF Len(s) > n THEN n ELSE Len(s))

-----------------------------------------------------------------------------

Write(e) ==
  /\ log.written < MaxLog
  /\ log' = [log EXCEPT !.errors = Append(@, e), !.written = @ + 1]
  /\ UNCHANGED <<bot, scan, shown, raced>>

\* logrotate; a read that has its stat opens another file than it looked at.
Rotate ==
  /\ log.file < MaxLogs
  /\ log' = [log EXCEPT !.file = @ + 1, !.errors = <<>>]
  /\ raced' = (raced \/ scan.at = "open")
  /\ UNCHANGED <<bot, scan, shown>>

\* A tick; _read_tail forgets what it reported of another inode.
Stat ==
  /\ scan.at = "wait"
  /\ bot' = [IF bot.inode \notin {None, log.file} THEN Fresh ELSE bot
             EXCEPT !.inode = log.file]
  /\ scan' = [scan EXCEPT !.at = "open"]
  /\ UNCHANGED <<log, shown, raced>>

\* Not among the last ones reported, and past the high-water mark.
IsNew(e) == e \notin Range(bot.reported) /\ (bot.high = None \/ e > bot.high)

\* What is new in a tail, in its order.
NewIn(errors) ==
  LET new[i \in 0..Len(errors)] ==
        IF i = 0 THEN <<>>
        ELSE IF IsNew(errors[i]) THEN Append(new[i - 1], errors[i]) ELSE new[i - 1]
  IN new[Len(errors)]

Open ==
  /\ scan.at = "open"
  /\ LET new == NewIn(Ending(log.errors, TailErrors)) IN
     scan' = IF new = <<>> THEN Waiting ELSE [at |-> "post", new |-> new, file |-> log.file]
  /\ UNCHANGED <<log, bot, shown, raced>>

\* The mark of the last error of a summary; of the largest.
MarkLast(new) == new[Len(new)]

Mark(new) == Max({bot.high} \cup Range(new))

\* _remember: every new error, also those the summary had no room for.
Remember(new) ==
  LET reported[i \in 0..Len(new)] ==
        IF i = 0 THEN bot.reported
        ELSE IF new[i] \in Range(reported[i - 1]) THEN reported[i - 1]
        ELSE Ending(Append(reported[i - 1], new[i]), DedupCap)
  IN bot' = [bot EXCEPT !.high = Mark(new), !.reported = reported[Len(new)]]

\* _post_summary, to the lead's mailbox.
Post ==
  /\ scan.at = "post" /\ scan' = Waiting /\ Remember(scan.new)
  /\ shown' = [shown EXCEPT ![scan.file] =
       [e \in Errors |-> IF e \in Range(Beginning(scan.new, PerSummary)) THEN @[e] + 1 ELSE @[e]]]
  /\ UNCHANGED <<log, raced>>

\* send raises: nothing is remembered, the next tick finds the errors again.
PostFails ==
  /\ scan.at = "post" /\ scan' = Waiting
  /\ UNCHANGED <<log, bot, shown, raced>>

\* The TUI is launched again: a new bot starts from scratch, whatever the last
\* one was doing.
Relaunch ==
  /\ <<bot, scan>> # <<Fresh, Waiting>>
  /\ bot' = Fresh /\ scan' = Waiting /\ shown' = Nothing /\ raced' = FALSE
  /\ UNCHANGED log

Next == Relaunch \/ (\E e \in Errors : Write(e)) \/ Rotate \/ Stat \/ Open \/ Post \/ PostFails

Spec == Init /\ [][Next]_ltvars

-----------------------------------------------------------------------------
(* Every variable keeps its shape (log_triage_bot.py:109-148). *)
TypeOK ==
  /\ Range(bot.reported) \subseteq Errors /\ Len(bot.reported) <= DedupCap
  /\ bot.high \in Errors \cup {None} /\ scan.at \in {"wait", "open", "post"}

\* No error of a log file is in two summaries of one bot, whatever order the log
\* was written in, however little the bot remembers, and though a summary that
\* could not be sent is made again; unless the log was rotated between a read's
\* stat and its open.  A bot launched later reports from scratch, as the module
\* says of it (log_triage_bot.py:23-26, 124-135).
ReportedOnce == ~raced => \A f \in 1..MaxLogs, e \in Errors : shown[f][e] <= 1
=============================================================================
