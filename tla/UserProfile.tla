----------------------------- MODULE UserProfile ------------------------------
(***************************************************************************)
(* The user's profile, ~/.feather/user.md (storage/user_profile.py, the    *)
(* user_info tool): each process has a store with a lock and a cache of    *)
(* the file; a change reads the file in a thread, writes user.md.tmp and   *)
(* renames it.  Interrupting a run lets go of the lock while the thread    *)
(* goes on.  The file is the set of the changes in it.                     *)
(***************************************************************************)
EXTENDS Naturals, FiniteSets

CONSTANTS
  Stores,    \* processes: the lead's, sub-agents'
  Calls,     \* calls of the tool, each a change of its own
  StoreOf    \* the process of each

VARIABLES
  file,        \* user.md: the changes in it, and its (mtime, size)
  tmp,         \* user.md.tmp: changes, or Gone
  cache,       \* UserProfileStore._cache
  lock,        \* UserProfileStore._lock: the call that holds it
  call,        \* each call: where it is, what it has of the file
  acked,       \* the changes the model was told of
  overlapped   \* a thread met another that its store's lock does not cover

upvars == <<file, tmp, cache, lock, call, acked, overlapped>>

Free    == "free"
Gone    == {"gone"}
NoCache == [key |-> 0, text |-> {}]
Thread  == {"stat", "read", "mutate", "rename"}   \* where a thread is at work

Init ==
  /\ file = [key |-> 1, text |-> {}] /\ tmp = Gone
  /\ cache = [s \in Stores |-> NoCache] /\ lock = [s \in Stores |-> Free]
  /\ call = [c \in Calls |-> [at |-> "new", key |-> 0, text |-> {}, waited |-> TRUE]]
  /\ acked = {} /\ overlapped = FALSE

Goto(c, at) == call' = [call EXCEPT ![c].at = at]
Release(c)  == lock' = [s \in Stores |-> IF lock[s] = c THEN Free ELSE lock[s]]
Working     == {c \in Calls : call[c].at \in Thread}

-----------------------------------------------------------------------------

\* create, update, delete, append_note: the lock, then a thread.
Begin(c) ==
  /\ call[c].at = "new" /\ lock[StoreOf[c]] = Free
  /\ lock' = [lock EXCEPT ![StoreOf[c]] = c]
  /\ Goto(c, "stat")
  /\ overlapped' = (overlapped \/ \E x \in Working : StoreOf[x] # StoreOf[c] \/ ~call[x].waited)
  /\ UNCHANGED <<file, tmp, cache, acked>>

\* load(): the cache if it is of this file, otherwise the text.
Stat(c) ==
  LET have == cache[StoreOf[c]] IN
  /\ call[c].at = "stat"
  /\ call' = [call EXCEPT ![c].at = IF have.key = file.key THEN "mutate" ELSE "read",
                          ![c].key = file.key, ![c].text = have.text]
  /\ UNCHANGED <<file, tmp, cache, lock, acked, overlapped>>

Read(c) ==
  /\ call[c].at = "read"
  /\ call' = [call EXCEPT ![c].at = "mutate", ![c].text = file.text]
  /\ cache' = [cache EXCEPT ![StoreOf[c]] = [key |-> call[c].key, text |-> file.text]]
  /\ UNCHANGED <<file, tmp, lock, acked, overlapped>>

\* The field exists already, or does not; a reserved name; too long.
Refused(c) ==
  /\ call[c].at = "mutate" /\ Goto(c, "done") /\ Release(c)
  /\ UNCHANGED <<file, tmp, cache, acked, overlapped>>

WriteTmp(c) ==
  /\ call[c].at = "mutate" /\ Goto(c, "rename")
  /\ tmp' = call[c].text \cup {c}
  /\ UNCHANGED <<file, cache, lock, acked, overlapped>>

\* os.replace; no cache; the tool's answer, if anyone waits for it.
Rename(c) ==
  /\ call[c].at = "rename" /\ Goto(c, "done") /\ Release(c)
  /\ IF tmp = Gone THEN UNCHANGED <<file, tmp, cache, acked>>
     ELSE /\ file' = [key |-> file.key + 1, text |-> tmp] /\ tmp' = Gone
          /\ cache' = [cache EXCEPT ![StoreOf[c]] = NoCache]
          /\ acked' = IF call[c].waited THEN acked \cup {c} ELSE acked
  /\ UNCHANGED overlapped

\* The run is interrupted: the coroutine lets go, the thread goes on.
Interrupt(c) ==
  /\ call[c].at \in Thread /\ call[c].waited
  /\ call' = [call EXCEPT ![c].waited = FALSE] /\ Release(c)
  /\ UNCHANGED <<file, tmp, cache, acked, overlapped>>

Next ==
  \E c \in Calls :
    Begin(c) \/ Stat(c) \/ Read(c) \/ Refused(c) \/ WriteTmp(c) \/ Rename(c) \/ Interrupt(c)

Spec == Init /\ [][Next]_upvars

-----------------------------------------------------------------------------
(* Every variable keeps its shape (user_profile.py:80-93). *)
TypeOK ==
  /\ file.text \subseteq Calls /\ acked \subseteq Calls
  /\ \A s \in Stores : lock[s] \in Calls \cup {Free}

\* A change the model was told is made stays in the profile, unless a thread
\* left behind by an interrupt, or another process, was at the file at the same
\* time (user_profile.py:149-241).
ToldIsKept == ~overlapped => acked \subseteq file.text
=============================================================================
