----------------------------- MODULE ConfigChange -----------------------------
(***************************************************************************)
(* A setting on its way from /config or the modal to the agent that uses   *)
(* it (config/*.py, tui/config_screen.py, FeatherRuntime.apply_config_change, *)
(* WorkerCore._handle_reload_config).  A field of each kind: `model' and   *)
(* `limit' of app.yaml, NEXT_TURN and LIVE, and `agent' of an agent's YAML. *)
(* The lead runs in the TUI's process or in a worker.  Values are "p", the *)
(* packaged one, another, and one that is valid but that no provider can   *)
(* be built with; rejected values and RESTART_ fields change nothing here. *)
(***************************************************************************)
EXTENDS Naturals, Sequences, FiniteSets

CONSTANTS
  MaxWrites,  \* bound: writes of a file, and applies
  MaxDirty    \* bound: dirty fields of the modal

VARIABLES
  inWorker,  \* the lead runs in a worker
  files,     \* app.yaml and the agent's YAML, of the project and of the user
  proc,      \* proc[x]: a process's _app_config, its agent
  saving,    \* the modal's apply is in flight
  applies,   \* apply_config_change calls, in the order they were asked for
  writes     \* writes so far

cvars == <<inWorker, files, proc, saving, applies, writes>>

Fields  == {"model", "limit", "agent"}
Values  == {"a", "broken"}
None    == "none"
Takes(f) == IF f = "model" THEN Values ELSE {"a"}
Scopes  == {"project", "global"}
Inherit == "inherit"   \* the modal's choice that removes the key
Procs   == {"tui", "worker"}

FileOf(f) == IF f = "agent" THEN "agent" ELSE "app"
Reload(f) == IF f = "limit" THEN "live" ELSE "next turn"

\* `full' is false for a file made by writing one key.
Absent   == [there |-> FALSE, full |-> FALSE, val |-> [f \in Fields |-> None]]
Packaged == [there |-> TRUE, full |-> TRUE, val |-> [f \in Fields |-> "p"]]

-----------------------------------------------------------------------------
(* Reading. *)

Over(base, overlay, f) ==
  IF overlay.there /\ overlay.val[f] # None THEN overlay.val[f]
  ELSE IF base.val[f] = None THEN "p" ELSE base.val[f]

\* The project's app.yaml, or the packaged one, is the base; the user's is
\* merged over it.  A base that lacks its sections cannot be read.
AppBase(fs)  == IF fs.app.project.there THEN fs.app.project ELSE Packaged
AppLoads(fs) == AppBase(fs).full
AppConfig(fs) ==
  [f \in {"model", "limit"} |-> Over(AppBase(fs), fs.app.global, f)]

\* load_agent_config as AgentFactory.build calls it, without `paths': the
\* user's overlay is not read.
AgentLoads(fs) == fs.agent.project.there => fs.agent.project.full
AgentBuilt(fs) ==
  Over(IF fs.agent.project.there THEN fs.agent.project ELSE Packaged, Absent, "agent")

-----------------------------------------------------------------------------
(* Writing. *)

\* write_yaml_value makes the file it does not find; `full' stays what it was.
Written(fs, f, v, scope) ==
  [fs EXCEPT ![FileOf(f)][scope].there = TRUE, ![FileOf(f)][scope].val[f] = v]

\* delete_yaml_value: a file that is not there stays so.
Deleted(fs, f, scope) == [fs EXCEPT ![FileOf(f)][scope].val[f] = None]

-----------------------------------------------------------------------------
(* A process's configuration: loaded, and what its agent was built with. *)

\* `seen': the write it was loaded after.
Load(x) ==
  [x EXCEPT !.config = AppConfig(files), !.seen = writes]

Buildable(x) == x.config["model"] # "broken"
Rebuilt(x) ==
  [x EXCEPT !.agent = [model |-> x.config["model"], agent |-> AgentBuilt(files)]]

Fresh ==
  [config |-> AppConfig(files), seen |-> writes,
   agent |-> [model |-> AppConfig(files)["model"], agent |-> AgentBuilt(files)]]

Init ==
  /\ inWorker \in BOOLEAN
  /\ \E staged \in BOOLEAN :
       files = [file \in {"app", "agent"} |->
         [project |-> IF staged THEN Packaged ELSE Absent, global |-> Absent]]
  /\ writes = 0
  /\ proc = [x \in Procs |->
       [config |-> [f \in {"model", "limit"} |-> "p"], seen |-> 0,
        agent |-> [model |-> "p", agent |-> "p"]]]
  /\ saving = FALSE
  /\ applies = <<>>

\* A write, and the apply asked for with it.
Ask(paths, modal) ==
  applies' = Append(applies, [paths |-> paths, after |-> writes + 1, at |-> "asked",
                              applied |-> FALSE, modal |-> modal])

-----------------------------------------------------------------------------
(* /config set, /config reset, PUT /config. *)

Set(f, v, scope) ==
  /\ writes < MaxWrites
  /\ files' = Written(files, f, v, scope)
  /\ writes' = writes + 1 /\ Ask({f}, FALSE)
  /\ UNCHANGED <<inWorker, proc, saving>>

Reset(f, scope) ==
  /\ writes < MaxWrites
  /\ files' = Deleted(files, f, scope)
  /\ writes' = writes + 1 /\ Ask({f}, FALSE)
  /\ UNCHANGED <<inWorker, proc, saving>>

-----------------------------------------------------------------------------
(* ConfigScreen. *)

\* Every dirty field is written for the user, those that cannot be stay dirty;
\* one apply for the ones that were, of which there is one at a time.
Save(saved, choice) ==
  /\ ~saving /\ writes < MaxWrites
  /\ saving' = TRUE
  /\ files' = [file \in {"app", "agent"} |->
       LET here == {f \in saved : FileOf(f) = file} IN
       [files[file] EXCEPT !.global =
          [@ EXCEPT !.there = @ \/ \E f \in here : choice[f] # Inherit,
                    !.val = [f \in Fields |->
                      IF f \notin here THEN @[f]
                      ELSE IF choice[f] = Inherit THEN None ELSE choice[f]]]]]
  /\ writes' = writes + 1 /\ Ask(saved, TRUE)
  /\ UNCHANGED <<inWorker, proc>>

\* action_reset removes the user's key and applies nothing.
ScreenReset(f) ==
  /\ writes < MaxWrites
  /\ files' = Deleted(files, f, "global")
  /\ writes' = writes + 1
  /\ UNCHANGED <<inWorker, proc, saving, applies>>

-----------------------------------------------------------------------------
(* apply_config_change. *)

Ended(a, applied) ==
  /\ applies' = [applies EXCEPT ![a].at = "done", ![a].applied = applied]
  /\ saving' = (saving /\ ~applies[a].modal)

Lead == IF inWorker THEN "worker" ELSE "tui"

NextTurnAll(a) == \A f \in applies[a].paths : Reload(f) = "next turn"

NextTurn(a) == \E f \in applies[a].paths : Reload(f) = "next turn"

\* In the TUI's process, without an await: the configuration, then the agent,
\* if that is where it is.  An error leaves what was done so far.
ApplyHere(a) ==
  LET x == Load(proc["tui"])
      rebuilds == NextTurn(a) /\ ~inWorker
  IN
  /\ applies[a].at = "asked"
  /\ IF ~AppLoads(files) \/ (rebuilds /\ ~(Buildable(x) /\ AgentLoads(files)))
     THEN /\ Ended(a, FALSE)
          /\ proc' = [proc EXCEPT !["tui"] =
               IF AppLoads(files) THEN x ELSE @]
     ELSE /\ proc' = [proc EXCEPT !["tui"] = IF rebuilds THEN Rebuilt(x) ELSE x]
          /\ IF inWorker
             THEN applies' = [applies EXCEPT ![a].at = "worker"] /\ UNCHANGED saving
             ELSE Ended(a, TRUE)
  /\ UNCHANGED <<inWorker, files, writes>>

\* _handle_reload_config: load, build for trial against the factory as it is,
\* rebuild; on an error the configuration is put back.
WorkerReloads(a) ==
  LET x == Load(proc["worker"])
      ok == AppLoads(files) /\ (NextTurn(a) => AgentLoads(files) /\ Buildable(x))
  IN [ok |-> ok,
      proc |-> IF ok THEN IF NextTurn(a) THEN Rebuilt(x) ELSE x ELSE proc["worker"]]

EndedWithAck(a, ok) == Ended(a, ok)

\* The worker's turn to answer; it answers an apply that has given up as well.
ApplyInWorker(a) ==
  LET w == WorkerReloads(a) IN
  /\ applies[a].at \in {"worker", "late"}
  /\ proc' = [proc EXCEPT !["worker"] = w.proc]
  /\ IF applies[a].at = "worker" THEN EndedWithAck(a, w.ok)
     ELSE applies' = [applies EXCEPT ![a].at = "done"] /\ UNCHANGED saving
  /\ UNCHANGED <<inWorker, files, writes>>

\* No ack in time, or no worker to ask.
GivesUp(a) ==
  /\ applies[a].at = "worker"
  /\ applies' = [applies EXCEPT ![a].at = "late"]
  /\ saving' = (saving /\ ~applies[a].modal)
  /\ UNCHANGED <<inWorker, files, proc, writes>>

\* /restart-lead: a new worker, if what is stored can be loaded and built.
RestartLead ==
  /\ inWorker /\ proc["worker"].seen < writes
  /\ AppLoads(files) /\ AgentLoads(files) /\ AppConfig(files)["model"] # "broken"
  /\ proc' = [proc EXCEPT !["worker"] = Fresh]
  /\ applies' = [a \in DOMAIN applies |->
       IF applies[a].at = "late" THEN [applies[a] EXCEPT !.at = "done"] ELSE applies[a]]
  /\ UNCHANGED <<inWorker, files, saving, writes>>

Next ==
  \/ \E f \in Fields, scope \in Scopes :
       \/ Reset(f, scope)
       \/ \E v \in Takes(f) : Set(f, v, scope)
  \/ \E f \in Fields : ScreenReset(f)
  \/ \E saved \in SUBSET Fields \ {{}} :
       \E choice \in [saved -> Values \cup {Inherit}] :
         /\ Cardinality(saved) <= MaxDirty
         /\ \A f \in saved : choice[f] \in Takes(f) \cup {Inherit}
         /\ Save(saved, choice)
  \/ RestartLead
  \/ \E a \in DOMAIN applies : ApplyHere(a) \/ ApplyInWorker(a) \/ GivesUp(a)

Spec == Init /\ [][Next]_cvars

-----------------------------------------------------------------------------
(* Every variable keeps its shape (service.py:28-75). *)
TypeOK ==
  /\ \A file \in {"app", "agent"}, scope \in Scopes :
       files[file][scope].val \in [Fields -> Values \cup {None, "p"}]
  /\ \A x \in Procs : proc[x].config \in [{"model", "limit"} -> Values \cup {"p"}]
  /\ saving \in BOOLEAN
  /\ Len(applies) <= writes /\ writes \in 0..MaxWrites

\* A change reported as applied has been read by the TUI and, when the lead
\* runs in a worker, by the worker, however applies, saves, restarts and late
\* answers interleave (root.py:619-690).
AppliedWasRead ==
  \A a \in DOMAIN applies : applies[a].applied =>
    \A x \in IF inWorker THEN Procs ELSE {"tui"} : proc[x].seen >= applies[a].after

\* Once the last change of the model is reported as applied, the lead's agent
\* runs on the model the files say, also when it was saved together with a
\* field of another class or an earlier reload failed (root.py:626-650).
AppliedIsInUse ==
  \A a \in DOMAIN applies :
    applies[a].applied /\ applies[a].after = writes /\ "model" \in applies[a].paths
    => proc[Lead].agent["model"] = AppConfig(files)["model"]
=============================================================================
