------------------------------ MODULE Onboarding ------------------------------
(***************************************************************************)
(* Setting Feather up: the copy of an old project's state to ~/.feather    *)
(* (setup/migration.py), the first-run wizard (setup/wizard.py), the local *)
(* Qdrant container and the memory marker (cli/commands.py, /qdrant), and  *)
(* /onboard.  One terminal runs `feather' commands that migrate, ask and   *)
(* write, and may be killed at any step; another handles the container.    *)
(* Questions are choices; a key is a name, whatever its value; self_repair *)
(* and web search, which nothing here reads, are left out.                 *)
(***************************************************************************)
EXTENDS Naturals, FiniteSets, Sequences

CONSTANTS
  Providers,  \* providers a key can be given for
  Packaged,   \* active_provider of the packaged app.yaml
  MaxRuns     \* bound: commands of both terminals

VARIABLES
  home,       \* ~/.feather: the files that are there, and who wrote the marker
  env,        \* the keys of ~/.feather/.env
  yaml,       \* ~/.feather/config/app.yaml
  project,    \* the old files of the project, and the migration's breadcrumb
  cmd,        \* the command at the terminal: where it is, and the answers
  container,  \* the Docker container "feather-qdrant"
  docker,     \* the command that handles it, and where it is
  runs        \* commands so far

obvars == <<home, env, yaml, project, cmd, container, docker, runs>>

Keys   == Providers \cup {"gemini"}
Copied == <<"env", "user.md", "onboarded">>   \* what a migration copies, in order
Files  == {"env", "user.md", "onboarded", "app.yaml", "memory"}

\* The packaged app.yaml turns memory on.
Default == [shape |-> "packaged", provider |-> Packaged, memory |-> TRUE]

NoAnswers == [keys |-> {}, provider |-> Packaged, memory |-> FALSE]
Idle      == [at |-> "idle", force |-> FALSE, copying |-> 1, answers |-> NoAnswers]
NoDocker  == [what |-> "none", at |-> "idle"]

Init ==
  /\ home = [files |-> {}, marked |-> "none"] /\ env = {} /\ yaml = Default
  /\ \E files \in SUBSET {"env", "user.md", "onboarded"}, keys \in SUBSET Providers :
       /\ "env" \in files <=> keys # {}
       /\ project = [files |-> files, keys |-> keys, crumb |-> FALSE]
  /\ cmd = Idle /\ container = "absent" /\ docker = NoDocker /\ runs = 0

Goto(at) == cmd' = [cmd EXCEPT !.at = at]
Has(f)   == f \in home.files
AddFile(f) == home' = [home EXCEPT !.files = @ \cup {f}]

-----------------------------------------------------------------------------
(* `feather': migrate, then the wizard unless the marker is there. *)

\* Asked only in a project with old files, and until it leaves a breadcrumb.
Launch(force) ==
  /\ cmd.at = "idle" /\ runs < MaxRuns
  /\ runs' = runs + 1
  /\ cmd' = [Idle EXCEPT !.force = force,
       !.at = IF project.files # {} /\ ~project.crumb THEN "offered" ELSE "gate"]
  /\ UNCHANGED <<home, env, yaml, project, container, docker>>

\* "n", or no terminal to ask: asked again next time; "skip": never again.
Decline(skip) ==
  /\ cmd.at = "offered" /\ Goto("gate")
  /\ project' = [project EXCEPT !.crumb = skip]
  /\ UNCHANGED <<home, env, yaml, container, docker, runs>>

Accept ==
  /\ cmd.at = "offered" /\ Goto("copy")
  /\ UNCHANGED <<home, env, yaml, project, container, docker, runs>>

\* _copy_if_missing: the file, with the keys that have been written of it.
Copy(f, keys) ==
  /\ f \in project.files /\ ~Has(f)
  /\ home' = [home EXCEPT !.files = @ \cup {f},
                          !.marked = IF f = "onboarded" THEN "copied" ELSE @]
  /\ env' = IF f = "env" THEN keys ELSE env

CopyNext ==
  /\ cmd.at = "copy" /\ cmd.copying <= Len(Copied)
  /\ LET f == Copied[cmd.copying] IN
       IF f \in project.files /\ ~Has(f) THEN Copy(f, project.keys)
       ELSE UNCHANGED <<home, env>>
  /\ cmd' = [cmd EXCEPT !.copying = @ + 1]
  /\ UNCHANGED <<yaml, project, container, docker, runs>>

\* Killed in copy2: part of the file is there, and is never copied again.
DieCopying(keys) ==
  /\ cmd.at = "copy" /\ cmd.copying <= Len(Copied) /\ keys \subseteq project.keys
  /\ Copy(Copied[cmd.copying], keys)
  /\ cmd' = Idle
  /\ UNCHANGED <<yaml, project, container, docker, runs>>

Breadcrumb ==
  /\ cmd.at = "copy" /\ cmd.copying > Len(Copied) /\ Goto("gate")
  /\ project' = [project EXCEPT !.crumb = TRUE]
  /\ UNCHANGED <<home, env, yaml, container, docker, runs>>

\* maybe_run_onboarding; `skip' goes on without the wizard.
Gate(skip) ==
  /\ cmd.at = "gate"
  /\ Goto(IF skip \/ (Has("onboarded") /\ ~cmd.force) THEN "app" ELSE "ask")
  /\ UNCHANGED <<home, env, yaml, project, container, docker, runs>>

\* The wizard's questions: memory is on if there is a memory marker, and then
\* a Gemini key is asked for.  Without any provider it gives up.
Answer(wired, provider) ==
  /\ cmd.at = "ask" /\ provider \in wired
  /\ cmd' = [cmd EXCEPT !.at = "env",
       !.answers = [keys |-> wired \cup IF Has("memory") THEN {"gemini"} ELSE {},
                    provider |-> provider, memory |-> Has("memory")]]
  /\ UNCHANGED <<home, env, yaml, project, container, docker, runs>>

NoProvider ==
  /\ cmd.at = "ask" /\ cmd' = Idle
  /\ UNCHANGED <<home, env, yaml, project, container, docker, runs>>

\* A file with the answers only.
WriteEnvAnew ==
  /\ cmd.at = "env" /\ Goto("profile")
  /\ env' = cmd.answers.keys /\ AddFile("env")
  /\ UNCHANGED <<yaml, project, container, docker, runs>>

\* write_env_file: keys are added or overwritten, never taken away.
WriteEnv ==
  /\ cmd.at = "env" /\ Goto("profile")
  /\ env' = env \cup cmd.answers.keys /\ AddFile("env")
  /\ UNCHANGED <<yaml, project, container, docker, runs>>

WriteProfile ==
  /\ cmd.at = "profile" /\ Goto("stage") /\ AddFile("user.md")
  /\ UNCHANGED <<env, yaml, project, container, docker, runs>>

\* The packaged app.yaml, for the toggles to have lines to rewrite.
StageYaml ==
  /\ cmd.at = "stage" /\ Goto("toggle") /\ AddFile("app.yaml")
  /\ yaml' = IF Has("app.yaml") THEN yaml ELSE Default
  /\ UNCHANGED <<env, project, container, docker, runs>>

\* Killed while it is written: the part that is there counts as the file.
DieStaging ==
  /\ cmd.at = "stage" /\ ~Has("app.yaml") /\ AddFile("app.yaml")
  /\ yaml' = [Default EXCEPT !.shape = "torn"] /\ cmd' = Idle
  /\ UNCHANGED <<env, project, container, docker, runs>>

\* A file of another shape is left as it is, with a warning in the log.
ToggleYaml ==
  /\ cmd.at = "toggle" /\ Goto("marker")
  /\ yaml' = IF yaml.shape = "packaged"
             THEN [yaml EXCEPT !.provider = cmd.answers.provider,
                               !.memory = cmd.answers.memory]
             ELSE yaml
  /\ UNCHANGED <<home, env, project, container, docker, runs>>

\* The completion marker, last; then the application.
MarkOnboarded ==
  /\ cmd.at = "marker" /\ Goto("app")
  /\ home' = [files |-> home.files \cup {"onboarded"}, marked |-> "wizard"]
  /\ UNCHANGED <<env, yaml, project, container, docker, runs>>

\* Killed, or interrupted at a question.
Die ==
  /\ cmd.at # "idle" /\ cmd' = Idle
  /\ UNCHANGED <<home, env, yaml, project, container, docker, runs>>

-----------------------------------------------------------------------------
(* In the application. *)

\* /onboard clears the project's markers and leaves.
CmdOnboard ==
  /\ cmd.at = "app" /\ cmd' = Idle
  /\ project' = [project EXCEPT !.files = @ \ {"onboarded", "user.md"}]
  /\ UNCHANGED <<home, env, yaml, container, docker, runs>>

\* A setting saved before there is an app.yaml: a file with that key only.
SaveSetting ==
  /\ cmd.at = "app" /\ ~Has("app.yaml") /\ AddFile("app.yaml")
  /\ yaml' = [Default EXCEPT !.shape = "sparse"]
  /\ UNCHANGED <<env, project, cmd, container, docker, runs>>

-----------------------------------------------------------------------------
(* The container: init-memory, stop-memory, remove-memory from a shell;    *)
(* /qdrant start, stop and remove, which leave the marker alone.           *)

Slash    == {"/start", "/stop", "/remove"}
Commands == {"init", "stop", "remove"} \cup Slash

\* init-memory has nothing to do when the marker is there and Qdrant runs.
Begin(what) ==
  /\ docker = NoDocker /\ runs < MaxRuns /\ runs' = runs + 1
  /\ what = "init" => ~(Has("memory") /\ container = "running")
  /\ what \in {"stop", "/stop"} => container = "running"
  /\ docker' = [what |-> what, at |-> "docker"]
  /\ UNCHANGED <<home, env, yaml, project, cmd, container>>

\* Docker is not there; one of its commands or the readiness check fails; or
\* the command is killed.
DockerFails ==
  /\ docker.at # "idle" /\ docker' = NoDocker
  /\ UNCHANGED <<home, env, yaml, project, cmd, container, runs>>

\* ensure_local_qdrant_container; then it must answer.
Up ==
  /\ docker.at = "docker" /\ docker.what \in {"init", "/start"}
  /\ container' = "running" /\ docker' = [docker EXCEPT !.at = "ready"]
  /\ UNCHANGED <<home, env, yaml, project, cmd, runs>>

Ready ==
  /\ docker.at = "ready" /\ docker' = NoDocker
  /\ IF docker.what = "init" THEN AddFile("memory") ELSE UNCHANGED home
  /\ UNCHANGED <<env, yaml, project, cmd, container, runs>>

Stop ==
  /\ docker.at = "docker" /\ docker.what \in {"stop", "/stop"}
  /\ container' = "stopped" /\ docker' = NoDocker
  /\ UNCHANGED <<home, env, yaml, project, cmd, runs>>

\* docker stop, if it runs; docker rm; remove-memory then deletes the marker.
StopFirst ==
  /\ docker.at = "docker" /\ docker.what \in {"remove", "/remove"} /\ container = "running"
  /\ container' = "stopped"
  /\ UNCHANGED <<home, env, yaml, project, cmd, docker, runs>>

Remove ==
  /\ docker.at = "docker" /\ docker.what \in {"remove", "/remove"} /\ container # "running"
  /\ container' = "absent"
  /\ docker' = IF docker.what \in Slash THEN NoDocker ELSE [docker EXCEPT !.at = "unlink"]
  /\ UNCHANGED <<home, env, yaml, project, cmd, runs>>

Unlink ==
  /\ docker.at = "unlink" /\ docker' = NoDocker
  /\ home' = [home EXCEPT !.files = @ \ {"memory"}]
  /\ UNCHANGED <<env, yaml, project, cmd, container, runs>>

Next ==
  \/ \E force \in BOOLEAN : Launch(force)
  \/ \E b \in BOOLEAN : Decline(b) \/ Gate(b)
  \/ Accept \/ CopyNext \/ Breadcrumb
  \/ \E keys \in SUBSET Providers : DieCopying(keys)
  \/ \E wired \in SUBSET Providers, provider \in Providers : Answer(wired, provider)
  \/ NoProvider \/ WriteEnv \/ WriteProfile \/ StageYaml \/ DieStaging \/ ToggleYaml
  \/ MarkOnboarded \/ Die \/ CmdOnboard \/ SaveSetting
  \/ \E what \in Commands : Begin(what)
  \/ DockerFails \/ Up \/ Ready \/ Stop \/ StopFirst \/ Remove \/ Unlink

Spec == Init /\ [][Next]_obvars

-----------------------------------------------------------------------------
(* Every variable keeps its shape (wizard.py:865-943). *)
TypeOK ==
  /\ home.files \subseteq Files /\ home.marked \in {"none", "copied", "wizard"}
  /\ env \subseteq Keys /\ yaml.provider \in Providers
  /\ project.files \subseteq Files /\ project.keys \subseteq Providers
  /\ container \in {"absent", "stopped", "running"}

\* Once a wizard has completed, the provider agents are routed to has its key,
\* and memory its own, whatever was killed, copied, run again or switched off
\* since (wizard.py:865-943): keys are written before what refers to them, the
\* marker after both.  Only where the toggles find their lines: otherwise they
\* say so in the log.
SetUpIsUsable ==
  home.marked = "wizard" /\ yaml.shape = "packaged" =>
    /\ yaml.provider \in env
    /\ yaml.memory => "gemini" \in env
=============================================================================
