----------------------------- MODULE ConfigScreen -----------------------------
(***************************************************************************)
(* The configuration modal (tui/config_screen.py): the one inline editor,  *)
(* the edits not yet saved, and the model a field is gated by              *)
(* (config/model_catalog.py).  A field of each kind is kept, and the       *)
(* cursor is on any of them: it moves freely, also while an editor is      *)
(* open.  What is rendered is left out.  What an apply does once it is     *)
(* asked for is ConfigChange's.                                            *)
(***************************************************************************)
EXTENDS Naturals, Sequences, FiniteSets

CONSTANTS
  MaxEdits,   \* bound: values submitted to an editor
  MaxErrors   \* bound: fields a save could not write

VARIABLES
  project,  \* the project's file sets the agent's provider
  stored,   \* the user's overlay: stored[f], None where it has no key
  dirty,    \* ConfigScreen._dirty, None where a field has no edit
  editor,   \* _pending_edit and what its inline editor offers
  flags,    \* _confirm_close, _self_repair_confirmed, _apply_in_flight; open
  edits     \* edits and errors so far

cfvars == <<project, stored, dirty, editor, flags, edits>>

None    == "none"
Inherit == "(inherit)"

Fields == {"active", "openai.model", "claude.model", "agent.provider",
           "agent.model", "agent.temperature", "self_repair"}

Providers == {"openai", "claude"}
AppModel(p) == IF p = "openai" THEN "openai.model" ELSE "claude.model"

\* The catalog: two models of a provider, the second without a temperature.
SlugsFor(p) == IF p = "openai" THEN {"gpt", "gpt-thinking"} ELSE {"opus", "opus-thinking"}
TakesTemperature(m) == m \in {"gpt", "opus"}

Default(f) == CASE f = "active" -> "openai"
                [] f = "openai.model" -> "gpt"
                [] f = "claude.model" -> "opus"
                [] OTHER -> None

-----------------------------------------------------------------------------
(* What a field is worth: ConfigService.get, and the edits over it. *)

Get(f, s) ==
  IF f = "agent.provider" /\ project THEN "claude"
  ELSE IF s[f] # None THEN s[f] ELSE Default(f)

\* _active_provider_fallback reads what is stored, not an edit of it.
ActiveProvider(s) == Get("active", s)

\* An edit; "(inherit)" bypasses what is stored; what is stored; the default.
AgentProvider(d, s) ==
  IF d["agent.provider"] = Inherit THEN ActiveProvider(s)
  ELSE IF d["agent.provider"] # None THEN d["agent.provider"]
  ELSE IF Get("agent.provider", s) # None THEN Get("agent.provider", s)
  ELSE ActiveProvider(s)

AppModelOf(p, d, s) ==
  IF d[AppModel(p)] # None THEN d[AppModel(p)] ELSE Get(AppModel(p), s)

AgentModel(d, s) ==
  LET default == AppModelOf(AgentProvider(d, s), d, s) IN
  IF d["agent.model"] = Inherit THEN default
  ELSE IF d["agent.model"] # None THEN d["agent.model"]
  ELSE IF Get("agent.model", s) # None THEN Get("agent.model", s)
  ELSE default

\* A model the catalog does not have for the provider gates nothing.
CanEdit(f, d, s) ==
  f = "agent.temperature" =>
    \/ AgentModel(d, s) \notin SlugsFor(AgentProvider(d, s))
    \/ TakesTemperature(AgentModel(d, s))

\* What the editor of a field offers.
Choices(f, d, s) ==
  CASE f = "active" -> Providers
    [] f = "agent.provider" -> Providers \cup {Inherit}
    [] f = "openai.model" -> SlugsFor("openai")
    [] f = "claude.model" -> SlugsFor("claude")
    [] f = "agent.model" -> SlugsFor(AgentProvider(d, s)) \cup {Inherit}
    [] f \in {"agent.temperature", "self_repair"} -> {"set"}

-----------------------------------------------------------------------------

NoEdits == [f \in Fields |-> None]
Closed  == [field |-> None, offers |-> {}]
Shown   == [confirm |-> FALSE, repair |-> FALSE, applying |-> FALSE, open |-> TRUE]

Init ==
  /\ project \in BOOLEAN
  /\ stored = NoEdits /\ dirty = NoEdits
  /\ editor = Closed /\ flags = Shown
  /\ edits = [made |-> 0, errors |-> 0]

IsDirty == \E f \in Fields : dirty[f] # None

\* A picker lets keys that are not its own through; a text input takes them.
Key == flags.open /\ editor.field # "agent.temperature"

\* A key other than Esc: the next Esc asks again.
OtherKey ==
  /\ Key /\ flags.confirm /\ flags' = [flags EXCEPT !.confirm = FALSE]
  /\ UNCHANGED <<project, stored, dirty, editor, edits>>

\* Refused for a field the model does not take, and while one is open.
EditField(f) ==
  /\ flags.open /\ editor = Closed /\ CanEdit(f, dirty, stored)
  /\ editor' = [field |-> f, offers |-> Choices(f, dirty, stored)]
  /\ flags' = [flags EXCEPT !.confirm = FALSE]
  /\ UNCHANGED <<project, stored, dirty, edits>>

\* Submitted and valid: the field the editor was opened for takes it.
Submit(v) ==
  /\ flags.open /\ v \in editor.offers /\ edits.made < MaxEdits
  /\ dirty' = [dirty EXCEPT ![editor.field] = v]
  /\ edits' = [edits EXCEPT !.made = @ + 1]
  /\ editor' = Closed
  /\ UNCHANGED <<project, stored, flags>>

Invalid ==
  /\ flags.open /\ editor # Closed /\ editor' = Closed
  /\ UNCHANGED <<project, stored, dirty, flags, edits>>

\* The edits, written: the field's key, or no key.
Applied(d, s, fs) ==
  [f \in Fields |-> IF f \notin fs \/ d[f] = None THEN s[f]
                    ELSE IF d[f] = Inherit THEN None ELSE d[f]]

\* Every edit that can be written is, and is an edit no more.
Write(failed, confirmed) ==
  /\ Key /\ IsDirty /\ ~flags.applying
  /\ dirty["self_repair"] # None => confirmed
  /\ edits.errors + Cardinality(failed) <= MaxErrors
  /\ stored' = Applied(dirty, stored, Fields \ failed)
  /\ dirty' = [f \in Fields |-> IF f \in failed THEN dirty[f] ELSE None]
  /\ edits' = [edits EXCEPT !.errors = @ + Cardinality(failed)]
  /\ flags' = [flags EXCEPT !.confirm = FALSE, !.repair = confirmed,
       !.applying = \E f \in Fields \ ({"self_repair"} \cup failed) : dirty[f] # None]
  /\ UNCHANGED <<project, editor>>

\* s; and y, which confirms for as long as the modal is open, and saves.
Save(failed)           == Write(failed, flags.repair)
ConfirmAndSave(failed) == ~flags.repair /\ Write(failed, TRUE)

\* y when there is nothing to save, or an apply to wait for.
ConfirmAhead ==
  /\ Key /\ ~flags.repair /\ (flags.applying \/ ~IsDirty)
  /\ flags' = [flags EXCEPT !.repair = TRUE, !.confirm = FALSE]
  /\ UNCHANGED <<project, stored, dirty, editor, edits>>

ApplyEnds ==
  /\ flags.applying /\ flags' = [flags EXCEPT !.applying = FALSE]
  /\ UNCHANGED <<project, stored, dirty, editor, edits>>

\* r: the field's edit and its key.
ResetField(f) ==
  /\ Key /\ flags' = [flags EXCEPT !.confirm = FALSE]
  /\ dirty' = [dirty EXCEPT ![f] = None] /\ stored' = [stored EXCEPT ![f] = None]
  /\ UNCHANGED <<project, editor, edits>>

\* Esc: the editor first; then a warning if there are edits; then the modal.
Escape ==
  /\ flags.open
  /\ IF editor # Closed THEN editor' = Closed /\ UNCHANGED <<flags, dirty>>
     ELSE /\ UNCHANGED editor
          /\ IF IsDirty /\ ~flags.confirm
             THEN flags' = [flags EXCEPT !.confirm = TRUE] /\ UNCHANGED dirty
             ELSE flags' = [flags EXCEPT !.open = FALSE] /\ dirty' = NoEdits
  /\ UNCHANGED <<project, stored, edits>>

\* /config again: a new modal.
Reopen ==
  /\ ~flags.open /\ flags' = Shown
  /\ UNCHANGED <<project, stored, dirty, editor, edits>>

Next ==
  \/ OtherKey \/ ConfirmAhead \/ Invalid \/ ApplyEnds \/ Escape \/ Reopen
  \/ \E f \in Fields : EditField(f) \/ ResetField(f)
  \/ \E v \in editor.offers : Submit(v)
  \/ \E failed \in SUBSET {f \in Fields : dirty[f] # None} :
       Save(failed) \/ ConfirmAndSave(failed)

Spec == Init /\ [][Next]_cfvars

-----------------------------------------------------------------------------
(* Every variable keeps its shape (config_screen.py:275-301). *)
TypeOK ==
  /\ editor.field \in Fields \cup {None}
  /\ DOMAIN dirty = Fields /\ DOMAIN stored = Fields
  /\ \A f \in Fields : stored[f] # Inherit

\* The model a field is gated by, with edits pending, is the one the agent will
\* have once they are saved, "(inherit)" included (config_screen.py:779-922),
\* as long as the active provider is not one of the edits and the project's
\* file does not set the agent's.
ForeseesSave ==
  dirty["active"] = None /\ ~project =>
    LET saved == Applied(dirty, stored, Fields) IN
    /\ AgentProvider(dirty, stored) = AgentProvider(NoEdits, saved)
    /\ AgentModel(dirty, stored) = AgentModel(NoEdits, saved)
=============================================================================
