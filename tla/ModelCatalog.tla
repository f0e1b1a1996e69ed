----------------------------- MODULE ModelCatalog -----------------------------
(***************************************************************************)
(* Loading the model catalog (config/model_catalog.py): entries may        *)
(* inherit from another; the loader flattens them in place, one after the  *)
(* other.  An entry is a number; one attribute stands for all of them, and *)
(* its value for the entry that states it.                                 *)
(***************************************************************************)
EXTENDS Naturals, FiniteSets

CONSTANT MaxEntries   \* bound: entries of all providers, in file order

VARIABLES
  raw,       \* the merged YAML: each entry's `inherits' and own attribute
  catalog,   \* `out' of _resolve_inherits, changed in place
  next,      \* the entry whose turn it is
  failed     \* a ValueError was raised

kvars == <<raw, catalog, next, failed>>

Entries == 1..MaxEntries
No      == 0
Missing == MaxEntries + 1   \* an entry the catalog does not have

\* The user's file patches single fields of an entry: _deep_merge.
Merged(base, over) ==
  [e \in Entries |-> [inherits |-> IF over[e].inherits # No THEN over[e].inherits
                                   ELSE base[e].inherits,
                      value |-> IF over[e].value # No THEN over[e].value ELSE base[e].value]]

Entry(e) == [inherits : 0..(MaxEntries + 1), value : {No, e}]

Files == {f \in [Entries -> UNION {Entry(e) : e \in Entries}] : \A e \in Entries : f[e] \in Entry(e)}

\* A user's file that states at most one entry.
Patch(e, entry) == [x \in Entries |-> IF x = e THEN entry ELSE [inherits |-> No, value |-> No]]

Init ==
  /\ \E base \in Files, e \in Entries : \E entry \in Entry(e) :
       raw = Merged(base, Patch(e, entry))
  /\ catalog = raw /\ next = 1 /\ failed = FALSE

-----------------------------------------------------------------------------
(* _resolve_one. *)

\* The entries from e upwards, as far as they go.
Chain(c, e) ==
  LET up[n \in 0..MaxEntries] ==
        IF n = 0 THEN e
        ELSE IF up[n - 1] \in Entries THEN c[up[n - 1]].inherits ELSE No
  IN [n \in 0..MaxEntries |-> up[n]]

Length(c, e) == Cardinality({n \in 0..MaxEntries : Chain(c, e)[n] # No})

\* A cycle is met before the chain ends; or an entry that is not there.
Broken(c, e) ==
  \/ Length(c, e) > MaxEntries
  \/ \E n \in 0..MaxEntries : Chain(c, e)[n] = Missing

\* {**parent_resolved, **entry}, without `inherits'.
Over(entry, parent) == [inherits |-> No, value |-> IF entry # No THEN entry ELSE parent]

\* The recursion comes back from the top: every entry of the chain is merged
\* with the one above it, which has been.
Resolved(c, e) ==
  LET chain == Chain(c, e)
      top   == Length(c, e) - 1
      done[n \in 0..top] ==
        IF n = 0 THEN c[chain[top]]
        ELSE Over(c[chain[top - n]].value, done[n - 1].value)
  IN [x \in Entries |->
        IF \E n \in 0..top : chain[n] = x
        THEN done[top - (CHOOSE n \in 0..top : chain[n] = x)] ELSE c[x]]

ResolveNext ==
  /\ ~failed /\ next \in Entries
  /\ IF Broken(catalog, next)
     THEN failed' = TRUE /\ UNCHANGED <<catalog, next>>
     ELSE /\ catalog' = Resolved(catalog, next)
          /\ next' = next + 1 /\ UNCHANGED failed
  /\ UNCHANGED raw

Next == ResolveNext

Spec == Init /\ [][Next]_kvars

-----------------------------------------------------------------------------
(* Every variable keeps its shape (model_catalog.py:231-253). *)
TypeOK ==
  /\ DOMAIN catalog = Entries /\ next \in 1..(MaxEntries + 1) /\ failed \in BOOLEAN

\* What the entries stand for, whatever order they are resolved in: the value
\* of the nearest entry upwards that states one.
Ancestors(e) ==
  LET reach[n \in Nat] ==
        IF n = 0 THEN {e}
        ELSE reach[n - 1] \cup {raw[x].inherits : x \in reach[n - 1] \cap Entries}
  IN reach[MaxEntries]
Stands(e, v) ==
  \/ v = raw[e].value /\ v # No
  \/ /\ raw[e].value = No /\ v \in Ancestors(e) \cap Entries /\ raw[v].value = v
     /\ \A x \in (Ancestors(e) \cap Entries) \ Ancestors(v) : raw[x].value = No
  \/ v = No /\ \A x \in Ancestors(e) \cap Entries : raw[x].value = No

\* The load fails exactly when an entry inherits from one that is not there, or
\* from itself in the end; otherwise every entry is whole: the same as if it
\* had been resolved alone, in whatever order (model_catalog.py:231-292).
Flattened ==
  /\ failed => \E e \in Entries :
       Missing \in Ancestors(e) \/ \E x \in Ancestors(e) \cap Entries : raw[x].inherits \in Entries
                                     /\ x \in Ancestors(raw[x].inherits)
  /\ next = MaxEntries + 1 => \A e \in Entries : catalog[e].inherits = No /\ Stands(e, catalog[e].value)
=============================================================================
