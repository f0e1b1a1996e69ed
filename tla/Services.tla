------------------------------ MODULE Services ------------------------------
(*****************************************************************************)
(* All the services around the agents: those that hand something on, those   *)
(* that keep something, and two that compute one piece of data from another: *)
(* the translators of a transcript and the model catalog.                    *)
(*****************************************************************************)
EXTENDS HandedServices, KeptServices

CONSTANTS
  TranscriptItems, TranscriptCalls,
  CatalogEntries

T == INSTANCE TurnTranslation WITH
  MaxItems <- TranscriptItems, MaxCalls <- TranscriptCalls,
  transcript <- v1, owed <- v2
K == INSTANCE ModelCatalog WITH
  MaxEntries <- CatalogEntries, raw <- v1, catalog <- v2, next <- v3,
  failed <- v4

Init ==
  \/ HandedInit \/ KeptInit
  \/ service = "translators" /\ T!Init /\ Off8
  \/ service = "catalog" /\ K!Init /\ Off6

Next ==
  /\ UNCHANGED service
  /\ \/ HandedNext \/ KeptNext
     \/ service = "translators" /\ T!Next /\ UNCHANGED Vars8
     \/ service = "catalog" /\ K!Next /\ UNCHANGED Vars6

Spec == Init /\ [][Next]_svars

-----------------------------------------------------------------------------
(* Every variable of every service keeps its shape. *)
TypesOK ==
  /\ service = "router" => R!TypeOK
  /\ service = "adapters" => A!TypeOK
  /\ service = "provider" => P!TypeOK
  /\ service = "translators" => T!TypeOK
  /\ service = "mcp" => M!TypeOK
  /\ service = "memory" => W!TypeOK
  /\ service = "config" => C!TypeOK
  /\ service = "screen" => S!TypeOK
  /\ service = "catalog" => K!TypeOK
  /\ service = "setup" => O!TypeOK
  /\ service = "profile" => U!TypeOK
  /\ service = "triage" => L!TypeOK
  /\ service = "hub" => H!TypeOK
  /\ service = "console" => D!TypeOK
  /\ service = "files" => F!TypeOK
  /\ service = "ledger" => B!TypeOK

\* What is computed from data is what the data say: the translators of a
\* transcript agree on it and produce requests their providers take, and the
\* model catalog's entries are what their ancestors say, in whatever order they
\* are resolved (claude_translator.py:229-301, openrouter_translator.py:154-255,
\* config/model_catalog.py:231-292).
ComputedAsStated ==
  /\ service = "translators" => T!TranslationsAgree
  /\ service = "catalog" => K!Flattened
=============================================================================
