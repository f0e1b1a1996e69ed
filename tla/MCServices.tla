------------------------------ MODULE MCServices ------------------------------
(* The instance of Services that is model-checked.                          *)
EXTENDS Services

\* Of three calls of the profile's tool one is a sub-agent's.
MCStoreOf == [c \in {"c1", "c2", "c3"} |-> IF c = "c3" THEN "child" ELSE "lead"]

\* What is dropped into a message: nothing; a file twice and another; one whose
\* stored name loses its suffix, beside a word; two of which one is too large;
\* one that no model takes.  What stops a file from being read is in a token's
\* middle.
MCDrops == {<<>>, <<<<"photo", "photo">>, <<"notes">>>>, <<<<"odd">>, <<>>>>,
            <<<<"notes", "key", "log">>, <<"log">>>>, <<<<"drawing">>>>}

\* A session talks more than the other.
MCMemoryTurns == [s \in {"s1", "s2"} |-> IF s = "s1" THEN 3 ELSE 1]
=============================================================================
