---------------------------- MODULE ServiceSlots ----------------------------
(*****************************************************************************)
(* The variables of the services around the agents.  They do not interact    *)
(* with one another, so a behaviour is a behaviour of one of them, chosen at *)
(* the start: `service' says which, and the variables v1, ..., v10 are that  *)
(* service's, the ones it has no use for "off".                              *)
(*****************************************************************************)
EXTENDS Naturals

VARIABLES service, v1, v2, v3, v4, v5, v6, v7, v8, v9, v10

svars == <<service, v1, v2, v3, v4, v5, v6, v7, v8, v9, v10>>

\* The last n of the variables, when a service leaves them alone.
Vars2 == <<v9, v10>>
Vars3 == <<v8, v9, v10>>
Vars4 == <<v7, v8, v9, v10>>
Vars5 == <<v6, v7, v8, v9, v10>>
Vars6 == <<v5, v6, v7, v8, v9, v10>>
Vars8 == <<v3, v4, v5, v6, v7, v8, v9, v10>>

Off2 == v9 = "off" /\ v10 = "off"
Off3 == Off2 /\ v8 = "off"
Off4 == Off3 /\ v7 = "off"
Off5 == Off4 /\ v6 = "off"
Off6 == Off5 /\ v5 = "off"
Off8 == Off6 /\ v3 = "off" /\ v4 = "off"
=============================================================================
