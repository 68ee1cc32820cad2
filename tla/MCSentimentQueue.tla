-------------------------- MODULE MCSentimentQueue --------------------------
(***************************************************************************)
(* An account of a hosted model, whose limit the user may change, and one  *)
(* of the local model, for two slots.                                      *)
(***************************************************************************)
EXTENDS SentimentQueue, TLC

MCAccounts == {"default", "second"}
MCGiven == (1 :> {"default"}) @@ (2 :> MCAccounts)
MCFirstLimit == [a \in MCAccounts |-> 2]
MCFirstModel == [a \in MCAccounts |-> IF a = "default" THEN "hosted" ELSE "local"]
=============================================================================
