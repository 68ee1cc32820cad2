------------------------- MODULE MCRunTransactions -------------------------
(***************************************************************************)
(* A run with two sources on one platform and one on another.              *)
(***************************************************************************)
EXTENDS RunTransactions, TLC

CONSTANTS a1, a2, d1

MCTasks == {a1, a2, d1}
MCPlatforms == {"autohome", "dongchedi"}
MCPlatformOf == [t \in MCTasks |-> IF t = d1 THEN "dongchedi" ELSE "autohome"]
=============================================================================
