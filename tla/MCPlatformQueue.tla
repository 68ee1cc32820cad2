-------------------------- MODULE MCPlatformQueue --------------------------
(***************************************************************************)
(* Two runs over two platforms: the first has two sources on one platform  *)
(* and one on the other, the second queues behind it.                      *)
(***************************************************************************)
EXTENDS PlatformQueue, TLC

CONSTANTS autohome, dongchedi,  \* platforms
          first, second,        \* runs
          a1, a2, d1, a3        \* tasks

MCPlatforms  == {autohome, dongchedi}
MCRuns       == {first, second}
MCTasks      == {a1, a2, d1, a3}
MCRunOf      == [t \in MCTasks |-> IF t = a3 THEN second ELSE first]
MCPlatformOf == [t \in MCTasks |-> IF t = d1 THEN dongchedi ELSE autohome]
MCSequence        == (a1 :> 1) @@ (a2 :> 2) @@ (d1 :> 3) @@ (a3 :> 4)
OneHome      == {a1}
NoHome       == {}
OneSaves     == {a1}
NoneSaves    == {}

SafetyKinds == {"done", "batch", "rate", "auth"}
DrainKinds  == {"done", "batch", "network", "auth"}
LimitKinds  == {"done", "network", "rate"}
=============================================================================
