--------------------------- MODULE ExclusiveGate ---------------------------
(***************************************************************************)
(* What the storage gate of threadsnap promises, without its counter and   *)
(* its flag: inside one operating-system process any number of threads may *)
(* use the data directory together, and a thread that deletes does so      *)
(* alone.  StorageActivity implements this specification.                  *)
(***************************************************************************)
CONSTANTS Threads,  \* every thread of every process
          Home      \* the process a thread belongs to

VARIABLES readers,  \* threads inside an ordinary storage operation
          writers   \* threads inside an exclusive one

gate == <<readers, writers>>

SameHome(t, S) == {s \in S : Home[s] = Home[t]}

Init == readers = {} /\ writers = {}

EnterShared(t) ==
    /\ t \notin readers \cup writers
    /\ SameHome(t, writers) = {}
    /\ readers' = readers \cup {t}
    /\ UNCHANGED writers

EnterExclusive(t) ==
    /\ t \notin readers \cup writers
    /\ SameHome(t, readers \cup writers) = {}
    /\ writers' = writers \cup {t}
    /\ UNCHANGED readers

Leave(t) ==
    /\ t \in readers \cup writers
    /\ readers' = readers \ {t}
    /\ writers' = writers \ {t}

\* The process of t dies: whatever its threads held is gone with it.
Vanish(t) ==
    /\ readers' = readers \ SameHome(t, readers)
    /\ writers' = writers \ SameHome(t, writers)

Next ==
    \E t \in Threads :
        EnterShared(t) \/ EnterExclusive(t) \/ Leave(t) \/ Vanish(t)

Spec == Init /\ [][Next]_gate
=============================================================================
