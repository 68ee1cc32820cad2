-------------------------- MODULE StorageActivity --------------------------
(***************************************************************************)
(* The gate in front of the data directory (storage_activity.py): leases   *)
(* of ordinary operations, the exclusive right of deletions, the ASGI      *)
(* middleware that takes one or the other for an HTTP request, and the     *)
(* file lock that keeps a second process (the maintenance command line)    *)
(* out while the backend runs.  Some commands of that command line work on *)
(* the data directory without the file lock, and without a lease (Unlocked *)
(* and Commands).                                                          *)
(*                                                                         *)
(* Every method of StorageActivity runs under one mutex, so each is one    *)
(* step.  A thread is in one place at a time: pc says which.  The counter  *)
(* and the flag live in the memory of one process; only the file lock is   *)
(* shared between processes.                                               *)
(*                                                                         *)
(* A definition under the comment "Slip:" is no part of the specification: *)
(* it is the mistake in the definition after it that a property must find. *)
(***************************************************************************)
EXTENDS Integers, FiniteSets

CONSTANTS Procs,        \* operating-system processes on one data directory
          Background,   \* threads whose entry is @storage_operation
          Requests,     \* HTTP requests that are not DELETE
          Deletes,      \* HTTP DELETE requests
          Cleaners,     \* threads that call maintenance() without retrying
          MainThreads,  \* those of them that are the command line's own thread
          Commands,     \* command lines at work with no lease
          Unlocked,     \* processes that never ask for the file lock
          Home,         \* the process of each thread
          MaxTries,     \* attempts of the middleware before it answers 503
          NoProc        \* nobody holds the file lock

Threads == Background \cup Requests \cup Deletes \cup Cleaners \cup Commands

ASSUME ThreadsFinite == IsFiniteSet(Threads)
ASSUME MainAreClean  == MainThreads \subseteq Cleaners
ASSUME KindsApart    == /\ Background \cap (Requests \cup Deletes \cup Cleaners) = {}
                        /\ Requests \cap (Deletes \cup Cleaners) = {}
                        /\ Deletes \cap Cleaners = {}
                        /\ Commands \cap (Background \cup Requests) = {}
                        /\ Commands \cap (Deletes \cup Cleaners) = {}
ASSUME HomeType      == Home \in [Threads -> Procs]
ASSUME NoProcNew     == NoProc \notin Procs
ASSUME MaxTriesPos   == MaxTries \in Nat \ {0}

VARIABLES
    lockHolder,   \* StorageProcessLock: process that holds the flock
    procState,    \* "down", "up", "stopping" (lock held), "exiting" (released)
    users,        \* StorageActivity._users of each process
    maintaining,  \* StorageActivity._maintaining of each process
    pc,           \* "idle", "trying", "using", "maintaining" of each thread, or
                  \* "working", which is inside with no lease
    tries         \* failed attempts of the middleware for this request

vars == <<lockHolder, procState, users, maintaining, pc, tries>>

ThreadsOf(o) == {t \in Threads : Home[t] = o}
UsersOf(o) == {t \in ThreadsOf(o) : pc[t] = "using"}
MaintainersOf(o) == {t \in ThreadsOf(o) : pc[t] = "maintaining"}

Init ==
    /\ lockHolder = NoProc
    /\ procState = [o \in Procs |-> "down"]
    /\ users = [o \in Procs |-> 0]
    /\ maintaining = [o \in Procs |-> FALSE]
    /\ pc = [t \in Threads |-> "idle"]
    /\ tries = [t \in Threads |-> 0]

-----------------------------------------------------------------------------
(* The two ways through the gate, and back.                                *)

\* Slip: try_acquire does not look at the maintenance flag.
CanUseUnchecked(o) == TRUE

CanUse(o) == ~maintaining[o]
CanMaintain(o) == ~maintaining[o] /\ users[o] = 0

TryAcquire(t) ==
    /\ CanUse(Home[t])
    /\ users' = [users EXCEPT ![Home[t]] = @ + 1]
    /\ pc' = [pc EXCEPT ![t] = "using"]
    /\ UNCHANGED maintaining

BeginMaintenance(t) ==
    /\ CanMaintain(Home[t])
    /\ maintaining' = [maintaining EXCEPT ![Home[t]] = TRUE]
    /\ pc' = [pc EXCEPT ![t] = "maintaining"]
    /\ UNCHANGED users

\* Slip: the counter is not given back on some way out of the operation.
ReleaseLeaking(t) ==
    /\ pc[t] = "using"
    /\ pc' = [pc EXCEPT ![t] = "idle"]
    /\ UNCHANGED <<users, maintaining, lockHolder, procState, tries>>

Release(t) ==
    /\ pc[t] = "using"
    /\ users' = [users EXCEPT ![Home[t]] = @ - 1]
    /\ pc' = [pc EXCEPT ![t] = "idle"]
    /\ UNCHANGED <<maintaining, lockHolder, procState, tries>>

EndMaintenance(t) ==
    /\ pc[t] = "maintaining"
    /\ maintaining' = [maintaining EXCEPT ![Home[t]] = FALSE]
    /\ pc' = [pc EXCEPT ![t] = "idle"]
    /\ UNCHANGED <<users, lockHolder, procState, tries>>

-----------------------------------------------------------------------------
(* Who goes through it.                                                    *)

\* A background loop enters once per round; a closed gate makes the round
\* return its idle result, which changes nothing.  While Container.stop goes
\* through the services one by one, those not yet told to stop still run.
BackgroundEnter(t) ==
    /\ t \in Background
    /\ procState[Home[t]] \in {"up", "stopping"}
    /\ pc[t] = "idle"
    /\ TryAcquire(t)
    /\ UNCHANGED <<lockHolder, procState, tries>>

\* RetentionService and the command line ask once; a refusal deletes nothing.
CleanerEnter(t) ==
    /\ t \in Cleaners
    /\ procState[Home[t]] = "up"
    /\ pc[t] = "idle"
    /\ BeginMaintenance(t)
    /\ UNCHANGED <<lockHolder, procState, tries>>

\* import-session, the three reputation commands and the making of packages
\* read, write and delete files and rows, and ask the gate for nothing.
CommandWorks(t) ==
    /\ t \in Commands
    /\ procState[Home[t]] = "up"
    /\ pc[t] = "idle"
    /\ pc' = [pc EXCEPT ![t] = "working"]
    /\ UNCHANGED <<lockHolder, procState, users, maintaining, tries>>

CommandDone(t) ==
    /\ pc[t] = "working"
    /\ pc' = [pc EXCEPT ![t] = "idle"]
    /\ UNCHANGED <<lockHolder, procState, users, maintaining, tries>>

RequestArrives(t) ==
    /\ t \in Requests \cup Deletes
    /\ procState[Home[t]] = "up"
    /\ pc[t] = "idle"
    /\ pc' = [pc EXCEPT ![t] = "trying"]
    /\ tries' = [tries EXCEPT ![t] = 0]
    /\ UNCHANGED <<lockHolder, procState, users, maintaining>>

\* One turn of the middleware's loop that gets in.
RequestEnter(t) ==
    /\ pc[t] = "trying"
    /\ \/ t \in Requests /\ TryAcquire(t)
       \/ t \in Deletes /\ BeginMaintenance(t)
    /\ UNCHANGED <<lockHolder, procState, tries>>

Blocked(t) ==
    IF t \in Deletes THEN ~CanMaintain(Home[t]) ELSE ~CanUse(Home[t])

\* Slip: one turn too many.
RequestBlockedOnceMore(t) ==
    /\ pc[t] = "trying"
    /\ Blocked(t)
    /\ tries' = [tries EXCEPT ![t] = @ + 1]
    /\ pc' = [pc EXCEPT ![t] = IF tries[t] < MaxTries THEN "trying" ELSE "idle"]
    /\ UNCHANGED <<lockHolder, procState, users, maintaining>>

\* Slip: the turns are not counted.
RequestBlockedUncounted(t) ==
    /\ pc[t] = "trying"
    /\ Blocked(t)
    /\ UNCHANGED vars

\* One turn that does not: sleep and try again, or answer 503 STORAGE_BUSY.
RequestBlocked(t) ==
    /\ pc[t] = "trying"
    /\ Blocked(t)
    /\ tries' = [tries EXCEPT ![t] = @ + 1]
    /\ pc' = [pc EXCEPT ![t] = IF tries[t] + 1 < MaxTries THEN "trying" ELSE "idle"]
    /\ UNCHANGED <<lockHolder, procState, users, maintaining>>

-----------------------------------------------------------------------------
(* The life of a process.                                                  *)

\* Slip: nobody takes the lock.
StartUnlocked(o) ==
    /\ procState[o] = "down"
    /\ procState' = [procState EXCEPT ![o] = "up"]
    /\ UNCHANGED <<lockHolder, users, maintaining, pc, tries>>

\* The backend and the commands for maintenance take the file lock, or do not
\* start; the other commands build their container and go to work.
Start(o) ==
    /\ procState[o] = "down"
    /\ IF o \in Unlocked
       THEN UNCHANGED lockHolder
       ELSE lockHolder = NoProc /\ lockHolder' = o
    /\ procState' = [procState EXCEPT ![o] = "up"]
    /\ UNCHANGED <<users, maintaining, pc, tries>>

\* Container.stop begins once the server has answered its requests; the
\* command line leaves its with-block after its own work.  A command with no
\* lock just ends.
BeginStop(o) ==
    /\ procState[o] = "up"
    /\ o \notin Unlocked
    /\ \A t \in ThreadsOf(o) \cap (Requests \cup Deletes \cup MainThreads \cup Commands) :
           pc[t] = "idle"
    /\ procState' = [procState EXCEPT ![o] = "stopping"]
    /\ UNCHANGED <<lockHolder, users, maintaining, pc, tries>>

\* Each stop() joins its thread for ten seconds and goes on; the lock is
\* released whether or not the threads have come back.
ReleaseProcessLock(o) ==
    /\ procState[o] = "stopping"
    /\ lockHolder' = NoProc
    /\ procState' = [procState EXCEPT ![o] = "exiting"]
    /\ UNCHANGED <<users, maintaining, pc, tries>>

\* The process ends (or is killed): its memory is gone, and the operating
\* system gives its file lock back.
ProcessEnds(o) ==
    /\ procState[o] # "down"
    /\ procState' = [procState EXCEPT ![o] = "down"]
    /\ lockHolder' = IF lockHolder = o THEN NoProc ELSE lockHolder
    /\ users' = [users EXCEPT ![o] = 0]
    /\ maintaining' = [maintaining EXCEPT ![o] = FALSE]
    /\ pc' = [t \in Threads |-> IF Home[t] = o THEN "idle" ELSE pc[t]]
    /\ tries' = [t \in Threads |-> IF Home[t] = o THEN 0 ELSE tries[t]]

-----------------------------------------------------------------------------
ThreadStep(t) ==
    \/ BackgroundEnter(t)
    \/ CleanerEnter(t)
    \/ CommandWorks(t)
    \/ CommandDone(t)
    \/ RequestArrives(t)
    \/ RequestEnter(t)
    \/ RequestBlocked(t)
    \/ Release(t)
    \/ EndMaintenance(t)

ProcStep(o) ==
    Start(o) \/ BeginStop(o) \/ ReleaseProcessLock(o) \/ ProcessEnds(o)

Next == (\E t \in Threads : ThreadStep(t)) \/ (\E o \in Procs : ProcStep(o))

Spec == Init /\ [][Next]_vars

\* The event loop turns every waiting request over again, and every operation
\* that got in ends.
Fairness ==
    \A t \in Threads :
        /\ WF_vars(RequestEnter(t) \/ RequestBlocked(t))
        /\ WF_vars(Release(t) \/ EndMaintenance(t))

FairSpec == Spec /\ Fairness

-----------------------------------------------------------------------------
(* Properties.                                                             *)

TypeOK ==
    /\ lockHolder \in Procs \cup {NoProc}
    /\ procState \in [Procs -> {"down", "up", "stopping", "exiting"}]
    /\ users \in [Procs -> Nat]
    /\ maintaining \in [Procs -> BOOLEAN]
    /\ pc \in [Threads -> {"idle", "trying", "using", "maintaining", "working"}]
    /\ tries \in [Threads -> 0 .. MaxTries]

\* The counter and the flag are what the threads really do: every lease that
\* was taken is given back exactly once, on every way out of an operation.
CountersMatch ==
    \A o \in Procs :
        /\ users[o] = Cardinality(UsersOf(o))
        /\ maintaining[o] <=> MaintainersOf(o) # {}
        /\ Cardinality(MaintainersOf(o)) <= 1

\* A deletion never runs beside another operation of its process: nobody
\* deletes a file that a download, a worker or another deletion is using.
Exclusion ==
    \A t, s \in Threads :
        t # s /\ Home[t] = Home[s] /\ pc[t] = "maintaining"
            => pc[s] \notin {"using", "maintaining"}

Active(o) == \E t \in ThreadsOf(o) : pc[t] \in {"using", "maintaining", "working"}

\* Two processes are inside the data directory together only if one of them
\* already gave the file lock back while stopping, or is one of the commands
\* that never ask for it (cli.py:104-128).
OverlapOnlyAfterRelease ==
    \A o, p \in Procs :
        o # p /\ Active(o) /\ Active(p) =>
            \/ "exiting" \in {procState[o], procState[p]}
            \/ {o, p} \cap Unlocked # {}

\* docs/design/technical-route.md:508 -- backend and command line share the
\* file lock, so neither can go round the other's leases: a deletion in one
\* process never runs beside an operation of another.
NoBypassOfLeases ==
    \A o, p \in Procs :
        o # p /\ MaintainersOf(o) # {} => ~Active(p)

\* The middleware answers every request: it gets in, or it is refused with
\* 503 after MaxTries turns, however the gate is used meanwhile.
EveryRequestAnswered ==
    \A t \in Requests \cup Deletes : pc[t] = "trying" ~> pc[t] # "trying"

\* The gate of each process is a readers-writer gate: every step of the
\* counter, the flag, the middleware and the processes is one of its steps.
Gate == INSTANCE ExclusiveGate WITH
            readers <- {t \in Threads : pc[t] = "using"},
            writers <- {t \in Threads : pc[t] = "maintaining"}
ImplementsGate == Gate!Spec
=============================================================================
