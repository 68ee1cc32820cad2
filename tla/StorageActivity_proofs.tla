----------------------- MODULE StorageActivity_proofs -----------------------
(***************************************************************************)
(* Proofs about the storage gate, for any number of processes, threads and *)
(* turns: the inductive invariant, the exclusion it gives, what the file   *)
(* lock does and does not promise, and that the gate implements            *)
(* ExclusiveGate.                                                          *)
(***************************************************************************)
EXTENDS StorageActivity, FiniteSetTheorems, TLAPS

\* A waiting request has turns left.
TurnsLeft == \A t \in Threads : pc[t] = "trying" => tries[t] < MaxTries

\* The flag is only raised over an empty house.
AloneInside == \A o \in Procs : maintaining[o] => users[o] = 0

\* A running process that asks for the file lock holds it, until it gives it
\* back in stop(); the others have nothing to give back.
LockIsHeld ==
    \A o \in Procs : IF o \in Unlocked
                     THEN procState[o] # "stopping"
                     ELSE procState[o] \in {"up", "stopping"} => lockHolder = o

\* A process that is gone has no thread at work.
DeadIsIdle ==
    \A t \in Threads : procState[Home[t]] = "down" => pc[t] = "idle"

IInv ==
    /\ TypeOK
    /\ TurnsLeft
    /\ CountersMatch
    /\ AloneInside
    /\ LockIsHeld
    /\ DeadIsIdle

\* Nothing but pc tells who uses a process's data directory: a thread that gets
\* in, to use or to delete, joins the one set of its own process.
LEMMA MoveIn ==
    ASSUME TypeOK, NEW t \in Threads, NEW o \in Procs, pc[t] \in {"idle", "trying", "working"}
    PROVE  /\ t \notin UsersOf(o) /\ t \notin MaintainersOf(o)
           /\ pc' = [pc EXCEPT ![t] = "using"] =>
                /\ UsersOf(o)' = IF o = Home[t] THEN UsersOf(o) \cup {t} ELSE UsersOf(o)
                /\ MaintainersOf(o)' = MaintainersOf(o)
           /\ pc' = [pc EXCEPT ![t] = "maintaining"] =>
                /\ UsersOf(o)' = UsersOf(o)
                /\ MaintainersOf(o)' = IF o = Home[t] THEN MaintainersOf(o) \cup {t}
                                                      ELSE MaintainersOf(o)
           /\ pc' = [pc EXCEPT ![t] = "trying"] \/ pc' = [pc EXCEPT ![t] = "idle"]
              \/ pc' = [pc EXCEPT ![t] = "working"] =>
                UsersOf(o)' = UsersOf(o) /\ MaintainersOf(o)' = MaintainersOf(o)
  BY DEF UsersOf, MaintainersOf, ThreadsOf, TypeOK

\* A thread that leaves is in neither set afterwards.
LEMMA MoveOut ==
    ASSUME TypeOK, NEW t \in Threads, NEW o \in Procs, pc' = [pc EXCEPT ![t] = "idle"]
    PROVE  /\ UsersOf(o)' = UsersOf(o) \ {t}
           /\ MaintainersOf(o)' = MaintainersOf(o) \ {t}
           /\ t \in UsersOf(o) <=> o = Home[t] /\ pc[t] = "using"
           /\ t \in MaintainersOf(o) <=> o = Home[t] /\ pc[t] = "maintaining"
  BY DEF UsersOf, MaintainersOf, ThreadsOf, TypeOK

\* The sets of one process are finite, so counting them makes sense.
LEMMA Countable ==
    ASSUME NEW o \in Procs
    PROVE  /\ IsFiniteSet(UsersOf(o)) /\ Cardinality(UsersOf(o)) \in Nat
           /\ IsFiniteSet(MaintainersOf(o)) /\ Cardinality(MaintainersOf(o)) \in Nat
<1>1. UsersOf(o) \subseteq Threads /\ MaintainersOf(o) \subseteq Threads
  BY DEF UsersOf, MaintainersOf, ThreadsOf
<1>2. IsFiniteSet(UsersOf(o)) /\ IsFiniteSet(MaintainersOf(o))
  BY <1>1, ThreadsFinite, FS_Subset
<1> QED BY <1>2, FS_CardinalityType

\* One lease more or less is one user more or less.
LEMMA CountOne ==
    ASSUME NEW o \in Procs, NEW t \in Threads
    PROVE  /\ t \notin UsersOf(o) =>
                Cardinality(UsersOf(o) \cup {t}) = Cardinality(UsersOf(o)) + 1
           /\ t \in UsersOf(o) =>
                Cardinality(UsersOf(o) \ {t}) = Cardinality(UsersOf(o)) - 1
  BY Countable, FS_AddElement, FS_RemoveElement

\* Before anything runs the invariant holds.
LEMMA InitIInv == Init => IInv
<1> SUFFICES ASSUME Init PROVE IInv
  OBVIOUS
<1>1. TypeOK /\ TurnsLeft /\ AloneInside /\ LockIsHeld /\ DeadIsIdle
  BY HomeType, MaxTriesPos
     DEF Init, TypeOK, TurnsLeft, AloneInside, LockIsHeld, DeadIsIdle
<1>2. \A o \in Procs : UsersOf(o) = {} /\ MaintainersOf(o) = {}
  BY DEF Init, UsersOf, MaintainersOf, ThreadsOf
<1>3. CountersMatch
  BY <1>2, FS_EmptySet DEF Init, CountersMatch
<1> QED BY <1>1, <1>3 DEF IInv

\* A thread that gets in as a user: the gate was open.
LEMMA UsePreserves ==
    ASSUME IInv, NEW t \in Threads, pc[t] \in {"idle", "trying"},
           procState[Home[t]] # "down", TryAcquire(t),
           UNCHANGED <<lockHolder, procState, tries>>
    PROVE  IInv'
<1> DEFINE h == Home[t]
<1>1. h \in Procs /\ t \in ThreadsOf(h)
  BY HomeType DEF ThreadsOf
<1>2. TypeOK'
  BY <1>1 DEF IInv, TypeOK, TryAcquire
<1>3. TurnsLeft' /\ LockIsHeld' /\ DeadIsIdle'
  BY DEF IInv, TypeOK, TurnsLeft, LockIsHeld, DeadIsIdle, TryAcquire
<1>4. ASSUME NEW o \in Procs
      PROVE  /\ MaintainersOf(o)' = MaintainersOf(o)
             /\ UsersOf(o)' = IF o = h THEN UsersOf(o) \cup {t} ELSE UsersOf(o)
             /\ t \notin UsersOf(o)
  <2>1. TypeOK /\ pc' = [pc EXCEPT ![t] = "using"]
    BY DEF IInv, TryAcquire
  <2> QED BY <2>1, MoveIn
<1>5. ASSUME NEW o \in Procs
      PROVE  /\ users'[o] = Cardinality(UsersOf(o)')
             /\ maintaining'[o] <=> MaintainersOf(o)' # {}
             /\ Cardinality(MaintainersOf(o)') <= 1
  <2>1. /\ users[o] = Cardinality(UsersOf(o))
        /\ maintaining[o] <=> MaintainersOf(o) # {}
        /\ Cardinality(MaintainersOf(o)) <= 1
    BY DEF IInv, CountersMatch
  <2>2. maintaining' = maintaining /\ users' = [users EXCEPT ![h] = @ + 1]
    BY DEF TryAcquire
  <2>3. users \in [Procs -> Nat]
    BY DEF IInv, TypeOK
  <2>4. CASE o = h
    BY <1>4, <2>1, <2>2, <2>3, <2>4, CountOne
  <2>5. CASE o # h
    BY <1>4, <2>1, <2>2, <2>3, <2>5
  <2> QED BY <2>4, <2>5
<1>6. CountersMatch'
  BY <1>5 DEF CountersMatch
<1>7. AloneInside'
  BY <1>1 DEF IInv, TypeOK, AloneInside, TryAcquire, CanUse
<1> QED BY <1>2, <1>3, <1>6, <1>7 DEF IInv

\* A thread that gets in to delete: nobody was inside.
LEMMA MaintainPreserves ==
    ASSUME IInv, NEW t \in Threads, pc[t] \in {"idle", "trying"},
           procState[Home[t]] # "down", BeginMaintenance(t),
           UNCHANGED <<lockHolder, procState, tries>>
    PROVE  IInv'
<1> DEFINE h == Home[t]
<1>1. h \in Procs /\ t \in ThreadsOf(h)
  BY HomeType DEF ThreadsOf
<1>2. TypeOK'
  BY <1>1 DEF IInv, TypeOK, BeginMaintenance
<1>3. TurnsLeft' /\ LockIsHeld' /\ DeadIsIdle'
  BY DEF IInv, TypeOK, TurnsLeft, LockIsHeld, DeadIsIdle, BeginMaintenance
<1>4. ~maintaining[h] /\ users[h] = 0
  BY DEF BeginMaintenance, CanMaintain
<1>5. ASSUME NEW o \in Procs
      PROVE  /\ users'[o] = Cardinality(UsersOf(o)')
             /\ maintaining'[o] <=> MaintainersOf(o)' # {}
             /\ Cardinality(MaintainersOf(o)') <= 1
  <2>1. /\ users[o] = Cardinality(UsersOf(o))
        /\ maintaining[o] <=> MaintainersOf(o) # {}
        /\ Cardinality(MaintainersOf(o)) <= 1
    BY DEF IInv, CountersMatch
  <2>2. /\ users' = users
        /\ maintaining' = [maintaining EXCEPT ![h] = TRUE]
        /\ pc' = [pc EXCEPT ![t] = "maintaining"]
    BY DEF BeginMaintenance
  <2>3. maintaining \in [Procs -> BOOLEAN] /\ TypeOK
    BY DEF IInv, TypeOK
  <2>4. /\ UsersOf(o)' = UsersOf(o)
        /\ MaintainersOf(o)' = IF o = h THEN MaintainersOf(o) \cup {t}
                                        ELSE MaintainersOf(o)
    BY <2>2, <2>3, MoveIn
  <2>6. CASE o = h
    <3>1. MaintainersOf(o)' = {t}
      BY <1>4, <2>1, <2>3, <2>4, <2>6
    <3>2. Cardinality({t}) = 1
      BY FS_Singleton
    <3> QED BY <1>1, <2>1, <2>2, <2>3, <2>4, <2>6, <3>1, <3>2
  <2>7. CASE o # h
    BY <2>1, <2>2, <2>3, <2>4, <2>7
  <2> QED BY <2>6, <2>7
<1>6. CountersMatch'
  BY <1>5 DEF CountersMatch
<1>7. AloneInside'
  BY <1>1, <1>4 DEF IInv, TypeOK, AloneInside, BeginMaintenance
<1> QED BY <1>2, <1>3, <1>6, <1>7 DEF IInv

\* A step that moves no thread into or out of the gate keeps the counters.
LEMMA ElsewherePreserves ==
    ASSUME IInv, UNCHANGED <<users, maintaining>>,
           \A o \in Procs : UsersOf(o)' = UsersOf(o) /\ MaintainersOf(o)' = MaintainersOf(o)
    PROVE  CountersMatch' /\ AloneInside'
  BY DEF IInv, CountersMatch, AloneInside

\* A user that leaves takes its one lease with it.
LEMMA ReleasePreserves ==
    ASSUME IInv, NEW t \in Threads, Release(t)
    PROVE  IInv'
<1> DEFINE h == Home[t]
<1>1. h \in Procs
  BY HomeType
<1>2. /\ TypeOK
      /\ users' = [users EXCEPT ![h] = @ - 1]
      /\ users \in [Procs -> Nat]
      /\ maintaining' = maintaining
      /\ pc' = [pc EXCEPT ![t] = "idle"]
      /\ pc[t] = "using"
  BY DEF IInv, TypeOK, Release
<1>3. ASSUME NEW o \in Procs
      PROVE  /\ users'[o] = Cardinality(UsersOf(o)')
             /\ maintaining'[o] <=> MaintainersOf(o)' # {}
             /\ Cardinality(MaintainersOf(o)') <= 1
             /\ users'[o] \in Nat
             /\ ~maintaining[h]
  <2>1. /\ users[o] = Cardinality(UsersOf(o))
        /\ maintaining[o] <=> MaintainersOf(o) # {}
        /\ Cardinality(MaintainersOf(o)) <= 1
    BY DEF IInv, CountersMatch
  <2>2. /\ t \in UsersOf(o) <=> o = h
        /\ t \notin MaintainersOf(o)
        /\ UsersOf(o)' = UsersOf(o) \ {t}
        /\ MaintainersOf(o)' = MaintainersOf(o)
    <3>1. /\ UsersOf(o)' = UsersOf(o) \ {t}
          /\ MaintainersOf(o)' = MaintainersOf(o) \ {t}
          /\ t \in UsersOf(o) <=> o = h /\ pc[t] = "using"
          /\ t \in MaintainersOf(o) <=> o = h /\ pc[t] = "maintaining"
      BY <1>2, MoveOut
    <3> QED BY <1>2, <3>1
  <2>3. Cardinality(UsersOf(o)') \in Nat
    BY <2>2, Countable, FS_RemoveElement, FS_CardinalityType
  <2>4. users'[o] = Cardinality(UsersOf(o)')
    <3>1. CASE o = h
      BY <1>1, <1>2, <2>1, <2>2, <3>1, CountOne
    <3>2. CASE o # h
      BY <1>2, <2>1, <2>2, <3>2
    <3> QED BY <3>1, <3>2
  <2>5. ~maintaining[h]
    <3>1. t \in UsersOf(h)
      BY <1>1, <1>2, MoveOut
    <3>2. Cardinality(UsersOf(h)) # 0
      BY <1>1, <3>1, Countable, FS_EmptySet
    <3> QED BY <1>1, <3>2 DEF IInv, CountersMatch, AloneInside
  <2>6. maintaining'[o] <=> MaintainersOf(o)' # {}
    BY <1>2, <2>1, <2>2, Zenon
  <2>7. Cardinality(MaintainersOf(o)') <= 1
    BY <2>1, <2>2
  <2> QED BY <2>3, <2>4, <2>5, <2>6, <2>7
<1>4. CountersMatch'
  BY <1>3 DEF CountersMatch
<1>5. AloneInside'
  BY <1>1, <1>2, <1>3 DEF IInv, AloneInside
<1>6. TypeOK'
  BY <1>2, <1>3 DEF TypeOK, Release
<1>7. TurnsLeft' /\ LockIsHeld' /\ DeadIsIdle'
  BY DEF IInv, TypeOK, TurnsLeft, LockIsHeld, DeadIsIdle, Release
<1> QED BY <1>4, <1>5, <1>6, <1>7 DEF IInv

\* The one deletion inside leaves, and the house is empty.
LEMMA EndPreserves ==
    ASSUME IInv, NEW t \in Threads, EndMaintenance(t)
    PROVE  IInv'
<1> DEFINE h == Home[t]
<1>1. h \in Procs
  BY HomeType
<1>2. /\ TypeOK
      /\ maintaining' = [maintaining EXCEPT ![h] = FALSE]
      /\ maintaining \in [Procs -> BOOLEAN]
      /\ users' = users
      /\ pc' = [pc EXCEPT ![t] = "idle"]
      /\ pc[t] = "maintaining"
  BY DEF IInv, TypeOK, EndMaintenance
<1>3. ASSUME NEW o \in Procs
      PROVE  /\ users'[o] = Cardinality(UsersOf(o)')
             /\ maintaining'[o] <=> MaintainersOf(o)' # {}
             /\ Cardinality(MaintainersOf(o)') <= 1
  <2>1. /\ users[o] = Cardinality(UsersOf(o))
        /\ maintaining[o] <=> MaintainersOf(o) # {}
        /\ Cardinality(MaintainersOf(o)) <= 1
    BY DEF IInv, CountersMatch
  <2>2. /\ UsersOf(o)' = UsersOf(o)
        /\ MaintainersOf(o)' = MaintainersOf(o) \ {t}
        /\ t \in MaintainersOf(o) <=> o = h
    <3>1. /\ UsersOf(o)' = UsersOf(o) \ {t}
          /\ MaintainersOf(o)' = MaintainersOf(o) \ {t}
          /\ t \in UsersOf(o) <=> o = h /\ pc[t] = "using"
          /\ t \in MaintainersOf(o) <=> o = h /\ pc[t] = "maintaining"
      BY <1>2, MoveOut
    <3> QED BY <1>2, <3>1
  <2>3. CASE o = h
    <3>1. Cardinality(MaintainersOf(o) \ {t}) = Cardinality(MaintainersOf(o)) - 1
      BY <2>2, <2>3, Countable, FS_RemoveElement
    <3>2. Cardinality(MaintainersOf(o)') = 0
      BY <2>1, <2>2, <3>1, Countable, FS_RemoveElement, FS_CardinalityType
    <3>3. MaintainersOf(o)' = {}
      BY <2>2, <3>2, Countable, FS_RemoveElement, FS_EmptySet
    <3> QED BY <1>2, <2>1, <2>2, <2>3, <3>2, <3>3
  <2>4. CASE o # h
    <3>1. maintaining'[o] = maintaining[o] /\ users'[o] = users[o]
      BY <1>2, <2>4
    <3>2. UsersOf(o)' = UsersOf(o) /\ MaintainersOf(o)' = MaintainersOf(o)
      BY <2>2, <2>4
    <3> QED BY <2>1, <3>1, <3>2
  <2> QED BY <2>3, <2>4
<1>4. CountersMatch'
  BY <1>3 DEF CountersMatch
<1>5. AloneInside'
  BY <1>2 DEF IInv, AloneInside
<1>6. TypeOK'
  BY <1>2 DEF TypeOK, EndMaintenance
<1>7. TurnsLeft' /\ LockIsHeld' /\ DeadIsIdle'
  BY DEF IInv, TypeOK, TurnsLeft, LockIsHeld, DeadIsIdle, EndMaintenance
<1> QED BY <1>4, <1>5, <1>6, <1>7 DEF IInv

\* The middleware's waiting and the start and stop of processes stay away from
\* the gate.
LEMMA WaitingPreserves ==
    ASSUME IInv, NEW t \in Threads, RequestArrives(t) \/ RequestBlocked(t)
    PROVE  IInv'
<1>1. \A o \in Procs : UsersOf(o)' = UsersOf(o) /\ MaintainersOf(o)' = MaintainersOf(o)
  <2>1. TypeOK /\ pc[t] \in {"idle", "trying"}
    BY DEF IInv, RequestArrives, RequestBlocked
  <2>2. pc' = [pc EXCEPT ![t] = "trying"] \/ pc' = [pc EXCEPT ![t] = "idle"]
    BY DEF RequestArrives, RequestBlocked
  <2> QED BY <2>1, <2>2, MoveIn
<1>2. CountersMatch' /\ AloneInside'
  BY <1>1, ElsewherePreserves DEF RequestArrives, RequestBlocked
<1>3. TypeOK' /\ TurnsLeft'
  BY MaxTriesPos DEF IInv, TypeOK, TurnsLeft, RequestArrives, RequestBlocked
<1>4. LockIsHeld' /\ DeadIsIdle'
  BY DEF IInv, TypeOK, LockIsHeld, DeadIsIdle, RequestArrives, RequestBlocked
<1> QED BY <1>2, <1>3, <1>4 DEF IInv

\* A command that works with no lease is no user of the gate.
LEMMA CommandPreserves ==
    ASSUME IInv, NEW t \in Threads, CommandWorks(t) \/ CommandDone(t)
    PROVE  IInv'
<1>1. \A o \in Procs : UsersOf(o)' = UsersOf(o) /\ MaintainersOf(o)' = MaintainersOf(o)
  <2>1. TypeOK /\ pc[t] \in {"idle", "working"}
    BY DEF IInv, CommandWorks, CommandDone
  <2>2. pc' = [pc EXCEPT ![t] = "working"] \/ pc' = [pc EXCEPT ![t] = "idle"]
    BY DEF CommandWorks, CommandDone
  <2> QED BY <2>1, <2>2, MoveIn
<1>2. CountersMatch' /\ AloneInside'
  BY <1>1, ElsewherePreserves DEF CommandWorks, CommandDone
<1>3. TypeOK' /\ TurnsLeft'
  BY DEF IInv, TypeOK, TurnsLeft, CommandWorks, CommandDone
<1>4. LockIsHeld' /\ DeadIsIdle'
  BY DEF IInv, TypeOK, LockIsHeld, DeadIsIdle, CommandWorks, CommandDone
<1> QED BY <1>2, <1>3, <1>4 DEF IInv

\* Starting, stopping and letting go of the lock move no thread.
LEMMA LifePreserves ==
    ASSUME IInv, NEW p \in Procs, Start(p) \/ BeginStop(p) \/ ReleaseProcessLock(p)
    PROVE  IInv'
<1>1. UNCHANGED <<users, maintaining, pc, tries>>
  BY DEF Start, BeginStop, ReleaseProcessLock
<1>2. CountersMatch' /\ AloneInside' /\ TurnsLeft'
  BY <1>1 DEF IInv, CountersMatch, AloneInside, TurnsLeft, UsersOf, MaintainersOf, ThreadsOf
<1>3. TypeOK'
  BY <1>1 DEF IInv, TypeOK, Start, BeginStop, ReleaseProcessLock
<1>4. LockIsHeld'
  <2>1. CASE Start(p)
    BY <2>1, NoProcNew DEF IInv, TypeOK, LockIsHeld, Start
  <2>2. CASE BeginStop(p)
    BY <2>2 DEF IInv, TypeOK, LockIsHeld, BeginStop
  <2>3. CASE ReleaseProcessLock(p)
    BY <2>3, NoProcNew DEF IInv, TypeOK, LockIsHeld, ReleaseProcessLock
  <2> QED BY <2>1, <2>2, <2>3
<1>5. DeadIsIdle'
  BY <1>1, HomeType DEF IInv, TypeOK, DeadIsIdle, Start, BeginStop, ReleaseProcessLock
<1> QED BY <1>2, <1>3, <1>4, <1>5 DEF IInv

\* The end of a process takes its counter and its flag with its threads.
LEMMA EndsPreserves ==
    ASSUME IInv, NEW p \in Procs, ProcessEnds(p)
    PROVE  IInv'
<1>1. TypeOK' /\ TurnsLeft' /\ AloneInside'
  <2>1. TypeOK'
    <3>1. /\ lockHolder' \in Procs \cup {NoProc}
          /\ procState' \in [Procs -> {"down", "up", "stopping", "exiting"}]
          /\ users' \in [Procs -> Nat]
          /\ maintaining' \in [Procs -> BOOLEAN]
      BY DEF IInv, TypeOK, ProcessEnds
    <3>2. pc' \in [Threads -> {"idle", "trying", "using", "maintaining", "working"}]
      BY DEF IInv, TypeOK, ProcessEnds
    <3>3. tries' \in [Threads -> 0 .. MaxTries]
      BY MaxTriesPos DEF IInv, TypeOK, ProcessEnds
    <3> QED BY <3>1, <3>2, <3>3 DEF TypeOK
  <2>2. TurnsLeft'
    BY DEF IInv, TypeOK, TurnsLeft, ProcessEnds
  <2>3. AloneInside'
    BY DEF IInv, TypeOK, AloneInside, ProcessEnds
  <2> QED BY <2>1, <2>2, <2>3
<1>2. LockIsHeld' /\ DeadIsIdle'
  BY HomeType DEF IInv, TypeOK, LockIsHeld, DeadIsIdle, ProcessEnds
<1>3. ASSUME NEW o \in Procs
      PROVE  /\ users'[o] = Cardinality(UsersOf(o)')
             /\ maintaining'[o] <=> MaintainersOf(o)' # {}
             /\ Cardinality(MaintainersOf(o)') <= 1
  <2>1. /\ users[o] = Cardinality(UsersOf(o))
        /\ maintaining[o] <=> MaintainersOf(o) # {}
        /\ Cardinality(MaintainersOf(o)) <= 1
    BY DEF IInv, CountersMatch
  <2>2. CASE o = p
    <3>1. UsersOf(o)' = {} /\ MaintainersOf(o)' = {}
      BY <2>2 DEF ProcessEnds, UsersOf, MaintainersOf, ThreadsOf
    <3>2. users'[o] = 0 /\ ~maintaining'[o]
      BY <2>2 DEF IInv, TypeOK, ProcessEnds
    <3> QED BY <3>1, <3>2, FS_EmptySet
  <2>3. CASE o # p
    <3>1. UsersOf(o)' = UsersOf(o) /\ MaintainersOf(o)' = MaintainersOf(o)
      BY <2>3 DEF ProcessEnds, UsersOf, MaintainersOf, ThreadsOf
    <3>2. users'[o] = users[o] /\ maintaining'[o] = maintaining[o]
      BY <2>3 DEF IInv, TypeOK, ProcessEnds
    <3> QED BY <2>1, <3>1, <3>2
  <2> QED BY <2>2, <2>3
<1>4. CountersMatch'
  BY <1>3 DEF CountersMatch
<1> QED BY <1>1, <1>2, <1>4 DEF IInv

\* A step that changes nothing keeps the invariant.
LEMMA StutterPreserves == IInv /\ UNCHANGED vars => IInv'
<1> SUFFICES ASSUME IInv, UNCHANGED vars PROVE IInv'
  OBVIOUS
<1>1. CountersMatch' /\ AloneInside'
  BY DEF IInv, vars, CountersMatch, AloneInside, UsersOf, MaintainersOf, ThreadsOf
<1>2. TypeOK' /\ TurnsLeft'
  BY DEF IInv, vars, TypeOK, TurnsLeft
<1>3. LockIsHeld' /\ DeadIsIdle'
  BY DEF IInv, vars, LockIsHeld, DeadIsIdle
<1> QED BY <1>1, <1>2, <1>3 DEF IInv

\* Every step of every thread and process keeps the invariant.
LEMMA NextPreserves == IInv /\ [Next]_vars => IInv'
<1> SUFFICES ASSUME IInv, [Next]_vars PROVE IInv'
  OBVIOUS
<1>1. ASSUME NEW t \in Threads, ThreadStep(t) PROVE IInv'
  <2>1. CASE BackgroundEnter(t)
    BY <2>1, UsePreserves DEF BackgroundEnter
  <2>2. CASE CleanerEnter(t)
    BY <2>2, MaintainPreserves DEF CleanerEnter
  <2>3. CASE RequestArrives(t) \/ RequestBlocked(t)
    BY <2>3, WaitingPreserves
  <2>4. CASE RequestEnter(t)
    <3>1. procState[Home[t]] # "down" /\ pc[t] = "trying"
      BY <2>4 DEF IInv, DeadIsIdle, RequestEnter
    <3> QED BY <2>4, <3>1, UsePreserves, MaintainPreserves DEF RequestEnter
  <2>5. CASE Release(t)
    BY <2>5, ReleasePreserves
  <2>6. CASE EndMaintenance(t)
    BY <2>6, EndPreserves
  <2>7. CASE CommandWorks(t) \/ CommandDone(t)
    BY <2>7, CommandPreserves
  <2> QED BY <1>1, <2>1, <2>2, <2>3, <2>4, <2>5, <2>6, <2>7 DEF ThreadStep
<1>2. ASSUME NEW p \in Procs, ProcStep(p) PROVE IInv'
  BY <1>2, LifePreserves, EndsPreserves DEF ProcStep
<1> QED BY <1>1, <1>2, StutterPreserves DEF Next

\* The invariant holds in every state of every behaviour.
THEOREM Invariance == Spec => []IInv
  BY InitIInv, NextPreserves, PTL DEF Spec

\* Locks, counters, flags, places and tries stay well-formed, whatever runs, stops
\* or is killed.
THEOREM GateTyped == Spec => []TypeOK
<1>1. IInv => TypeOK
  BY DEF IInv
<1> QED BY <1>1, Invariance, PTL

\* Counter and flag are exactly the leases that are out: each is given back once.
THEOREM CountersCorrect == Spec => [](TypeOK /\ CountersMatch)
<1>1. IInv => TypeOK /\ CountersMatch
  BY DEF IInv
<1> QED BY <1>1, Invariance, PTL

\* No deletion runs beside any other operation of its process.
THEOREM ExclusionHolds == Spec => []Exclusion
<1>1. IInv => Exclusion
  <2> SUFFICES ASSUME IInv, NEW t \in Threads, NEW s \in Threads, t # s,
                      Home[t] = Home[s], pc[t] = "maintaining",
                      pc[s] \in {"using", "maintaining"}
               PROVE FALSE
    BY DEF Exclusion
  <2> DEFINE o == Home[t]
  <2>1. o \in Procs
    BY HomeType
  <2>2. t \in MaintainersOf(o)
    BY DEF MaintainersOf, ThreadsOf
  <2>3. UsersOf(o) = {}
    <3>1. maintaining[o]
      BY <2>1, <2>2 DEF IInv, CountersMatch
    <3>2. Cardinality(UsersOf(o)) = 0
      BY <2>1, <3>1 DEF IInv, CountersMatch, AloneInside
    <3> QED BY <2>1, <3>2, Countable, FS_EmptySet
  <2>4. s \in MaintainersOf(o)
    BY <2>3 DEF UsersOf, MaintainersOf, ThreadsOf
  <2>5. Cardinality({t, s}) = 2
    <3>1. IsFiniteSet({t}) /\ Cardinality({t}) = 1
      BY FS_Singleton
    <3>2. Cardinality({t} \cup {s}) = Cardinality({t}) + 1
      <4>1. s \notin {t}
        OBVIOUS
      <4> QED BY <3>1, <4>1, FS_AddElement
    <3>3. {t} \cup {s} = {t, s}
      OBVIOUS
    <3> QED BY <3>1, <3>2, <3>3
  <2>6. Cardinality({t, s}) <= Cardinality(MaintainersOf(o))
    BY <2>1, <2>2, <2>4, Countable, FS_Subset
  <2> QED BY <2>1, <2>5, <2>6, Countable DEF IInv, CountersMatch
<1> QED BY <1>1, Invariance, PTL

\* While nobody has let go of the file lock early, processes take turns, but the
\* commands that never ask for it.
THEOREM TakingTurns == Spec => []OverlapOnlyAfterRelease
<1>1. IInv => OverlapOnlyAfterRelease
  <2> SUFFICES ASSUME IInv, NEW o \in Procs, NEW p \in Procs, o # p, Active(o), Active(p),
                      o \notin Unlocked, p \notin Unlocked
               PROVE "exiting" \in {procState[o], procState[p]}
    BY DEF OverlapOnlyAfterRelease
  <2>1. \A q \in Procs : Active(q) => procState[q] # "down"
    BY DEF IInv, DeadIsIdle, Active, ThreadsOf
  <2>2. procState[o] # "exiting" => lockHolder = o
    BY <2>1 DEF IInv, TypeOK, LockIsHeld
  <2>3. procState[p] # "exiting" => lockHolder = p
    BY <2>1 DEF IInv, TypeOK, LockIsHeld
  <2> QED BY <2>2, <2>3
<1> QED BY <1>1, Invariance, PTL

-----------------------------------------------------------------------------
(* The gate of counters and flags implements the readers-writer gate.      *)

Reading == {t \in Threads : pc[t] = "using"}
Writing == {t \in Threads : pc[t] = "maintaining"}

\* Getting in as a user is getting in as a reader: a closed flag is a writer.
LEMMA UseMaps ==
    ASSUME IInv, NEW t \in Threads, pc[t] \in {"idle", "trying"}, TryAcquire(t)
    PROVE  Gate!EnterShared(t)
<1> DEFINE h == Home[t]
<1>1. h \in Procs /\ ~maintaining[h]
  BY HomeType DEF TryAcquire, CanUse
<1>2. MaintainersOf(h) = {}
  BY <1>1 DEF IInv, CountersMatch
<1>3. Gate!SameHome(t, Writing) = {}
  BY <1>2 DEF MaintainersOf, ThreadsOf, Gate!SameHome, Writing
<1>4. /\ t \notin Reading \cup Writing
      /\ Reading' = Reading \cup {t}
      /\ Writing' = Writing
  BY DEF IInv, TypeOK, TryAcquire, Reading, Writing
<1> QED BY <1>3, <1>4 DEF Gate!EnterShared, Gate!SameHome, Reading, Writing

\* Getting in to delete is getting in as a writer: no count and no flag mean
\* that nobody of the process is inside.
LEMMA MaintainMaps ==
    ASSUME IInv, NEW t \in Threads, pc[t] \in {"idle", "trying"}, BeginMaintenance(t)
    PROVE  Gate!EnterExclusive(t)
<1> DEFINE h == Home[t]
<1>1. h \in Procs /\ ~maintaining[h] /\ users[h] = 0
  BY HomeType DEF BeginMaintenance, CanMaintain
<1>2. MaintainersOf(h) = {} /\ UsersOf(h) = {}
  BY <1>1, Countable, FS_EmptySet DEF IInv, CountersMatch
<1>3. Gate!SameHome(t, Reading \cup Writing) = {}
  BY <1>2 DEF UsersOf, MaintainersOf, ThreadsOf, Gate!SameHome, Reading, Writing
<1>4. /\ t \notin Reading \cup Writing
      /\ Reading' = Reading
      /\ Writing' = Writing \cup {t}
  BY DEF IInv, TypeOK, BeginMaintenance, Reading, Writing
<1> QED BY <1>3, <1>4 DEF Gate!EnterExclusive, Gate!SameHome, Reading, Writing

\* The way out, and everything that is no way through the gate.
LEMMA RestMaps ==
    ASSUME IInv, NEW t \in Threads
    PROVE  /\ Release(t) \/ EndMaintenance(t) => Gate!Leave(t)
           /\ \/ RequestArrives(t) \/ RequestBlocked(t)
              \/ CommandWorks(t) \/ CommandDone(t)
              => UNCHANGED Gate!gate
<1>1. ASSUME Release(t) \/ EndMaintenance(t) PROVE Gate!Leave(t)
  BY <1>1 DEF IInv, TypeOK, Release, EndMaintenance, Gate!Leave
<1>2. ASSUME \/ RequestArrives(t) \/ RequestBlocked(t)
             \/ CommandWorks(t) \/ CommandDone(t)
      PROVE UNCHANGED Gate!gate
  <2>1. \A s \in Threads : /\ pc'[s] = "using" <=> pc[s] = "using"
                           /\ pc'[s] = "maintaining" <=> pc[s] = "maintaining"
    BY <1>2 DEF IInv, TypeOK, RequestArrives, RequestBlocked, CommandWorks, CommandDone
  <2> QED BY <2>1 DEF Gate!gate
<1> QED BY <1>1, <1>2

\* The end of a process takes out whoever it had inside.
LEMMA EndMaps ==
    ASSUME IInv, NEW p \in Procs, ProcessEnds(p)
    PROVE  [Gate!Next]_Gate!gate
<1>1. ASSUME NEW t \in Threads, Home[t] = p PROVE Gate!Vanish(t)
  BY <1>1 DEF IInv, TypeOK, ProcessEnds, Gate!Vanish, Gate!SameHome
<1>2. CASE \A t \in Threads : Home[t] # p
  <2>1. \A t \in Threads : pc'[t] = pc[t]
    BY <1>2 DEF ProcessEnds
  <2> QED BY <2>1 DEF Gate!gate
<1> QED BY <1>1, <1>2 DEF Gate!Next

\* One step of the gate of counters is one step of the abstract gate, or none.
LEMMA StepMaps == IInv /\ [Next]_vars => [Gate!Next]_Gate!gate
<1> SUFFICES ASSUME IInv, [Next]_vars PROVE [Gate!Next]_Gate!gate
  OBVIOUS
<1>1. ASSUME NEW t \in Threads, ThreadStep(t) PROVE [Gate!Next]_Gate!gate
  <2>1. CASE BackgroundEnter(t)
    BY <2>1, UseMaps DEF BackgroundEnter, Gate!Next
  <2>2. CASE CleanerEnter(t)
    BY <2>2, MaintainMaps DEF CleanerEnter, Gate!Next
  <2>3. CASE RequestEnter(t)
    BY <2>3, UseMaps, MaintainMaps DEF RequestEnter, Gate!Next
  <2>4. CASE \/ RequestArrives(t) \/ RequestBlocked(t)
             \/ CommandWorks(t) \/ CommandDone(t)
    BY <2>4, RestMaps
  <2>5. CASE Release(t) \/ EndMaintenance(t)
    BY <2>5, RestMaps DEF Gate!Next
  <2> QED BY <1>1, <2>1, <2>2, <2>3, <2>4, <2>5 DEF ThreadStep
<1>2. ASSUME NEW p \in Procs, ProcStep(p) PROVE [Gate!Next]_Gate!gate
  <2>1. CASE ProcessEnds(p)
    BY <2>1, EndMaps
  <2>2. CASE Start(p) \/ BeginStop(p) \/ ReleaseProcessLock(p)
    BY <2>2 DEF Start, BeginStop, ReleaseProcessLock, Gate!gate
  <2> QED BY <1>2, <2>1, <2>2 DEF ProcStep
<1>3. CASE UNCHANGED vars
  BY <1>3 DEF vars, Gate!gate
<1> QED BY <1>1, <1>2, <1>3 DEF Next

\* The storage gate of counters, flags and retries implements the abstract
\* readers-writer gate, whatever processes and threads there are.
THEOREM Refinement == Spec => ImplementsGate
<1>1. Init => Gate!Init
  BY DEF Init, Gate!Init
<1> QED BY <1>1, StepMaps, Invariance, PTL DEF Spec, ImplementsGate, Gate!Spec
=============================================================================
