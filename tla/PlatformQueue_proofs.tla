------------------------ MODULE PlatformQueue_proofs ------------------------
(***************************************************************************)
(* Proofs about the extraction queue, for any runs, tasks, platforms and   *)
(* rounds and for every mixture of ends of visits, cool-downs, lost and    *)
(* renewed sessions and restarts: the safety properties PlatformQueue      *)
(* states are one inductive invariant, with three additions.               *)
(***************************************************************************)
EXTENDS PlatformQueue, FiniteSetTheorems, WellFoundedInduction, TLAPS

\* A redirect is noted only while there is a round left to try it in.
RoundsLeft ==
    \A t \in Tasks : cp[t].home => cp[t].homeRound < HOMEPAGE_MAX_RETRY_ROUNDS

\* No task is the probe and held back behind it.
FlagsApart == \A t \in Tasks : ~ (cp[t].probe /\ cp[t].blocked)

\* What runs was taken by a lane that has not been asked again since.
LaneAtWork == \A t \in Tasks : status[t] = "running" => PlatformOf[t] \in lanesRun

IInv ==
    /\ TypeOK
    /\ RoundsLeft
    /\ FlagsApart
    /\ LaneAtWork
    /\ ServedInOrder
    /\ RoundBarrier
    /\ NothingRunsUnauthenticated
    /\ ProbeGoesFirst
    /\ LimitedGoesAlone
    /\ RunEndsWithTasks

-----------------------------------------------------------------------------
(* The operators.                                                          *)

\* The first task of a set is one of it, and none of it has a lower number.
LEMMA FirstIsLeast ==
    ASSUME NEW S, S \subseteq Tasks, S # {}
    PROVE  First(S) \in S /\ \A s \in S : Sequence[First(S)] <= Sequence[s]
<1> DEFINE N == {Sequence[s] : s \in S}
<1>1. N \subseteq Nat /\ N # {}
  BY SequenceType
<1>2. \E x \in N : \A y \in N : ~ (<<y, x>> \in OpToRel(<, Nat))
  BY <1>1, NatLessThanWellFounded, WFMin
<1>3. PICK x \in N : \A y \in N : ~ (<<y, x>> \in OpToRel(<, Nat))
  BY <1>2
<1>4. ASSUME NEW y \in N PROVE x <= y
  <2>1. x \in Nat /\ y \in Nat
    BY <1>1
  <2>2. ~ (y < x)
    BY <1>3, <2>1 DEF OpToRel
  <2> HIDE DEF N
  <2> QED BY <2>1, <2>2
<1>5. \E t \in S : \A s \in S : Sequence[t] <= Sequence[s]
  BY <1>4
<1> QED BY <1>5 DEF First

\* The status of a run is one of the terminal ones exactly when those of all
\* its tasks are, whatever their checkpoints and results.
LEMMA AggregateEnds ==
    ASSUME NEW r \in Runs, NEW st \in [Tasks -> Statuses], NEW c, NEW sv
    PROVE  /\ Aggregate(r, st, c, sv) \in Statuses
           /\ Aggregate(r, st, c, sv) \in Terminal
                <=> \A t \in TasksOf(r) : st[t] \in Terminal
<1>1. TasksOf(r) \subseteq Tasks
  BY DEF TasksOf
<1>2. CASE \A t \in TasksOf(r) : st[t] \in Terminal
  BY <1>1, <1>2 DEF Aggregate, Terminal, Statuses
<1>3. CASE \E t \in TasksOf(r) : st[t] \notin Terminal
  BY <1>1, <1>3 DEF Aggregate, Terminal, Statuses
<1> QED BY <1>2, <1>3

\* What a visit leaves of the task itself: it no longer runs, its checkpoint is
\* well-formed, its round has not gone back, its flags are as they were.
LEMMA VisitEnds ==
    ASSUME TypeOK, RoundsLeft, NEW t \in Tasks, NEW k \in AllKinds
    PROVE  /\ StatusAfter(t, k) \in Statuses \ {"running"}
           /\ CheckpointAfter(t, k) \in Checkpoints
           /\ CheckpointAfter(t, k).probe = cp[t].probe
           /\ CheckpointAfter(t, k).blocked = cp[t].blocked
           /\ CheckpointAfter(t, k).home =>
                CheckpointAfter(t, k).homeRound < HOMEPAGE_MAX_RETRY_ROUNDS
           /\ Round(CheckpointAfter(t, k)) >= Round(cp[t])
<1> DEFINE c == Rebuilt(cp[t])
           d == CheckpointAfter(t, k)
           Good(e) == /\ e \in Checkpoints
                      /\ e.probe = cp[t].probe /\ e.blocked = cp[t].blocked
                      /\ e.home => e.homeRound < HOMEPAGE_MAX_RETRY_ROUNDS
                      /\ Round(e) >= Round(cp[t])
<1> HIDE DEF d
<1>1. /\ cp[t] \in Checkpoints
      /\ cp[t].home => cp[t].homeRound < HOMEPAGE_MAX_RETRY_ROUNDS
      /\ HOMEPAGE_MAX_RETRY_ROUNDS \in Nat
  BY HomeRoundsType DEF TypeOK, RoundsLeft
<1>2. StatusAfter(t, k) \in Statuses \ {"running"}
  BY DEF StatusAfter, Statuses, Terminal
<1>3. /\ c = [homeRound |-> cp[t].homeRound, wave |-> cp[t].wave, used |-> cp[t].used,
              home |-> cp[t].home, probe |-> cp[t].probe, blocked |-> cp[t].blocked,
              code |-> "none", due |-> TRUE]
      /\ c \in Checkpoints
  <2>1. c = [homeRound |-> cp[t].homeRound, wave |-> cp[t].wave, used |-> cp[t].used,
             home |-> cp[t].home, probe |-> cp[t].probe, blocked |-> cp[t].blocked,
             code |-> "none", due |-> TRUE]
    <3>1. cp[t] = [homeRound |-> cp[t].homeRound, wave |-> cp[t].wave,
                   used |-> cp[t].used, home |-> cp[t].home, probe |-> cp[t].probe,
                   blocked |-> cp[t].blocked, code |-> cp[t].code, due |-> cp[t].due]
      BY <1>1 DEF Checkpoints
    <3> DEFINE b == cp[t]
    <3>2. c = [b EXCEPT !.code = "none", !.due = TRUE]
      BY Zenon DEF Rebuilt
    <3> HIDE DEF b
    <3> QED BY <3>1, <3>2, Zenon DEF b
  <2> HIDE DEF c
  <2> QED BY <1>1, <2>1 DEF Checkpoints
<1> HIDE DEF c
<1>4. ASSUME d = c PROVE Good(d)
  BY <1>1, <1>3, <1>4 DEF Checkpoints, Round
<1>5. ASSUME d = [c EXCEPT !.used = TRUE, !.wave = TRUE, !.code = "batch", !.due = FALSE]
      PROVE Good(d)
  <2>1. d = [homeRound |-> cp[t].homeRound, wave |-> TRUE, used |-> TRUE,
             home |-> cp[t].home, probe |-> cp[t].probe, blocked |-> cp[t].blocked,
             code |-> "batch", due |-> FALSE]
    BY <1>3, <1>5, Zenon
  <2> QED BY <1>1, <2>1 DEF Checkpoints, Round
<1>6. ASSUME k \in {"network", "rate"}, d = [c EXCEPT !.code = k, !.due = FALSE]
      PROVE Good(d)
  <2>1. d = [homeRound |-> cp[t].homeRound, wave |-> cp[t].wave, used |-> cp[t].used,
             home |-> cp[t].home, probe |-> cp[t].probe, blocked |-> cp[t].blocked,
             code |-> k, due |-> FALSE]
    BY <1>3, <1>6, Zenon
  <2>2. k \in {"network", "rate"}
    BY <1>6, Zenon
  <2> QED BY <1>1, <2>1, <2>2 DEF Checkpoints, Round
<1>7. ASSUME cp[t].home,
             d = [c EXCEPT !.homeRound = @ + 1, !.home = FALSE, !.wave = TRUE,
                           !.code = "home"]
      PROVE Good(d)
  <2>1. d = [homeRound |-> cp[t].homeRound + 1, wave |-> TRUE, used |-> cp[t].used,
             home |-> FALSE, probe |-> cp[t].probe, blocked |-> cp[t].blocked,
             code |-> "home", due |-> TRUE]
    BY <1>3, <1>7, Zenon
  <2>2. cp[t].home
    BY <1>7, Zenon
  <2> QED BY <1>1, <2>1, <2>2 DEF Checkpoints, Round
<1>8. HasRetry(t, k) /\ k # "batch" /\ k \notin {"network", "rate"} => cp[t].home
  BY DEF HasRetry
<1> HIDE DEF Good
<1>9. Good(d)
  <2>1. CASE ~ HasRetry(t, k)
    <3>1. d = c
      BY <2>1, Zenon DEF CheckpointAfter, c, d
    <3> QED BY <1>4, <3>1
  <2>2. CASE HasRetry(t, k) /\ k = "batch"
    <3>1. d = [c EXCEPT !.used = TRUE, !.wave = TRUE, !.code = "batch", !.due = FALSE]
      BY <2>2, Zenon DEF CheckpointAfter, c, d
    <3> QED BY <1>5, <3>1, Zenon
  <2>3. CASE HasRetry(t, k) /\ k # "batch" /\ k \in {"network", "rate"}
    <3>1. d = [c EXCEPT !.code = k, !.due = FALSE]
      BY <2>3, Zenon DEF CheckpointAfter, c, d
    <3> QED BY <1>6, <2>3, <3>1, Zenon
  <2>4. CASE HasRetry(t, k) /\ k # "batch" /\ k \notin {"network", "rate"}
    <3>1. d = [c EXCEPT !.homeRound = @ + 1, !.home = FALSE, !.wave = TRUE,
                        !.code = "home"]
      BY <2>4, Zenon DEF CheckpointAfter, c, d
    <3> QED BY <1>7, <1>8, <2>4, <3>1, Zenon
  <2> QED BY <2>1, <2>2, <2>3, <2>4
<1> QED BY <1>2, <1>9, Zenon DEF Good, d

\* Writing the keys of a recovery leaves everything else as it was.
LEMMA FlagsWritten ==
    ASSUME NEW c \in Checkpoints, NEW a \in BOOLEAN, NEW b \in BOOLEAN
    PROVE  /\ WithFlags(c, a, b) \in Checkpoints
           /\ WithFlags(c, a, b).probe = a
           /\ WithFlags(c, a, b).blocked = b
           /\ WithFlags(c, a, b).home = c.home
           /\ WithFlags(c, a, b).homeRound = c.homeRound
           /\ WithFlags(c, a, b).code = c.code
           /\ Round(WithFlags(c, a, b)) = Round(c)
<1> DEFINE d == WithFlags(c, a, b)
<1>1. c = [homeRound |-> c.homeRound, wave |-> c.wave, used |-> c.used, home |-> c.home,
           probe |-> c.probe, blocked |-> c.blocked, code |-> c.code, due |-> c.due]
  BY DEF Checkpoints
<1>2. d = [c EXCEPT !.probe = a, !.blocked = b]
  BY Zenon DEF WithFlags
<1> HIDE DEF d
<1>3. d = [homeRound |-> c.homeRound, wave |-> c.wave, used |-> c.used, home |-> c.home,
           probe |-> a, blocked |-> b, code |-> c.code, due |-> c.due]
  BY <1>1, <1>2, Zenon
<1>4. /\ d \in Checkpoints /\ d.probe = a /\ d.blocked = b /\ d.home = c.home
      /\ d.homeRound = c.homeRound /\ d.code = c.code /\ Round(d) = Round(c)
  BY <1>3 DEF Checkpoints, Round
<1> QED BY <1>4, Zenon DEF d

\* A round is a number.
LEMMA RoundType == ASSUME NEW c \in Checkpoints PROVE Round(c) \in Nat
  BY HomeRoundsType DEF Checkpoints, Round

\* What the end of a probe lets go: the keys of a recovery are only taken away,
\* and a task that neither ran here nor is queued is left alone.
LEMMA ReleasedKeeps ==
    ASSUME NEW p, NEW st, NEW c \in [Tasks -> Checkpoints], NEW t \in Tasks
    PROVE  /\ Released(p, st, c) \in [Tasks -> Checkpoints]
           /\ Released(p, st, c)[t].home = c[t].home
           /\ Released(p, st, c)[t].homeRound = c[t].homeRound
           /\ Round(Released(p, st, c)[t]) = Round(c[t])
           /\ Released(p, st, c)[t].probe => c[t].probe
           /\ Released(p, st, c)[t].blocked => c[t].blocked
           /\ t \notin Running(p) /\ status[t] # "queued" => Released(p, st, c)[t] = c[t]
<1> DEFINE over == {s \in Running(p) : cp[s].probe /\ st[s] \in Terminal}
           e(s) == IF s \in over THEN WithFlags(c[s], FALSE, FALSE)
                   ELSE IF status[s] = "queued" /\ PlatformOf[s] = p
                           /\ \E u \in over : RunOf[u] = RunOf[s]
                        THEN WithFlags(c[s], c[s].probe, FALSE)
                   ELSE c[s]
<1>1. Released(p, st, c) = [s \in Tasks |-> e(s)]
  BY Zenon DEF Released
<1>2. over \subseteq Running(p)
  OBVIOUS
<1>3. ASSUME NEW s \in Tasks
      PROVE  \/ s \in Running(p) /\ e(s) = WithFlags(c[s], FALSE, FALSE)
             \/ status[s] = "queued" /\ e(s) = WithFlags(c[s], c[s].probe, FALSE)
             \/ e(s) = c[s]
  BY <1>2, Zenon
<1>4. ASSUME NEW s \in Tasks
      PROVE  c[s] \in Checkpoints /\ c[s].probe \in BOOLEAN
  BY DEF Checkpoints
<1> HIDE DEF e, over
<1>5. ASSUME NEW s \in Tasks
      PROVE  /\ e(s) \in Checkpoints
             /\ e(s).home = c[s].home
             /\ e(s).homeRound = c[s].homeRound
             /\ Round(e(s)) = Round(c[s])
             /\ e(s).probe => c[s].probe
             /\ e(s).blocked => c[s].blocked
  <2>1. CASE e(s) = WithFlags(c[s], FALSE, FALSE)
    <3> DEFINE w == WithFlags(c[s], FALSE, FALSE)
    <3>1. /\ w \in Checkpoints /\ w.home = c[s].home
          /\ w.homeRound = c[s].homeRound /\ Round(w) = Round(c[s])
          /\ ~ w.probe /\ ~ w.blocked
      BY <1>4, FlagsWritten, Zenon
    <3>2. e(s) = w
      BY <2>1, Zenon
    <3> HIDE DEF w
    <3> QED BY <3>1, <3>2
  <2>2. CASE e(s) = WithFlags(c[s], c[s].probe, FALSE)
    <3> DEFINE w == WithFlags(c[s], c[s].probe, FALSE)
    <3>1. /\ w \in Checkpoints /\ w.home = c[s].home
          /\ w.homeRound = c[s].homeRound /\ Round(w) = Round(c[s])
          /\ w.probe = c[s].probe /\ ~ w.blocked
      BY <1>4, FlagsWritten, Zenon
    <3>2. e(s) = w
      BY <2>2, Zenon
    <3> HIDE DEF w
    <3> QED BY <3>1, <3>2
  <2>3. CASE e(s) = c[s]
    BY <1>4, <2>3
  <2> QED BY <1>3, <2>1, <2>2, <2>3, Zenon
<1>6. Released(p, st, c) \in [Tasks -> Checkpoints]
  BY <1>1, <1>5
<1>7. Released(p, st, c)[t] = e(t)
  BY <1>1
<1>8. t \notin Running(p) /\ status[t] # "queued" => e(t) = c[t]
  BY <1>3
<1> QED BY <1>5, <1>6, <1>7, <1>8

\* A new session only writes the keys of a recovery, on queued and waiting tasks.
LEMMA MarkedKeeps ==
    ASSUME TypeOK, FlagsApart, NEW p, NEW t \in Tasks
    PROVE  /\ Marked(p) \in [Tasks -> Checkpoints]
           /\ Marked(p)[t].home = cp[t].home
           /\ Marked(p)[t].homeRound = cp[t].homeRound
           /\ Round(Marked(p)[t]) = Round(cp[t])
           /\ ~ (Marked(p)[t].probe /\ Marked(p)[t].blocked)
           /\ status[t] = "running" => Marked(p)[t] = cp[t]
<1> DEFINE waiting == On(p, "waiting_for_auth")
           front(s) == First(waiting \cap TasksOf(RunOf[s]))
           e(s) == IF s \in waiting \cup On(p, "queued")
                      /\ waiting \cap TasksOf(RunOf[s]) # {}
                   THEN WithFlags(cp[s], s = front(s), s # front(s)) ELSE cp[s]
<1>1. Marked(p) = [s \in Tasks |-> e(s)]
  BY Zenon DEF Marked
<1>2. ASSUME NEW s \in Tasks
      PROVE  \/ /\ s \in waiting \cup On(p, "queued")
                /\ e(s) = WithFlags(cp[s], s = front(s), s # front(s))
             \/ e(s) = cp[s]
  BY Zenon
<1>3. ASSUME NEW s \in Tasks
      PROVE  s \in waiting \cup On(p, "queued") => status[s] # "running"
  BY DEF On
<1>4. ASSUME NEW s \in Tasks
      PROVE  /\ cp[s] \in Checkpoints /\ ~ (cp[s].probe /\ cp[s].blocked)
             /\ (s = front(s)) \in BOOLEAN /\ (s # front(s)) \in BOOLEAN
  BY DEF TypeOK, FlagsApart
<1> HIDE DEF e, waiting, front
<1>5. ASSUME NEW s \in Tasks
      PROVE  /\ e(s) \in Checkpoints
             /\ e(s).home = cp[s].home
             /\ e(s).homeRound = cp[s].homeRound
             /\ Round(e(s)) = Round(cp[s])
             /\ ~ (e(s).probe /\ e(s).blocked)
  <2>1. CASE e(s) = WithFlags(cp[s], s = front(s), s # front(s))
    <3> DEFINE w == WithFlags(cp[s], s = front(s), s # front(s))
    <3>1. /\ w \in Checkpoints /\ w.home = cp[s].home
          /\ w.homeRound = cp[s].homeRound /\ Round(w) = Round(cp[s])
          /\ ~ (w.probe /\ w.blocked)
      BY <1>4, FlagsWritten, Zenon
    <3>2. e(s) = w
      BY <2>1, Zenon
    <3> HIDE DEF w
    <3> QED BY <3>1, <3>2
  <2>2. CASE e(s) = cp[s]
    BY <1>4, <2>2
  <2> QED BY <1>2, <2>1, <2>2, Zenon
<1>6. Marked(p) \in [Tasks -> Checkpoints]
  BY <1>1, <1>5
<1>7. Marked(p)[t] = e(t)
  BY <1>1
<1>8. status[t] = "running" => e(t) = cp[t]
  BY <1>2, <1>3
<1> QED BY <1>5, <1>6, <1>7, <1>8

-----------------------------------------------------------------------------
(* Steps that take no task.                                                *)

\* What every step but a lane's leaves behind: nothing begins to run, what runs
\* on keeps the keys it was taken by, and nothing final is undone.
Calm ==
    /\ \A t \in Tasks : status'[t] = "running" =>
        /\ status[t] = "running"
        /\ cp'[t].probe = cp[t].probe
        /\ cp'[t].blocked = cp[t].blocked
        /\ cp'[t].code = cp[t].code
        /\ Round(cp'[t]) = Round(cp[t])
        /\ PlatformOf[t] \in lanesRun'
    /\ \A t, s \in Tasks :
        status'[t] = "waiting_for_auth" /\ PlatformOf[s] = PlatformOf[t] =>
            status[t] = "waiting_for_auth" \/ status'[s] # "running"

\* What is final stays so, and no round is gone back.
Onward ==
    \A t \in Tasks :
        /\ status[t] \in Terminal => status'[t] = status[t]
        /\ saved[t] => saved'[t]
        /\ Round(cp'[t]) >= Round(cp[t])

\* A calm step keeps the order, the barrier and the care.
LEMMA CalmPreserves ==
    ASSUME IInv, TypeOK', Calm, Onward
    PROVE  /\ LaneAtWork'
           /\ ServedInOrder'
           /\ RoundBarrier'
           /\ NothingRunsUnauthenticated'
           /\ ProbeGoesFirst'
           /\ LimitedGoesAlone'
<1>1. LaneAtWork'
  BY DEF Calm, LaneAtWork
<1>2. ServedInOrder'
  BY DEF IInv, Calm, Onward, ServedInOrder
<1>3. RoundBarrier'
  <2>1. SUFFICES ASSUME NEW t \in Tasks, NEW s \in Tasks, RunOf[t] = RunOf[s],
                        status'[t] = "running", status'[s] \notin Terminal
                 PROVE  Round(cp'[t]) <= Round(cp'[s])
    BY Zenon DEF RoundBarrier
  <2>2. Round(cp[t]) <= Round(cp[s])
    <3>1. status[t] = "running"
      BY <2>1, Zenon DEF Calm
    <3>2. status[s] \notin Terminal
      BY <2>1, Zenon DEF Onward
    <3> QED BY <2>1, <3>1, <3>2 DEF IInv, RoundBarrier
  <2>3. Round(cp'[t]) = Round(cp[t])
    BY <2>1, Zenon DEF Calm
  <2>4. Round(cp'[s]) >= Round(cp[s])
    BY Zenon DEF Onward
  <2>5. Round(cp[t]) \in Nat /\ Round(cp[s]) \in Nat /\ Round(cp'[s]) \in Nat
    BY RoundType DEF IInv, TypeOK
  <2> QED BY <2>2, <2>3, <2>4, <2>5
<1>4. NothingRunsUnauthenticated'
  BY DEF IInv, Calm, NothingRunsUnauthenticated, On, Running
<1>5. ProbeGoesFirst'
  BY DEF IInv, Calm, ProbeGoesFirst
<1>6. LimitedGoesAlone'
  BY DEF IInv, Calm, LimitedGoesAlone
<1> QED BY <1>1, <1>2, <1>3, <1>4, <1>5, <1>6

\* A step that leaves the tasks where they are.
LEMMA StatusKept ==
    ASSUME TypeOK, NEW r \in Runs, status' = status, RunEndsWithTasks,
           runStatus' = [runStatus EXCEPT ![r] = Aggregate(r, status, cp, saved')]
    PROVE  runStatus' \in [Runs -> Statuses] /\ RunEndsWithTasks'
<1>1. /\ Aggregate(r, status, cp, saved') \in Statuses
      /\ Aggregate(r, status, cp, saved') \in Terminal
            <=> \A t \in TasksOf(r) : status[t] \in Terminal
  BY AggregateEnds DEF TypeOK
<1> DEFINE a == Aggregate(r, status, cp, saved')
<1> HIDE DEF a
<1>2. /\ runStatus' = [runStatus EXCEPT ![r] = a] /\ a \in Statuses
      /\ a \in Terminal <=> \A t \in TasksOf(r) : status[t] \in Terminal
  BY <1>1, Zenon DEF a
<1> QED BY <1>2 DEF TypeOK, RunEndsWithTasks

LEMMA ProgressStep ==
    ASSUME IInv, NEW t \in Tasks, Progress(t)
    PROVE  TypeOK' /\ RoundsLeft' /\ FlagsApart' /\ RunEndsWithTasks' /\ Calm /\ Onward
<1>1. /\ status' = status /\ cp' = cp /\ lanesRun' = lanesRun /\ trouble' = trouble
      /\ saved' = [saved EXCEPT ![t] = TRUE]
      /\ runStatus' = [runStatus EXCEPT ![RunOf[t]] =
                        Aggregate(RunOf[t], status, cp, saved')]
  BY DEF Progress
<1>2. runStatus' \in [Runs -> Statuses] /\ RunEndsWithTasks'
  BY <1>1, StatusKept, RunOfType DEF IInv
<1>3. TypeOK'
  BY <1>1, <1>2 DEF IInv, TypeOK
<1>4. RoundsLeft' /\ FlagsApart'
  BY <1>1 DEF IInv, RoundsLeft, FlagsApart
<1>5. Calm
  BY <1>1 DEF IInv, Calm, LaneAtWork
<1>6. Onward
  <2>1. \A s \in Tasks : Round(cp[s]) \in Nat
    BY RoundType DEF IInv, TypeOK
  <2> QED BY <1>1, <2>1 DEF Onward, IInv, TypeOK
<1> QED BY <1>2, <1>3, <1>4, <1>5, <1>6

\* A step that only writes, to one task, a key no property looks at.
LEMMA KeyWritten ==
    ASSUME IInv, NEW t \in Tasks, NEW c \in Checkpoints, cp' = [cp EXCEPT ![t] = c],
           c.home => c.homeRound < HOMEPAGE_MAX_RETRY_ROUNDS,
           c.probe = cp[t].probe, c.blocked = cp[t].blocked, c.code = cp[t].code,
           Round(c) = Round(cp[t]),
           UNCHANGED <<status, saved, runStatus, lanesRun, trouble>>
    PROVE  TypeOK' /\ RoundsLeft' /\ FlagsApart' /\ RunEndsWithTasks' /\ Calm /\ Onward
<1>1. TypeOK' /\ RoundsLeft' /\ FlagsApart' /\ RunEndsWithTasks'
  BY DEF IInv, TypeOK, RoundsLeft, FlagsApart, RunEndsWithTasks
<1>2. Calm
  BY DEF IInv, TypeOK, Calm, LaneAtWork
<1>3. Onward
  <2>1. \A s \in Tasks : Round(cp[s]) \in Nat
    BY RoundType DEF IInv, TypeOK
  <2> QED BY <2>1 DEF Onward, IInv, TypeOK
<1> QED BY <1>1, <1>2, <1>3

LEMMA HomeRedirectStep ==
    ASSUME IInv, NEW t \in Tasks, HomeRedirect(t)
    PROVE  TypeOK' /\ RoundsLeft' /\ FlagsApart' /\ RunEndsWithTasks' /\ Calm /\ Onward
<1> DEFINE c == [cp[t] EXCEPT !.home = TRUE]
<1>1. /\ cp' = [cp EXCEPT ![t] = c]
      /\ cp[t].homeRound < HOMEPAGE_MAX_RETRY_ROUNDS
      /\ UNCHANGED <<status, saved, runStatus, lanesRun, trouble>>
  BY Zenon DEF HomeRedirect
<1>2. /\ c \in Checkpoints /\ c.homeRound = cp[t].homeRound
      /\ c.probe = cp[t].probe /\ c.blocked = cp[t].blocked /\ c.code = cp[t].code
      /\ Round(c) = Round(cp[t])
  BY DEF IInv, TypeOK, Checkpoints, Round
<1> HIDE DEF c
<1> QED BY <1>1, <1>2, KeyWritten

LEMMA CoolDownStep ==
    ASSUME IInv, NEW t \in Tasks, CoolDown(t)
    PROVE  TypeOK' /\ RoundsLeft' /\ FlagsApart' /\ RunEndsWithTasks' /\ Calm /\ Onward
<1> DEFINE c == [cp[t] EXCEPT !.due = TRUE]
<1>1. /\ cp' = [cp EXCEPT ![t] = c]
      /\ UNCHANGED <<status, saved, runStatus, lanesRun, trouble>>
  BY Zenon DEF CoolDown
<1>2. /\ c \in Checkpoints /\ c.homeRound = cp[t].homeRound /\ c.home = cp[t].home
      /\ c.probe = cp[t].probe /\ c.blocked = cp[t].blocked /\ c.code = cp[t].code
      /\ Round(c) = Round(cp[t])
  BY DEF IInv, TypeOK, Checkpoints, Round
<1>3. c.home => c.homeRound < HOMEPAGE_MAX_RETRY_ROUNDS
  BY <1>2 DEF IInv, RoundsLeft
<1> HIDE DEF c
<1> QED BY <1>1, <1>2, <1>3, KeyWritten

LEMMA NextRoundStep ==
    ASSUME IInv, NextRound
    PROVE  TypeOK' /\ RoundsLeft' /\ FlagsApart' /\ RunEndsWithTasks' /\ Calm /\ Onward
<1>1. /\ lanesRun' = {} /\ status' = status /\ cp' = cp /\ saved' = saved
      /\ runStatus' = runStatus /\ trouble' = trouble
      /\ \A p \in Platforms : Running(p) = {}
  BY DEF NextRound
<1>2. TypeOK' /\ RoundsLeft' /\ FlagsApart' /\ RunEndsWithTasks'
  BY <1>1 DEF IInv, TypeOK, RoundsLeft, FlagsApart, RunEndsWithTasks
<1>3. \A t \in Tasks : status[t] # "running"
  BY <1>1, PlatformOfType DEF Running, On
<1>4. Calm
  BY <1>1, <1>3 DEF Calm
<1>5. Onward
  <2>1. \A s \in Tasks : Round(cp[s]) \in Nat
    BY RoundType DEF IInv, TypeOK
  <2> QED BY <1>1, <2>1 DEF Onward
<1> QED BY <1>2, <1>4, <1>5

LEMMA RestartStep ==
    ASSUME IInv, Restart
    PROVE  TypeOK' /\ RoundsLeft' /\ FlagsApart' /\ RunEndsWithTasks' /\ Calm /\ Onward
<1>1. /\ lanesRun' = {} /\ cp' = cp /\ saved' = saved
      /\ trouble < MaxTrouble /\ trouble' = trouble + 1
      /\ status' = [t \in Tasks |->
                        IF status[t] = "running" THEN "queued" ELSE status[t]]
      /\ runStatus' = [r \in Runs |->
            IF runStatus[r] = "running" /\ \E t \in TasksOf(r) : status[t] = "running"
            THEN "queued" ELSE runStatus[r]]
  BY DEF Restart
<1>2. TypeOK'
  BY <1>1, BoundsType DEF IInv, TypeOK, Statuses
<1>3. RoundsLeft' /\ FlagsApart'
  BY <1>1 DEF IInv, RoundsLeft, FlagsApart
<1>4. RunEndsWithTasks'
  <2>1. \A r \in Runs : TasksOf(r) \subseteq Tasks
    BY DEF TasksOf
  <2>2. \A t \in Tasks : status'[t] \in Terminal <=> status[t] \in Terminal
    BY <1>1 DEF Terminal
  <2>3. \A r \in Runs : runStatus'[r] \in Terminal <=> runStatus[r] \in Terminal
    BY <1>1 DEF Terminal
  <2> QED BY <2>1, <2>2, <2>3, Zenon DEF IInv, RunEndsWithTasks
<1>5. Calm
  BY <1>1 DEF Calm
<1>6. Onward
  <2>1. \A s \in Tasks : Round(cp[s]) \in Nat
    BY RoundType DEF IInv, TypeOK
  <2> QED BY <1>1, <2>1 DEF Onward, Terminal
<1> QED BY <1>2, <1>3, <1>4, <1>5, <1>6

LEMMA EndAuthWaitStep ==
    ASSUME IInv, NEW r \in Runs, EndAuthWait(r)
    PROVE  TypeOK' /\ RoundsLeft' /\ FlagsApart' /\ RunEndsWithTasks' /\ Calm /\ Onward
<1>1. /\ status' = [t \in Tasks |->
            IF RunOf[t] = r /\ status[t] = "waiting_for_auth"
            THEN (IF saved[t] THEN "partial_success" ELSE "failed") ELSE status[t]]
      /\ runStatus' = [runStatus EXCEPT ![r] = Aggregate(r, status', cp, saved)]
      /\ cp' = cp /\ saved' = saved /\ lanesRun' = lanesRun /\ trouble' = trouble
  BY DEF EndAuthWait
<1>2. status' \in [Tasks -> Statuses]
  BY <1>1 DEF IInv, TypeOK, Statuses, Terminal
<1>3. PICK a \in Statuses :
        /\ runStatus' = [runStatus EXCEPT ![r] = a]
        /\ a \in Terminal <=> \A t \in TasksOf(r) : status'[t] \in Terminal
  BY <1>1, <1>2, AggregateEnds, Zenon
<1>4. TypeOK'
  BY <1>1, <1>2, <1>3 DEF IInv, TypeOK
<1>5. RoundsLeft' /\ FlagsApart'
  BY <1>1 DEF IInv, RoundsLeft, FlagsApart
<1>6. RunEndsWithTasks'
  <2>1. ASSUME NEW q \in Runs, q # r
        PROVE  /\ runStatus'[q] = runStatus[q]
               /\ \A t \in TasksOf(q) : status'[t] = status[t]
    BY <1>1, <1>3, <2>1 DEF IInv, TypeOK, TasksOf
  <2>2. runStatus'[r] = a
    BY <1>3 DEF IInv, TypeOK
  <2> QED BY <1>3, <2>1, <2>2, Zenon DEF IInv, RunEndsWithTasks
<1>7. Calm
  BY <1>1 DEF IInv, Calm, LaneAtWork
<1>8. Onward
  <2>1. \A s \in Tasks : Round(cp[s]) \in Nat
    BY RoundType DEF IInv, TypeOK
  <2> QED BY <1>1, <2>1 DEF Onward, Terminal
<1> QED BY <1>4, <1>5, <1>6, <1>7, <1>8

LEMMA ResumeStep ==
    ASSUME IInv, NEW p \in Platforms, Resume(p)
    PROVE  TypeOK' /\ RoundsLeft' /\ FlagsApart' /\ RunEndsWithTasks' /\ Calm /\ Onward
<1> DEFINE waiting == On(p, "waiting_for_auth")
<1>1. /\ status' = [t \in Tasks |-> IF t \in waiting THEN "queued" ELSE status[t]]
      /\ runStatus' = [r \in Runs |->
            IF waiting \cap TasksOf(r) # {} THEN "queued" ELSE runStatus[r]]
      /\ cp' = Marked(p)
      /\ saved' = saved /\ lanesRun' = lanesRun /\ trouble' = trouble
  BY DEF Resume
<1>2. /\ Marked(p) \in [Tasks -> Checkpoints]
      /\ \A t \in Tasks :
            /\ Marked(p)[t].home = cp[t].home
            /\ Marked(p)[t].homeRound = cp[t].homeRound
            /\ Round(Marked(p)[t]) = Round(cp[t])
            /\ ~ (Marked(p)[t].probe /\ Marked(p)[t].blocked)
            /\ status[t] = "running" => Marked(p)[t] = cp[t]
  <2>1. TypeOK /\ FlagsApart
    BY DEF IInv
  <2>2. \A t \in Tasks :
            /\ Marked(p) \in [Tasks -> Checkpoints]
            /\ Marked(p)[t].home = cp[t].home
            /\ Marked(p)[t].homeRound = cp[t].homeRound
            /\ Round(Marked(p)[t]) = Round(cp[t])
            /\ ~ (Marked(p)[t].probe /\ Marked(p)[t].blocked)
            /\ status[t] = "running" => Marked(p)[t] = cp[t]
    BY <2>1, MarkedKeeps, Zenon
  <2>3. \E t \in Tasks : TRUE
    BY DEF Resume, On
  <2> QED BY <2>2, <2>3, Zenon
<1>3. \A t \in waiting : t \in Tasks /\ PlatformOf[t] = p /\ status[t] = "waiting_for_auth"
  BY DEF On
<1> HIDE DEF waiting
<1>4. TypeOK'
  BY <1>1, <1>2 DEF IInv, TypeOK, Statuses
<1>5. RoundsLeft' /\ FlagsApart'
  BY <1>1, <1>2 DEF IInv, RoundsLeft, FlagsApart
<1>6. RunEndsWithTasks'
  <2>1. \A r \in Runs : \A t \in TasksOf(r) : t \in Tasks
    BY DEF TasksOf
  <2>2. \A t \in Tasks : status'[t] \in Terminal <=> t \notin waiting /\ status[t] \in Terminal
    BY <1>1 DEF Terminal
  <2>3. ASSUME NEW r \in Runs
        PROVE  runStatus'[r] \in Terminal
                 <=> waiting \cap TasksOf(r) = {} /\ runStatus[r] \in Terminal
    BY <1>1 DEF Terminal
  <2>4. ASSUME NEW r \in Runs
        PROVE  runStatus'[r] \in Terminal
                 <=> \A t \in TasksOf(r) : status'[t] \in Terminal
    <3>1. runStatus[r] \in Terminal <=> \A t \in TasksOf(r) : status[t] \in Terminal
      BY DEF IInv, RunEndsWithTasks
    <3> QED BY <2>1, <2>2, <2>3, <3>1
  <2> QED BY <2>4, Zenon DEF RunEndsWithTasks
<1>7. Calm
  BY <1>1, <1>2, <1>3 DEF IInv, Calm, LaneAtWork
<1>8. Onward
  <2>1. \A s \in Tasks : Round(cp[s]) \in Nat
    BY RoundType DEF IInv, TypeOK
  <2>2. \A s \in waiting : status[s] \notin Terminal
    BY <1>3 DEF Terminal
  <2> QED BY <1>1, <1>2, <2>1, <2>2 DEF Onward
<1> QED BY <1>4, <1>5, <1>6, <1>7, <1>8

LEMMA FinishLaneStep ==
    ASSUME IInv, NEW p \in Platforms, FinishLane(p)
    PROVE  TypeOK' /\ RoundsLeft' /\ FlagsApart' /\ RunEndsWithTasks' /\ Calm /\ Onward
<1>1. PICK res \in [Running(p) -> Kinds] :
        LET again == {t \in Running(p) : res[t] \in {"network", "rate", "auth"}}
            st == [t \in Tasks |->
                    IF t \in Running(p) THEN StatusAfter(t, res[t]) ELSE status[t]]
            c  == [t \in Tasks |->
                    IF t \in Running(p) THEN CheckpointAfter(t, res[t]) ELSE cp[t]]
        IN  /\ trouble + Cardinality(again) <= MaxTrouble
            /\ trouble' = trouble + Cardinality(again)
            /\ status' = st
            /\ cp' = Released(p, st, c)
            /\ runStatus' = [r \in Runs |->
                IF \E t \in Running(p) : RunOf[t] = r
                THEN Aggregate(r, st, cp', saved) ELSE runStatus[r]]
  BY Zenon DEF FinishLane
<1> DEFINE again == {t \in Running(p) : res[t] \in {"network", "rate", "auth"}}
           c == [t \in Tasks |->
                    IF t \in Running(p) THEN CheckpointAfter(t, res[t]) ELSE cp[t]]
<1>2. /\ trouble + Cardinality(again) <= MaxTrouble
      /\ trouble' = trouble + Cardinality(again)
      /\ status' = [t \in Tasks |->
                    IF t \in Running(p) THEN StatusAfter(t, res[t]) ELSE status[t]]
      /\ cp' = Released(p, status', c)
      /\ runStatus' = [r \in Runs |->
                IF \E t \in Running(p) : RunOf[t] = r
                THEN Aggregate(r, status', cp', saved) ELSE runStatus[r]]
      /\ saved' = saved /\ lanesRun' = lanesRun
  BY <1>1, Zenon DEF FinishLane
<1>3. /\ Running(p) \subseteq Tasks
      /\ \A t \in Running(p) : status[t] = "running" /\ PlatformOf[t] = p
      /\ \A t \in Tasks : status[t] = "running" /\ PlatformOf[t] = p => t \in Running(p)
  BY DEF Running, On
<1>4. trouble' \in 0 .. MaxTrouble
  <2>1. IsFiniteSet(again)
    BY <1>3, TasksFinite, FS_Subset
  <2>2. Cardinality(again) \in Nat
    BY <2>1, FS_CardinalityType
  <2> HIDE DEF again
  <2> QED BY <1>2, <2>2, BoundsType DEF IInv, TypeOK
<1>5. \A t \in Running(p) :
        /\ StatusAfter(t, res[t]) \in Statuses \ {"running"}
        /\ CheckpointAfter(t, res[t]) \in Checkpoints
        /\ CheckpointAfter(t, res[t]).probe = cp[t].probe
        /\ CheckpointAfter(t, res[t]).blocked = cp[t].blocked
        /\ CheckpointAfter(t, res[t]).home =>
                CheckpointAfter(t, res[t]).homeRound < HOMEPAGE_MAX_RETRY_ROUNDS
        /\ Round(CheckpointAfter(t, res[t])) >= Round(cp[t])
  <2>1. TypeOK /\ RoundsLeft
    BY DEF IInv
  <2>2. \A t \in Running(p) : t \in Tasks /\ res[t] \in AllKinds
    BY <1>3, KindsType
  <2> QED BY <2>1, <2>2, VisitEnds, Zenon
<1>6. /\ c \in [Tasks -> Checkpoints]
      /\ \A t \in Tasks :
            /\ c[t].probe = cp[t].probe /\ c[t].blocked = cp[t].blocked
            /\ c[t].home => c[t].homeRound < HOMEPAGE_MAX_RETRY_ROUNDS
            /\ Round(c[t]) >= Round(cp[t])
            /\ t \notin Running(p) => c[t] = cp[t]
  <2>1. \A t \in Tasks : Round(cp[t]) \in Nat
    BY RoundType DEF IInv, TypeOK
  <2> QED BY <1>5, <2>1 DEF IInv, TypeOK, RoundsLeft
<1> HIDE DEF c
<1>7. \A t \in Tasks :
        /\ Released(p, status', c) \in [Tasks -> Checkpoints]
        /\ Released(p, status', c)[t].home = c[t].home
        /\ Released(p, status', c)[t].homeRound = c[t].homeRound
        /\ Round(Released(p, status', c)[t]) = Round(c[t])
        /\ Released(p, status', c)[t].probe => c[t].probe
        /\ Released(p, status', c)[t].blocked => c[t].blocked
        /\ t \notin Running(p) /\ status[t] # "queued" =>
                Released(p, status', c)[t] = c[t]
  <2>1. c \in [Tasks -> Checkpoints]
    BY <1>6, Zenon
  <2>2. PICK st : st = status'
    OBVIOUS
  <2>3. ASSUME NEW t \in Tasks
        PROVE  /\ Released(p, st, c) \in [Tasks -> Checkpoints]
               /\ Released(p, st, c)[t].home = c[t].home
               /\ Released(p, st, c)[t].homeRound = c[t].homeRound
               /\ Round(Released(p, st, c)[t]) = Round(c[t])
               /\ Released(p, st, c)[t].probe => c[t].probe
               /\ Released(p, st, c)[t].blocked => c[t].blocked
               /\ t \notin Running(p) /\ status[t] # "queued" =>
                    Released(p, st, c)[t] = c[t]
    BY <2>1, ReleasedKeeps
  <2> QED BY <2>2, <2>3, Zenon
<1>8. /\ cp' \in [Tasks -> Checkpoints]
      /\ \A t \in Tasks :
            /\ cp'[t].home = c[t].home /\ cp'[t].homeRound = c[t].homeRound
            /\ Round(cp'[t]) = Round(c[t])
            /\ cp'[t].probe => c[t].probe
            /\ cp'[t].blocked => c[t].blocked
            /\ t \notin Running(p) /\ status[t] # "queued" => cp'[t] = c[t]
  <2>1. \E t \in Tasks : TRUE
    BY <1>3 DEF FinishLane
  <2> QED BY <1>2, <1>7, <2>1, Zenon
<1>9. /\ status' \in [Tasks -> Statuses]
      /\ \A t \in Running(p) : status'[t] # "running"
      /\ \A t \in Tasks : t \notin Running(p) => status'[t] = status[t]
  BY <1>2, <1>3, <1>5 DEF IInv, TypeOK
<1>10. ASSUME NEW r \in Runs, \E t \in Running(p) : RunOf[t] = r
       PROVE  /\ runStatus'[r] \in Statuses
              /\ runStatus'[r] \in Terminal
                    <=> \A t \in TasksOf(r) : status'[t] \in Terminal
  <2>1. runStatus'[r] = Aggregate(r, status', cp', saved)
    BY <1>2, <1>10
  <2>2. status' \in [Tasks -> Statuses]
    BY <1>9, Zenon
  <2>3. /\ Aggregate(r, status', cp', saved) \in Statuses
        /\ Aggregate(r, status', cp', saved) \in Terminal
              <=> \A t \in TasksOf(r) : status'[t] \in Terminal
    BY <2>2, AggregateEnds, Zenon
  <2> QED BY <2>1, <2>3, Zenon
<1>11. ASSUME NEW r \in Runs, ~ \E t \in Running(p) : RunOf[t] = r
       PROVE  /\ runStatus'[r] = runStatus[r]
              /\ \A t \in TasksOf(r) : status'[t] = status[t]
  BY <1>2, <1>9, <1>11 DEF TasksOf
<1>12. TypeOK'
  <2>1. runStatus' \in [Runs -> Statuses]
    BY <1>2, <1>10, <1>11 DEF IInv, TypeOK
  <2> QED BY <1>2, <1>4, <1>8, <1>9, <2>1 DEF IInv, TypeOK
<1>13. RoundsLeft' /\ FlagsApart'
  BY <1>6, <1>8 DEF IInv, RoundsLeft, FlagsApart
<1>14. RunEndsWithTasks'
  <2>1. ASSUME NEW r \in Runs
        PROVE  runStatus'[r] \in Terminal
                    <=> \A t \in TasksOf(r) : status'[t] \in Terminal
    BY <1>10, <1>11, Zenon DEF IInv, RunEndsWithTasks
  <2> QED BY <2>1, Zenon DEF RunEndsWithTasks
<1>15. Calm
  <2>1. ASSUME NEW t \in Tasks, status'[t] = "running"
        PROVE  t \notin Running(p) /\ status[t] = "running" /\ cp'[t] = cp[t]
    BY <1>6, <1>8, <1>9, <2>1
  <2>2. ASSUME NEW t \in Tasks, NEW s \in Tasks, status'[t] = "waiting_for_auth",
               PlatformOf[s] = PlatformOf[t], status'[s] = "running"
        PROVE  status[t] = "waiting_for_auth"
    BY <1>3, <1>9, <2>1, <2>2
  <2> QED BY <1>2, <2>1, <2>2 DEF IInv, Calm, LaneAtWork
<1>16. Onward
  <2>1. \A t \in Tasks : status[t] \in Terminal => status'[t] = status[t]
    BY <1>3, <1>9 DEF Terminal
  <2>2. \A t \in Tasks : Round(cp'[t]) >= Round(cp[t])
    BY <1>6, <1>8
  <2> QED BY <1>2, <2>1, <2>2 DEF Onward
<1> QED BY <1>12, <1>13, <1>14, <1>15, <1>16

-----------------------------------------------------------------------------
(* What a lane takes.                                                      *)

\* What the choice of a lane guarantees: it takes candidates; when a recovery
\* is under way one task, the marked or promoted one; and when one of them has
\* been rate limited, no other.
LEMMA TakenIsCandidate ==
    ASSUME TypeOK, FlagsApart, NEW p
    PROVE  /\ Candidates(p) \subseteq On(p, "queued")
           /\ Taken(p) \subseteq Candidates(p)
           /\ Probes(p) \cup Blocked(p) # {} => Taken(p) \subseteq {ProbeOf(p)}
           /\ Probes(p) # {} => ProbeOf(p) \in Probes(p)
           /\ Probes(p) = {} /\ Blocked(p) # {} => ProbeOf(p) \in Blocked(p)
           /\ Probes(p) \cup Blocked(p) = {} =>
                \A t, s \in Taken(p) : cp[t].code = "rate" => s = t
<1>1. /\ Candidates(p) \subseteq On(p, "queued") /\ Candidates(p) \subseteq Tasks
      /\ Probes(p) \subseteq Candidates(p) /\ Blocked(p) \subseteq Candidates(p)
  BY DEF Candidates, On, Probes, Blocked
<1>2. Probes(p) # {} => ProbeOf(p) \in Probes(p)
  BY <1>1, FirstIsLeast DEF ProbeOf
<1>3. Probes(p) = {} /\ Blocked(p) # {} => ProbeOf(p) \in Blocked(p)
  BY <1>1, FirstIsLeast DEF ProbeOf
<1> DEFINE ready   == {t \in Candidates(p) : cp[t].due}
           limited == {t \in ready : cp[t].code = "rate"}
           before  == {t \in ready : Sequence[t] < Sequence[First(limited)]}
<1>4. limited # {} => /\ First(limited) \in limited
                      /\ \A s \in limited : Sequence[First(limited)] <= Sequence[s]
  <2>1. limited \subseteq Tasks
    BY <1>1
  <2> HIDE DEF limited
  <2> QED BY <2>1, FirstIsLeast
<1>5. TakenByTurn(p) = IF limited = {} THEN ready
                       ELSE IF before # {} THEN before ELSE {First(limited)}
  BY Zenon DEF TakenByTurn
<1>6. TakenByTurn(p) \subseteq Candidates(p)
  <2>1. ready \subseteq Candidates(p) /\ before \subseteq ready /\ limited \subseteq ready
    OBVIOUS
  <2> HIDE DEF ready, limited, before
  <2> QED BY <1>4, <1>5, <2>1
<1>7. \A t, s \in TakenByTurn(p) : cp[t].code = "rate" => s = t
  <2>1. SUFFICES ASSUME NEW t \in TakenByTurn(p), NEW s \in TakenByTurn(p),
                        cp[t].code = "rate"
                 PROVE  s = t
    BY Zenon
  <2>2. TakenByTurn(p) \subseteq ready
    <3>1. before \subseteq ready /\ limited \subseteq ready
      OBVIOUS
    <3> HIDE DEF ready, limited, before
    <3> QED BY <1>4, <1>5, <3>1
  <2>3. t \in limited
    BY <2>1, <2>2
  <2>4. Sequence[First(limited)] <= Sequence[t]
    BY <1>4, <2>3, Zenon
  <2>5. t \in Tasks /\ First(limited) \in Tasks
    BY <1>1, <1>4, <2>3
  <2>6. t \notin before
    <3> HIDE DEF limited
    <3> QED BY <2>4, <2>5, SequenceType
  <2> HIDE DEF ready, limited, before
  <2> QED BY <1>5, <2>1, <2>3, <2>6
<1>8. Taken(p) \subseteq Candidates(p)
  BY <1>1, <1>2, <1>3, <1>6 DEF Taken
<1>9. Probes(p) \cup Blocked(p) # {} => Taken(p) \subseteq {ProbeOf(p)}
  BY DEF Taken
<1>10. Probes(p) \cup Blocked(p) = {} => Taken(p) \subseteq TakenByTurn(p)
  BY DEF Taken
<1> HIDE DEF ready, limited, before
<1>11. Probes(p) \cup Blocked(p) = {} =>
            \A t, s \in Taken(p) : cp[t].code = "rate" => s = t
  BY <1>7, <1>10
<1> QED BY <1>1, <1>2, <1>3, <1>8, <1>9, <1>11

\* Making a task held back the probe writes the keys of this one task.
LEMMA PromotedKeeps ==
    ASSUME TypeOK, FlagsApart, NEW p, NEW t \in Tasks
    PROVE  /\ Promoted(p) \in [Tasks -> Checkpoints]
           /\ Promoted(p)[t].home = cp[t].home
           /\ Promoted(p)[t].homeRound = cp[t].homeRound
           /\ Promoted(p)[t].code = cp[t].code
           /\ Round(Promoted(p)[t]) = Round(cp[t])
           /\ ~ (Promoted(p)[t].probe /\ Promoted(p)[t].blocked)
           /\ status[t] # "queued" => Promoted(p)[t] = cp[t]
           /\ ~ (Probes(p) = {} /\ Blocked(p) # {}) => Promoted(p)[t] = cp[t]
           /\ Probes(p) = {} /\ Blocked(p) # {} /\ t = ProbeOf(p) =>
                ~ Promoted(p)[t].blocked
<1> DEFINE new(s) == Probes(p) = {} /\ Blocked(p) # {} /\ s = ProbeOf(p)
           w(s) == WithFlags(cp[s], TRUE, FALSE)
           e(s) == IF new(s) THEN w(s) ELSE cp[s]
<1>1. Promoted(p) = [s \in Tasks |-> e(s)]
  BY Zenon DEF Promoted
<1>2. \A s \in Tasks : cp[s] \in Checkpoints
  BY DEF TypeOK
<1>3. ASSUME NEW s \in Tasks
      PROVE  /\ w(s) \in Checkpoints
             /\ w(s).home = cp[s].home
             /\ w(s).homeRound = cp[s].homeRound
             /\ w(s).code = cp[s].code
             /\ Round(w(s)) = Round(cp[s])
             /\ ~ w(s).blocked
  BY <1>2, FlagsWritten, Zenon
<1>4. ASSUME NEW s \in Tasks, new(s)
      PROVE  status[s] = "queued"
  BY <1>4, TakenIsCandidate DEF On, Blocked
<1>5. ~ (Probes(p) = {} /\ Blocked(p) # {}) => ~ new(t)
  OBVIOUS
<1>6. Probes(p) = {} /\ Blocked(p) # {} /\ t = ProbeOf(p) => new(t)
  OBVIOUS
<1> HIDE DEF new, w
<1>7. Promoted(p) \in [Tasks -> Checkpoints]
  BY <1>1, <1>2, <1>3
<1>8. Promoted(p)[t] = IF new(t) THEN w(t) ELSE cp[t]
  BY <1>1
<1>9. ~ (cp[t].probe /\ cp[t].blocked)
  BY DEF FlagsApart
<1>10. CASE new(t)
  <2>1. Promoted(p)[t] = w(t)
    BY <1>8, <1>10, Zenon
  <2> QED BY <1>3, <1>4, <1>5, <1>7, <1>10, <2>1
<1>11. CASE ~ new(t)
  <2>1. Promoted(p)[t] = cp[t]
    BY <1>8, <1>11, Zenon
  <2> QED BY <1>6, <1>7, <1>9, <1>11, <2>1
<1> QED BY <1>10, <1>11, Zenon

\* A lane that takes tasks of a run takes them from the first run that queues on
\* the platform: nothing of an earlier run is queued there.
LEMMA TakenFromFirstRun ==
    ASSUME TypeOK, NEW p, NEW t \in Candidates(p), NEW s \in On(p, "queued"),
           RunOf[s] # RunOf[t]
    PROVE  Sequence[t] < Sequence[s]
<1> DEFINE f == First(On(p, "queued"))
<1>1. On(p, "queued") \subseteq Tasks /\ t \in Tasks /\ s \in Tasks
  BY DEF On, Candidates
<1>2. f \in On(p, "queued") /\ \A u \in On(p, "queued") : Sequence[f] <= Sequence[u]
  BY <1>1, FirstIsLeast
<1>3. RunOf[t] = RunOf[f]
  BY DEF Candidates
<1> HIDE DEF f
<1>4. f \in Tasks /\ f # s /\ Sequence[f] <= Sequence[s]
  BY <1>1, <1>2, <1>3
<1>5. Sequence[f] \in Nat /\ Sequence[s] \in Nat /\ Sequence[t] \in Nat
  BY <1>1, <1>4, SequenceType
<1>6. Sequence[f] < Sequence[s]
  BY <1>1, <1>4, <1>5, SequenceDistinct
<1>7. ~ (Sequence[s] < Sequence[t])
  BY <1>1, <1>3, <1>4, <1>6, SequenceContiguous
<1>8. Sequence[s] # Sequence[t]
  BY <1>1, SequenceDistinct
<1> QED BY <1>5, <1>7, <1>8

LEMMA EnterLaneStep ==
    ASSUME IInv, NEW p \in Platforms, EnterLane(p)
    PROVE  IInv' /\ Onward
<1> DEFINE taken == IF Open(p) THEN Taken(p) ELSE {}
<1>1. /\ p \notin lanesRun
      /\ lanesRun' = lanesRun \cup {p}
      /\ status' = [t \in Tasks |-> IF t \in taken THEN "running" ELSE status[t]]
      /\ runStatus' = [r \in Runs |->
            IF \E t \in taken : RunOf[t] = r THEN "running" ELSE runStatus[r]]
      /\ cp' = (IF Open(p) THEN Promoted(p) ELSE cp)
      /\ saved' = saved /\ trouble' = trouble
  BY Zenon DEF EnterLane
<1>2. /\ TypeOK /\ RoundsLeft /\ FlagsApart
  BY DEF IInv
\* Nothing of the platform runs, and if its lane takes anything nothing waits.
<1>3. \A t \in Tasks : PlatformOf[t] = p => status[t] # "running"
  BY <1>1 DEF IInv, LaneAtWork
<1>4. \A t \in taken :
        /\ t \in Tasks /\ t \in Candidates(p) /\ PlatformOf[t] = p /\ status[t] = "queued"
        /\ Open(p) /\ t \in Taken(p)
  BY <1>2, TakenIsCandidate DEF On
<1>5. taken # {} => \A t \in Tasks : PlatformOf[t] = p => status[t] # "waiting_for_auth"
  BY DEF Open, On
<1>6. \A t \in Tasks :
        /\ cp' \in [Tasks -> Checkpoints]
        /\ cp'[t].home = cp[t].home
        /\ cp'[t].homeRound = cp[t].homeRound
        /\ cp'[t].code = cp[t].code
        /\ Round(cp'[t]) = Round(cp[t])
        /\ ~ (cp'[t].probe /\ cp'[t].blocked)
        /\ status[t] # "queued" => cp'[t] = cp[t]
  <2>1. CASE Open(p)
    <3>1. cp' = Promoted(p)
      BY <1>1, <2>1, Zenon
    <3> QED BY <1>2, <3>1, PromotedKeeps, Zenon
  <2>2. CASE ~ Open(p)
    <3>1. cp' = cp
      BY <1>1, <2>2, Zenon
    <3> QED BY <1>2, <3>1 DEF TypeOK, FlagsApart
  <2> QED BY <2>1, <2>2
<1>7. ASSUME NEW t \in taken
      PROVE  /\ ~ cp'[t].blocked
             /\ \A s \in taken : (cp'[t].probe \/ cp[t].code = "rate") => s = t
  <2>1. /\ cp' = Promoted(p) /\ t \in Taken(p) /\ taken = Taken(p)
        /\ t \in Candidates(p) /\ t \in Tasks
    BY <1>1, <1>4, Zenon
  <2>2. CASE Probes(p) \cup Blocked(p) = {}
    <3>1. ~ cp[t].probe /\ ~ cp[t].blocked
      BY <2>1, <2>2 DEF Probes, Blocked
    <3>2. cp'[t] = cp[t]
      BY <1>2, <2>1, <2>2, PromotedKeeps
    <3>3. \A s \in taken : cp[t].code = "rate" => s = t
      BY <1>2, <2>1, <2>2, TakenIsCandidate
    <3> QED BY <3>1, <3>2, <3>3
  <2>3. CASE Probes(p) \cup Blocked(p) # {}
    <3>1. t = ProbeOf(p) /\ \A s \in taken : s = t
      BY <1>2, <2>1, <2>3, TakenIsCandidate
    <3>2. CASE Probes(p) # {}
      <4>1. cp[t].probe /\ cp'[t] = cp[t]
        BY <1>2, <2>1, <3>1, <3>2, TakenIsCandidate, PromotedKeeps DEF Probes
      <4> QED BY <1>2, <2>1, <3>1, <4>1 DEF FlagsApart
    <3>3. CASE Probes(p) = {}
      <4>1. ~ cp'[t].blocked
        BY <1>2, <2>1, <2>3, <3>1, <3>3, PromotedKeeps
      <4> QED BY <3>1, <4>1
    <3> QED BY <3>2, <3>3
  <2> QED BY <2>2, <2>3
<1> HIDE DEF taken
\* After the step a task runs if it was taken or ran before, elsewhere.
<1>8. ASSUME NEW t \in Tasks
      PROVE  /\ status'[t] = (IF t \in taken THEN "running" ELSE status[t])
             /\ t \in taken => status[t] = "queued" /\ PlatformOf[t] = p
             /\ status[t] = "running" => t \notin taken /\ PlatformOf[t] # p
  BY <1>1, <1>3, <1>4
<1>9. TypeOK'
  <2>1. status' \in [Tasks -> Statuses] /\ runStatus' \in [Runs -> Statuses]
    BY <1>1, <1>2 DEF TypeOK, Statuses
  <2>2. cp' \in [Tasks -> Checkpoints]
    <3>1. CASE Open(p)
      <4>1. \E t \in Tasks : TRUE
        BY <3>1 DEF Open, On
      <4> QED BY <1>6, <4>1, Zenon
    <3>2. CASE ~ Open(p)
      BY <1>1, <1>2, <3>2, Zenon DEF TypeOK
    <3> QED BY <3>1, <3>2
  <2> QED BY <1>1, <1>2, <2>1, <2>2 DEF TypeOK
<1>10. RoundsLeft'
  BY <1>2, <1>6 DEF RoundsLeft
<1>11. FlagsApart'
  BY <1>6 DEF FlagsApart
<1>12. LaneAtWork'
  BY <1>1, <1>8 DEF IInv, LaneAtWork
<1>13. ServedInOrder'
  <2>1. SUFFICES ASSUME NEW t \in Tasks, NEW s \in Tasks, PlatformOf[t] = PlatformOf[s],
                        RunOf[t] # RunOf[s], Sequence[s] < Sequence[t],
                        status'[t] = "running"
                 PROVE  status[s] \in Terminal
    <3>1. \A s \in Tasks : status[s] \in Terminal => status'[s] \in Terminal
      BY <1>8 DEF Terminal
    <3> QED BY <3>1 DEF ServedInOrder
  <2>2. CASE t \in taken
    <3>1. status[s] # "running" /\ status[s] # "waiting_for_auth"
      BY <1>3, <1>4, <1>5, <2>1, <2>2
    <3>2. s \notin On(p, "queued")
      <4>1. s \in On(p, "queued") => Sequence[t] < Sequence[s]
        BY <1>2, <1>4, <2>1, <2>2, TakenFromFirstRun
      <4> QED BY <2>1, <4>1, SequenceType
    <3> QED BY <1>2, <1>4, <2>1, <2>2, <3>1, <3>2 DEF TypeOK, Statuses, On
  <2>3. CASE t \notin taken
    BY <1>8, <2>1, <2>3 DEF IInv, ServedInOrder
  <2> QED BY <2>2, <2>3
<1>14. RoundBarrier'
  <2>1. SUFFICES ASSUME NEW t \in Tasks, NEW s \in Tasks, RunOf[t] = RunOf[s],
                        status'[t] = "running", status'[s] \notin Terminal
                 PROVE  Round(cp[t]) <= Round(cp[s])
    BY <1>6 DEF RoundBarrier
  <2>2. status[s] \notin Terminal
    BY <1>8, <2>1 DEF Terminal
  <2>3. CASE t \in taken
    <3>1. t \in Candidates(p)
      BY <1>4, <2>3
    <3>2. s \in Active(RunOf[t])
      BY <2>1, <2>2 DEF Active, TasksOf
    <3> QED BY <3>1, <3>2 DEF Candidates
  <2>4. CASE t \notin taken
    BY <1>8, <2>1, <2>2, <2>4 DEF IInv, RoundBarrier
  <2> QED BY <2>3, <2>4
<1>15. NothingRunsUnauthenticated'
  <2>1. SUFFICES ASSUME NEW t \in Tasks, NEW s \in Tasks, PlatformOf[t] = PlatformOf[s],
                        status'[t] = "waiting_for_auth", status'[s] = "running"
                 PROVE  FALSE
    BY DEF NothingRunsUnauthenticated, On, Running
  <2>2. status[t] = "waiting_for_auth"
    BY <1>8, <2>1
  <2>3. CASE s \in taken
    BY <1>4, <1>5, <2>1, <2>2, <2>3
  <2>4. CASE s \notin taken
    BY <1>8, <2>1, <2>2, <2>4, PlatformOfType
        DEF IInv, NothingRunsUnauthenticated, On, Running
  <2> QED BY <2>3, <2>4
<1>16. ProbeGoesFirst'
  <2>1. SUFFICES ASSUME NEW t \in Tasks, NEW s \in Tasks, status'[t] = "running"
                 PROVE  /\ ~ cp'[t].blocked
                        /\ cp'[t].probe /\ s # t /\ PlatformOf[s] = PlatformOf[t]
                              => status'[s] # "running"
    BY Zenon DEF ProbeGoesFirst
  <2>2. CASE t \in taken
    BY <1>3, <1>7, <1>8, <2>2
  <2>3. CASE t \notin taken
    <3>1. status[t] = "running" /\ cp'[t] = cp[t]
      BY <1>6, <1>8, <2>1, <2>3
    <3> QED BY <1>8, <3>1 DEF IInv, ProbeGoesFirst
  <2> QED BY <2>2, <2>3
<1>17. LimitedGoesAlone'
  <2>1. SUFFICES ASSUME NEW t \in Tasks, NEW s \in Tasks, status'[t] = "running",
                        cp[t].code = "rate", s # t, PlatformOf[s] = PlatformOf[t]
                 PROVE  status'[s] # "running"
    BY <1>6 DEF LimitedGoesAlone
  <2>2. CASE t \in taken
    BY <1>3, <1>7, <1>8, <2>1, <2>2
  <2>3. CASE t \notin taken
    BY <1>8, <2>1, <2>3 DEF IInv, LimitedGoesAlone
  <2> QED BY <2>2, <2>3
<1>18. RunEndsWithTasks'
  <2>1. \A r \in Runs : \A t \in TasksOf(r) : t \in Tasks /\ RunOf[t] = r
    BY DEF TasksOf
  <2>2. ASSUME NEW r \in Runs
        PROVE  runStatus'[r] \in Terminal
                    <=> \A t \in TasksOf(r) : status'[t] \in Terminal
    <3>1. CASE \E t \in taken : RunOf[t] = r
      <4>1. runStatus'[r] = "running"
        BY <1>1, <3>1
      <4>2. \E t \in TasksOf(r) : status'[t] = "running"
        BY <1>4, <1>8, <3>1 DEF TasksOf
      <4> QED BY <4>1, <4>2 DEF Terminal
    <3>2. CASE ~ \E t \in taken : RunOf[t] = r
      <4>1. runStatus'[r] = runStatus[r]
        BY <1>1, <3>2
      <4>2. \A t \in TasksOf(r) : status'[t] = status[t]
        BY <1>8, <2>1, <3>2
      <4> QED BY <4>1, <4>2, Zenon DEF IInv, RunEndsWithTasks
    <3> QED BY <3>1, <3>2
  <2> QED BY <2>2, Zenon DEF RunEndsWithTasks
<1>19. Onward
  <2>1. \A t \in Tasks : Round(cp[t]) \in Nat
    BY <1>2, RoundType DEF TypeOK
  <2> QED BY <1>1, <1>6, <1>8, <2>1 DEF Onward, Terminal
<1> QED BY <1>9, <1>10, <1>11, <1>12, <1>13, <1>14, <1>15, <1>16, <1>17, <1>18, <1>19 DEF IInv

-----------------------------------------------------------------------------
(* The theorems.                                                           *)

\* At the start every task is queued and no run is over: a run has a task.
LEMMA InitInv == ASSUME Init PROVE IInv
<1>1. Fresh \in Checkpoints /\ ~ Fresh.home /\ ~ Fresh.probe /\ ~ Fresh.blocked
  BY HomeRoundsType DEF Fresh, Checkpoints
<1>2. TypeOK
  BY <1>1, BoundsType DEF Init, TypeOK, Statuses
<1>3. RoundsLeft /\ FlagsApart
  BY <1>1 DEF Init, RoundsLeft, FlagsApart
<1>4. \A t \in Tasks : status[t] = "queued"
  BY DEF Init
<1>5. LaneAtWork /\ ServedInOrder /\ RoundBarrier /\ ProbeGoesFirst /\ LimitedGoesAlone
  BY <1>4 DEF LaneAtWork, ServedInOrder, RoundBarrier, ProbeGoesFirst, LimitedGoesAlone
<1>6. NothingRunsUnauthenticated
  BY <1>4 DEF NothingRunsUnauthenticated, On
<1>7. RunEndsWithTasks
  BY <1>4, RunsHaveTasks DEF Init, RunEndsWithTasks, TasksOf, Terminal
<1> QED BY <1>2, <1>3, <1>5, <1>6, <1>7 DEF IInv

\* Every step of the queue keeps the invariant, and what is final stays final.
LEMMA StepInv == ASSUME IInv, [Next]_vars PROVE IInv' /\ (Onward \/ UNCHANGED vars)
<1>1. ASSUME TypeOK', RoundsLeft', FlagsApart', RunEndsWithTasks', Calm, Onward
      PROVE  IInv'
  BY <1>1, CalmPreserves DEF IInv
<1>2. CASE \E t \in Tasks : TaskStep(t)
  BY <1>1, <1>2, ProgressStep, HomeRedirectStep, CoolDownStep DEF TaskStep
<1>3. CASE \E p \in Platforms : PlatformStep(p)
  BY <1>1, <1>3, EnterLaneStep, FinishLaneStep, ResumeStep DEF PlatformStep
<1>4. CASE \E r \in Runs : EndAuthWait(r)
  BY <1>1, <1>4, EndAuthWaitStep
<1>5. CASE NextRound
  BY <1>1, <1>5, NextRoundStep
<1>6. CASE Restart
  BY <1>1, <1>6, RestartStep
<1>7. CASE UNCHANGED vars
  BY <1>7 DEF vars, IInv, TypeOK, RoundsLeft, FlagsApart, LaneAtWork, ServedInOrder,
              RoundBarrier, NothingRunsUnauthenticated, ProbeGoesFirst,
              LimitedGoesAlone, RunEndsWithTasks, On, Running
<1> QED BY <1>2, <1>3, <1>4, <1>5, <1>6, <1>7 DEF Next

\* The queue of worker.py never leaves the invariant.
THEOREM QueueInvariant == Spec => []IInv
<1>1. Init => IInv
  BY InitInv
<1>2. IInv /\ [Next]_vars => IInv'
  BY StepInv
<1> QED BY <1>1, <1>2, PTL DEF Spec

\* The state of the queue is well-formed: above all, the rounds of a source stay
\* within the limit of homepage retries.
THEOREM QueueTyped == Spec => []TypeOK
<1>1. IInv => TypeOK
  BY DEF IInv
<1> QED BY <1>1, QueueInvariant, PTL

\* On one platform runs are served in the order they were queued.
THEOREM QueueServesInOrder == Spec => []ServedInOrder
<1>1. IInv => ServedInOrder
  BY DEF IInv
<1> QED BY <1>1, QueueInvariant, PTL

\* No source runs ahead of an unfinished one of its run, on any platform.
THEOREM QueueKeepsRounds == Spec => []RoundBarrier
<1>1. IInv => RoundBarrier
  BY DEF IInv
<1> QED BY <1>1, QueueInvariant, PTL

\* Nothing of a platform runs while one of its tasks waits for a session.
THEOREM QueueWaitsForSession == Spec => []NothingRunsUnauthenticated
<1>1. IInv => NothingRunsUnauthenticated
  BY DEF IInv
<1> QED BY <1>1, QueueInvariant, PTL

\* A new session is tried with one task before the others are let in.
THEOREM QueueProbesFirst == Spec => []ProbeGoesFirst
<1>1. IInv => ProbeGoesFirst
  BY DEF IInv
<1> QED BY <1>1, QueueInvariant, PTL

\* A task that was rate limited is tried alone on its platform.
THEOREM QueueTriesLimitedAlone == Spec => []LimitedGoesAlone
<1>1. IInv => LimitedGoesAlone
  BY DEF IInv
<1> QED BY <1>1, QueueInvariant, PTL

\* A run has a final status exactly while all of its tasks have one.
THEOREM QueueEndsRuns == Spec => []RunEndsWithTasks
<1>1. IInv => RunEndsWithTasks
  BY DEF IInv
<1> QED BY <1>1, QueueInvariant, PTL

\* No step takes back a final status, a saved result or a round.
THEOREM QueueFinal == Spec => FinalIsFinal
<1>1. IInv /\ [Next]_vars => [Onward]_vars
  BY StepInv
<1>2. Onward <=> \A t \in Tasks :
                    /\ status[t] \in Terminal => status'[t] = status[t]
                    /\ saved[t] => saved'[t]
                    /\ Round(cp'[t]) >= Round(cp[t])
  BY Zenon DEF Onward
<1> QED BY <1>1, <1>2, QueueInvariant, PTL DEF Spec, FinalIsFinal

=============================================================================
