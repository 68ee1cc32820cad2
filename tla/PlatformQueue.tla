--------------------------- MODULE PlatformQueue ---------------------------
(***************************************************************************)
(* The persistent queue of post extraction (worker.py): runs made of one   *)
(* task per source, one lane per platform, the rounds that every source of *)
(* a run passes together, the cool-down after a rate limit, the wait for a *)
(* platform session and the careful recovery from it, and what a restart   *)
(* makes of all that.                                                      *)
(*                                                                         *)
(* status and cp are columns of CircleTask, runStatus is one of            *)
(* ExtractionRun; they survive a restart.  lanesRun is in the memory of    *)
(* process_once, which enters every lane once and returns when all of them *)
(* have; the tasks a lane works on are the running ones of its platform.   *)
(* Every transaction is one step here; what a transaction that reads before *)
(* it locks makes of that is not in this module.  Nor is the first question *)
(* of a lane, whether an official reputation run waits for the platform.   *)
(*                                                                         *)
(* A definition under the comment "Slip:" is no part of the specification: *)
(* it is the mistake in the definition after it that a property must find. *)
(***************************************************************************)
EXTENDS Integers, FiniteSets

CONSTANTS Tasks, Runs, Platforms,
          RunOf,       \* the run of a task
          PlatformOf,  \* its platform
          Sequence,    \* its queue_sequence
          Kinds,       \* the ways in which a visit to a source may end
          Saving,      \* bound: tasks that may save results before a visit ends
          WithHome,    \* tasks of the platform that retries homepage redirects
          HOMEPAGE_MAX_RETRY_ROUNDS,  \* 3 in the code
          MaxTrouble   \* bound: visits without a final result, and restarts

AllKinds == {"done", "short", "failed", "network", "rate", "batch", "auth"}

ASSUME TasksFinite == IsFiniteSet(Tasks)
ASSUME RunOfType == RunOf \in [Tasks -> Runs]
ASSUME PlatformOfType == PlatformOf \in [Tasks -> Platforms]
ASSUME SequenceType == Sequence \in [Tasks -> Nat]
ASSUME KindsType == Kinds \subseteq AllKinds /\ WithHome \cup Saving \subseteq Tasks
ASSUME HomeRoundsType == HOMEPAGE_MAX_RETRY_ROUNDS \in Nat \ {0}
ASSUME BoundsType == MaxTrouble \in Nat
\* A run without a source is refused.
ASSUME RunsHaveTasks == \A r \in Runs : \E t \in Tasks : RunOf[t] = r
\* A run takes its numbers in one transaction: no other run's lie between them.
ASSUME SequenceDistinct ==
    \A t, s \in Tasks : Sequence[t] = Sequence[s] => t = s
ASSUME SequenceContiguous ==
    \A t, s, u \in Tasks :
        RunOf[t] = RunOf[u] /\ Sequence[t] < Sequence[s] /\ Sequence[s] < Sequence[u]
            => RunOf[s] = RunOf[t]

VARIABLES
    status,     \* CircleTask.status
    cp,         \* CircleTask.checkpoint, what the queue reads of it
    saved,      \* whether CircleTask.completed_count > 0
    runStatus,  \* ExtractionRun.status
    lanesRun,   \* platforms whose lane this process_once has entered
    trouble     \* visits so far without a final result, and restarts

vars == <<status, cp, saved, runStatus, lanesRun, trouble>>

Terminal == {"success", "partial_success", "failed"}
Statuses == {"queued", "running", "waiting_for_auth"} \cup Terminal

\* homeRound: homepage_retry_round; wave: batch_retry_wave; used:
\* source_batch_retry_used; home: there are homepage_pending_failures; probe and
\* blocked: auth_recovery_*; code: retry_error_code; due: whether
\* retry_not_before is unset or past.
Checkpoints ==
    [homeRound : 0 .. HOMEPAGE_MAX_RETRY_ROUNDS, wave : BOOLEAN, used : BOOLEAN,
     home : BOOLEAN, probe : BOOLEAN, blocked : BOOLEAN,
     code : {"none", "network", "rate", "batch", "home"}, due : BOOLEAN]

Fresh == [homeRound |-> 0, wave |-> FALSE, used |-> FALSE, home |-> FALSE,
          probe |-> FALSE, blocked |-> FALSE, code |-> "none", due |-> TRUE]

TasksOf(r) == {t \in Tasks : RunOf[t] = r}
On(p, st) == {t \in Tasks : PlatformOf[t] = p /\ status[t] = st}
Running(p) == On(p, "running")
Active(r) == {t \in TasksOf(r) : status[t] \notin Terminal}
First(S) == CHOOSE t \in S : \A s \in S : Sequence[t] <= Sequence[s]

Init ==
    /\ status = [t \in Tasks |-> "queued"]
    /\ cp = [t \in Tasks |-> Fresh]
    /\ saved = [t \in Tasks |-> FALSE]
    /\ runStatus = [r \in Runs |-> "queued"]
    /\ lanesRun = {}
    /\ trouble = 0

-----------------------------------------------------------------------------
(* What a lane takes.                                                      *)

Round(c) == IF c.wave /\ c.homeRound = 0 THEN 1 ELSE c.homeRound

\* Slip: the rounds of the other platforms are not looked at.
CandidatesOfLane(p) ==
    LET r == RunOf[First(On(p, "queued"))]
    IN  {t \in On(p, "queued") :
            /\ RunOf[t] = r
            /\ \A s \in On(p, "queued") \cap TasksOf(r) : Round(cp[t]) <= Round(cp[s])}

\* Slip: the head is the first task that is due, of whatever run.
CandidatesDue(p) ==
    LET due == {t \in On(p, "queued") : cp[t].due}
        r == RunOf[First(IF due # {} THEN due ELSE On(p, "queued"))]
    IN  {t \in On(p, "queued") :
            /\ RunOf[t] = r
            /\ \A s \in Active(r) : Round(cp[t]) <= Round(cp[s])}

\* Slip: the finished tasks of the run are still counted in its round.
CandidatesOfAll(p) ==
    LET r == RunOf[First(On(p, "queued"))]
    IN  {t \in On(p, "queued") :
            /\ RunOf[t] = r
            /\ \A s \in TasksOf(r) : Round(cp[t]) <= Round(cp[s])}

\* The queued tasks of the run at the head of the platform, those in the round
\* that every active task of the run, on any platform, has reached.
Candidates(p) ==
    LET r == RunOf[First(On(p, "queued"))]
    IN  {t \in On(p, "queued") :
            /\ RunOf[t] = r
            /\ \A s \in Active(r) : Round(cp[t]) <= Round(cp[s])}

Probes(p) == {t \in Candidates(p) : cp[t].probe}
Blocked(p) == {t \in Candidates(p) : cp[t].blocked}

\* After a wait for a session one task goes first: the marked one or, when none
\* is marked any more, the first of those held back.
ProbeOf(p) == First(IF Probes(p) # {} THEN Probes(p) ELSE Blocked(p))

\* Slip: tasks behind one that cools down after a rate limit are let in with it.
TakenBesideLimited(p) == {t \in Candidates(p) : cp[t].due}

\* A task that is due after a rate limit goes alone, those before it go first.
TakenByTurn(p) ==
    LET ready   == {t \in Candidates(p) : cp[t].due}
        limited == {t \in ready : cp[t].code = "rate"}
        before  == {t \in ready : Sequence[t] < Sequence[First(limited)]}
    IN  IF limited = {} THEN ready
        ELSE IF before # {} THEN before
        ELSE {First(limited)}

\* Slip: the flags of a recovery are ignored.
TakenWithoutProbe(p) ==
    IF Candidates(p) = {} THEN {}
    ELSE IF cp[First(Candidates(p))].due THEN TakenByTurn(p) ELSE {}

\* Nothing while the task in front, or the probe, is not due.
Taken(p) ==
    IF Candidates(p) = {} THEN {}
    ELSE IF Probes(p) \cup Blocked(p) # {}
         THEN {t \in {ProbeOf(p)} : cp[t].due}
         ELSE IF cp[First(Candidates(p))].due THEN TakenByTurn(p) ELSE {}

\* The two keys of the recovery are always written together.
WithFlags(c, probe, blocked) == [c EXCEPT !.probe = probe, !.blocked = blocked]

\* The checkpoint of a task held back that is now the probe, saved even when
\* that task is not due.
Promoted(p) ==
    [t \in Tasks |->
        IF /\ Probes(p) = {} /\ Blocked(p) # {}
           /\ t = ProbeOf(p)
        THEN WithFlags(cp[t], TRUE, FALSE) ELSE cp[t]]

\* Slip: a lane does not look whether its platform waits for a session.
OpenAlways(p) == On(p, "queued") # {}

Open(p) == On(p, "waiting_for_auth") = {} /\ On(p, "queued") # {}

\* process_once enters the lane of p: it takes tasks, or it has nothing to do.
EnterLane(p) ==
    /\ p \notin lanesRun
    /\ lanesRun' = lanesRun \cup {p}
    /\ LET taken == IF Open(p) THEN Taken(p) ELSE {}
       IN  /\ status' = [t \in Tasks |-> IF t \in taken THEN "running" ELSE status[t]]
           /\ runStatus' = [r \in Runs |->
                IF \E t \in taken : RunOf[t] = r THEN "running" ELSE runStatus[r]]
    /\ cp' = IF Open(p) THEN Promoted(p) ELSE cp
    /\ UNCHANGED <<saved, trouble>>

\* process_once returns when every lane has come back, and is called again.
NextRound ==
    /\ lanesRun = Platforms
    /\ \A p \in Platforms : Running(p) = {}
    /\ lanesRun' = {}
    /\ UNCHANGED <<status, cp, saved, runStatus, trouble>>

-----------------------------------------------------------------------------
(* What a visit leaves behind.                                             *)

\* The second missing list response of a source is final, whatever came between.
BatchSpent(c) == c.used \/ (c.wave /\ c.homeRound = 0)

HasRetry(t, k) ==
    \/ k \in {"network", "rate"}
    \/ k = "batch" /\ ~BatchSpent(cp[t])
    \/ k \in {"done", "short"} /\ cp[t].home

StatusAfter(t, k) ==
    IF k = "auth" THEN "waiting_for_auth"
    ELSE IF HasRetry(t, k) THEN "queued"
    ELSE IF k = "done" THEN "success"
    ELSE IF saved[t] THEN "partial_success" ELSE "failed"

\* Slip: the checkpoint is written anew without the keys of the recovery.
RebuiltBare(c) == [Fresh EXCEPT !.used = c.used, !.home = c.home]

\* Every result writes the checkpoint anew, with the keys of rounds and recovery.
Rebuilt(c) == [c EXCEPT !.code = "none", !.due = TRUE]

CheckpointAfter(t, k) ==
    LET c == Rebuilt(cp[t])
    IN  IF ~HasRetry(t, k) THEN c
        ELSE IF k = "batch"
             THEN [c EXCEPT !.used = TRUE, !.wave = TRUE, !.code = "batch", !.due = FALSE]
        ELSE IF k \in {"network", "rate"} THEN [c EXCEPT !.code = k, !.due = FALSE]
        ELSE [c EXCEPT !.homeRound = @ + 1, !.home = FALSE, !.wave = TRUE, !.code = "home"]

\* A probe that has come to its end lets go the queued tasks held back behind it.
Released(p, st, c) ==
    LET over == {t \in Running(p) : cp[t].probe /\ st[t] \in Terminal}
    IN  [t \in Tasks |->
            IF t \in over THEN WithFlags(c[t], FALSE, FALSE)
            ELSE IF status[t] = "queued" /\ PlatformOf[t] = p
                    /\ \E s \in over : RunOf[s] = RunOf[t]
                 THEN WithFlags(c[t], c[t].probe, FALSE)
            ELSE c[t]]

\* aggregate_run: the status of a run from those of its tasks.
Aggregate(r, st, c, sv) ==
    LET has(x) == \E t \in TasksOf(r) : st[t] = x
    IN  IF has("waiting_for_auth") THEN "waiting_for_auth"
        ELSE IF has("running") \/ \E t \in TasksOf(r) : st[t] = "queued" /\ c[t].wave
             THEN "running"
        ELSE IF has("queued") THEN "queued"
        ELSE IF \A t \in TasksOf(r) : st[t] = "success" THEN "success"
        ELSE IF \E t \in TasksOf(r) : sv[t] THEN "partial_success"
        ELSE "failed"

\* A result saved while the visit goes on.
Progress(t) ==
    /\ t \in Saving
    /\ status[t] = "running"
    /\ ~saved[t]
    /\ saved' = [saved EXCEPT ![t] = TRUE]
    /\ runStatus' = [runStatus EXCEPT ![RunOf[t]] = Aggregate(RunOf[t], status, cp, saved')]
    /\ UNCHANGED <<status, cp, lanesRun, trouble>>

\* Slip: the rounds are not limited.
HomeRedirectAlways(t) ==
    /\ t \in WithHome
    /\ status[t] = "running"
    /\ ~cp[t].home
    /\ cp' = [cp EXCEPT ![t].home = TRUE]
    /\ UNCHANGED <<status, saved, runStatus, lanesRun, trouble>>

\* A candidate that was redirected to the homepage is noted at once, to be
\* tried again in the next round; after the last round it is a plain failure.
HomeRedirect(t) ==
    /\ t \in WithHome
    /\ status[t] = "running"
    /\ ~cp[t].home
    /\ cp[t].homeRound < HOMEPAGE_MAX_RETRY_ROUNDS
    /\ cp' = [cp EXCEPT ![t].home = TRUE]
    /\ UNCHANGED <<status, saved, runStatus, lanesRun, trouble>>

\* All visits of the lane of p are over: their results are stored together.
FinishLane(p) ==
    /\ Running(p) # {}
    /\ \E res \in [Running(p) -> Kinds] :
        LET again == {t \in Running(p) : res[t] \in {"network", "rate", "auth"}}
            st == [t \in Tasks |->
                    IF t \in Running(p) THEN StatusAfter(t, res[t]) ELSE status[t]]
            c  == [t \in Tasks |->
                    IF t \in Running(p) THEN CheckpointAfter(t, res[t]) ELSE cp[t]]
        IN  /\ trouble + Cardinality(again) <= MaxTrouble
            /\ trouble' = trouble + Cardinality(again)
            /\ status' = st
            /\ cp' = Released(p, st, c)
            /\ runStatus' = [r \in Runs |->
                IF \E t \in Running(p) : RunOf[t] = r
                THEN Aggregate(r, st, cp', saved) ELSE runStatus[r]]
    /\ UNCHANGED <<saved, lanesRun>>

\* retry_not_before passes.
CoolDown(t) ==
    /\ status[t] = "queued"
    /\ ~cp[t].due
    /\ cp' = [cp EXCEPT ![t].due = TRUE]
    /\ UNCHANGED <<status, saved, runStatus, lanesRun, trouble>>

-----------------------------------------------------------------------------
(* The platform session.                                                   *)

\* The flags of a recovery: the first resumed task of each run is the probe and
\* every other queued one of that run and platform is held back.
Marked(p) ==
    LET waiting == On(p, "waiting_for_auth")
        front(t) == First(waiting \cap TasksOf(RunOf[t]))
    IN  [t \in Tasks |->
            IF t \in waiting \cup On(p, "queued") /\ waiting \cap TasksOf(RunOf[t]) # {}
            THEN WithFlags(cp[t], t = front(t), t # front(t))
            ELSE cp[t]]

\* resume_platform: a new session is stored.
Resume(p) ==
    LET waiting == On(p, "waiting_for_auth")
    IN  /\ waiting # {}
        /\ status' = [t \in Tasks |-> IF t \in waiting THEN "queued" ELSE status[t]]
        /\ cp' = Marked(p)
        /\ runStatus' = [r \in Runs |->
            IF waiting \cap TasksOf(r) # {} THEN "queued" ELSE runStatus[r]]
        /\ UNCHANGED <<saved, lanesRun, trouble>>

\* Slip: ending the wait forgets to compute the status of the run.
EndAuthWaitUnaggregated(r) ==
    /\ runStatus[r] = "waiting_for_auth"
    /\ status' = [t \in Tasks |->
            IF RunOf[t] = r /\ status[t] = "waiting_for_auth"
            THEN (IF saved[t] THEN "partial_success" ELSE "failed") ELSE status[t]]
    /\ UNCHANGED <<cp, saved, runStatus, lanesRun, trouble>>

\* end_auth_wait: the user gives up the waiting tasks of a run.
EndAuthWait(r) ==
    /\ runStatus[r] = "waiting_for_auth"
    /\ status' = [t \in Tasks |->
            IF RunOf[t] = r /\ status[t] = "waiting_for_auth"
            THEN (IF saved[t] THEN "partial_success" ELSE "failed") ELSE status[t]]
    /\ runStatus' = [runStatus EXCEPT ![r] = Aggregate(r, status', cp, saved)]
    /\ UNCHANGED <<cp, saved, lanesRun, trouble>>

\* The backend dies and comes back: recover_interrupted puts the running tasks
\* into the queue again, with the checkpoints they have.
Restart ==
    /\ trouble < MaxTrouble
    /\ trouble' = trouble + 1
    /\ lanesRun' = {}
    /\ status' = [t \in Tasks |-> IF status[t] = "running" THEN "queued" ELSE status[t]]
    /\ runStatus' = [r \in Runs |->
        IF runStatus[r] = "running" /\ \E t \in TasksOf(r) : status[t] = "running"
        THEN "queued" ELSE runStatus[r]]
    /\ UNCHANGED <<cp, saved>>

-----------------------------------------------------------------------------
TaskStep(t) == Progress(t) \/ HomeRedirect(t) \/ CoolDown(t)
PlatformStep(p) == EnterLane(p) \/ FinishLane(p) \/ Resume(p)

Next ==
    \/ \E t \in Tasks : TaskStep(t)
    \/ \E p \in Platforms : PlatformStep(p)
    \/ \E r \in Runs : EndAuthWait(r)
    \/ NextRound
    \/ Restart

Spec == Init /\ [][Next]_vars

\* The worker loop goes on, the lanes come back from their visits, cool-downs
\* pass.  Nobody is obliged to supply a session or to give one up.
Loop == NextRound \/ \E p \in Platforms : EnterLane(p)

Fairness ==
    /\ WF_vars(Loop)
    /\ \A p \in Platforms : WF_vars(FinishLane(p))
    /\ \A t \in Tasks : WF_vars(CoolDown(t))

FairSpec == Spec /\ Fairness

-----------------------------------------------------------------------------
(* Properties.                                                             *)

TypeOK ==
    /\ status \in [Tasks -> Statuses]
    /\ cp \in [Tasks -> Checkpoints]
    /\ saved \in [Tasks -> BOOLEAN]
    /\ runStatus \in [Runs -> Statuses]
    /\ lanesRun \subseteq Platforms
    /\ trouble \in 0 .. MaxTrouble

\* ADR 0065: on one platform runs are served strictly in the order they were
\* queued.  No task runs while one of an earlier run still has to.
ServedInOrder ==
    \A t, s \in Tasks :
        /\ PlatformOf[t] = PlatformOf[s] /\ RunOf[t] # RunOf[s]
        /\ Sequence[s] < Sequence[t] /\ status[t] = "running"
        => status[s] \in Terminal

\* technical-route.md:273: each round waits for the sources of the round before
\* it, on all platforms of the run: no task runs ahead of an unfinished one.
RoundBarrier ==
    \A t, s \in Tasks :
        /\ RunOf[t] = RunOf[s]
        /\ status[t] = "running" /\ status[s] \notin Terminal
        => Round(cp[t]) <= Round(cp[s])

\* While a platform waits for a session nothing of it runs: the lane stays away
\* until the session is there or the wait is given up.
NothingRunsUnauthenticated ==
    \A p \in Platforms : On(p, "waiting_for_auth") # {} => Running(p) = {}

\* A new session is tried with one task: the probe runs alone, and no task that
\* is held back runs before it is let go.
ProbeGoesFirst ==
    \A t, s \in Tasks :
        status[t] = "running" =>
            /\ ~cp[t].blocked
            /\ cp[t].probe /\ s # t /\ PlatformOf[s] = PlatformOf[t] => status[s] # "running"

\* ADR 0052: after a rate limit a platform is asked for one source at a time.
LimitedGoesAlone ==
    \A t, s \in Tasks :
        /\ status[t] = "running" /\ cp[t].code = "rate"
        /\ s # t /\ PlatformOf[s] = PlatformOf[t]
        => status[s] # "running"

\* A run is over exactly when its last task is: a run that looks finished can be
\* exported and deleted, one that never looks finished can not.
RunEndsWithTasks ==
    \A r \in Runs :
        runStatus[r] \in Terminal <=> \A t \in TasksOf(r) : status[t] \in Terminal

\* ADR 0062: no requests go to a platform while it cools down after a rate limit.
CooldownIsQuiet ==
    \A t, s \in Tasks :
        /\ status[t] = "queued" /\ cp[t].code = "rate" /\ ~cp[t].due
        /\ PlatformOf[s] = PlatformOf[t]
        => status[s] # "running"

\* What is finished stays finished, and what is saved stays saved: no retry, no
\* recovery and no restart takes a final task back into the queue.
FinalIsFinal ==
    [][\A t \in Tasks :
        /\ status[t] \in Terminal => status'[t] = status[t]
        /\ saved[t] => saved'[t]
        /\ Round(cp'[t]) >= Round(cp[t])]_vars

\* The queue drains: whatever is queued, all tasks come to their end unless some
\* platform waits for a session.  Neither rounds nor probes nor cool-downs nor
\* restarts leave a task behind for ever.
QueueDrains ==
    (\E t \in Tasks : status[t] = "queued")
        ~> \/ \A t \in Tasks : status[t] \in Terminal
           \/ \E t \in Tasks : status[t] = "waiting_for_auth"
=============================================================================
