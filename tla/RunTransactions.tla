-------------------------- MODULE RunTransactions --------------------------
(***************************************************************************)
(* One extraction run whose rows several transactions write: the lanes of  *)
(* its platforms (worker.py), the user who ends a wait or stores a session *)
(* on the event loop, an import of a session beside it (app.py,            *)
(* services.py).  SQLite begins a transaction at its first write, and the  *)
(* sessions do not flush before they query: what a handler reads before it *)
(* writes, it reads without a lock (db.py).  So a transaction is two steps *)
(* here, one that reads and decides, one that commits only the columns it  *)
(* has changed.  Which queued tasks a lane takes is a matter of            *)
(* PlatformQueue; here it takes any, in one wave.                          *)
(***************************************************************************)
EXTENDS Integers, FiniteSets

CONSTANTS Tasks, Platforms,
          PlatformOf,  \* the platform of a task
          Others,      \* who may write besides the lanes
          MaxTrouble   \* bound: unfinished visits, broken lanes, restarts

\* The event loop runs one handler at a time; an import has a thread of its own.
ASSUME OthersType == Others \subseteq {"loop", "import"} /\ Others \cap Platforms = {}
ASSUME PlatformOfType == PlatformOf \in [Tasks -> Platforms]
ASSUME TasksFinite == IsFiniteSet(Tasks)
ASSUME BoundType == MaxTrouble \in Nat

VARIABLES
    status,     \* CircleTask.status, as committed
    runStatus,  \* ExtractionRun.status, as committed
    lane,       \* the tasks of which a lane waits for the visits
    tx,         \* what each party has decided and not committed
    trouble     \* unfinished visits, broken lanes and restarts so far

vars == <<status, runStatus, lane, tx, trouble>>

Terminal == {"success", "failed"}  \* "failed" stands for "partial_success", too
Statuses == {"queued", "running", "waiting_for_auth"} \cup Terminal
Parties == Platforms \cup Others

None == [kind |-> "none"]

\* writes: the rows to write; seen: the status of the run as loaded; run: the
\* status to give it, "later" if it is computed under the lock.
Transactions ==
    [kind : {"claim", "progress", "store", "end", "resume"},
     writes : UNION {[S -> Statuses] : S \in SUBSET Tasks},
     seen : Statuses, run : Statuses \cup {"later"}]

On(p, st) == {t \in Tasks : PlatformOf[t] = p /\ status[t] = st}

\* The rows as they are with the writes of a transaction on top.
With(w) == [t \in Tasks |-> IF t \in DOMAIN w THEN w[t] ELSE status[t]]

\* Slip: queued tasks do not keep a run from its end.
AggregateAtWork(st) ==
    LET has(x) == \E t \in Tasks : st[t] = x
    IN  IF has("waiting_for_auth") THEN {"waiting_for_auth"}
        ELSE IF has("running") THEN {"running"}
        ELSE IF \A t \in Tasks : st[t] = "success" THEN {"success"}
        ELSE {"failed"}

\* aggregate_run: the statuses a run with these rows may get.  What is queued
\* for a later round counts as running (PlatformQueue), here it may.
Aggregate(st) ==
    LET has(x) == \E t \in Tasks : st[t] = x
    IN  IF has("waiting_for_auth") THEN {"waiting_for_auth"}
        ELSE IF has("running") THEN {"running"}
        ELSE IF has("queued") THEN {"queued", "running"}
        ELSE IF \A t \in Tasks : st[t] = "success" THEN {"success"}
        ELSE {"failed"}

Init ==
    /\ status = [t \in Tasks |-> "queued"]
    /\ runStatus = "queued"
    /\ lane = [p \in Platforms |-> {}]
    /\ tx = [x \in Parties |-> None]
    /\ trouble = 0

Decide(x, k, w, run) ==
    tx' = [tx EXCEPT ![x] = [kind |-> k, writes |-> w, seen |-> runStatus, run |-> run]]

-----------------------------------------------------------------------------
(* Lanes.                                                                  *)

\* Slip: the lane does not look for tasks that wait for a session.
ClaimReadBlind(p) ==
    /\ tx[p] = None
    /\ lane[p] = {}
    /\ \E S \in SUBSET On(p, "queued") \ {{}} :
        Decide(p, "claim", [t \in S |-> "running"], "running")
    /\ UNCHANGED <<status, runStatus, lane, trouble>>

\* The first transaction of a lane chooses its tasks.
ClaimRead(p) ==
    /\ tx[p] = None
    /\ lane[p] = {}
    /\ On(p, "waiting_for_auth") = {}
    /\ \E S \in SUBSET On(p, "queued") \ {{}} :
        Decide(p, "claim", [t \in S |-> "running"], "running")
    /\ UNCHANGED <<status, runStatus, lane, trouble>>

Results == {"success", "failed", "queued", "waiting_for_auth"}

\* The second one decides what the visits have come to.  With new posts it has
\* flushed, and holds the lock, before it computes the status of the run.
StoreRead(p) ==
    /\ tx[p] = None
    /\ lane[p] # {}
    /\ \E res \in [lane[p] -> Results], flushed \in BOOLEAN :
        LET again == {t \in lane[p] : res[t] \notin Terminal}
        IN  /\ trouble + Cardinality(again) <= MaxTrouble
            /\ trouble' = trouble + Cardinality(again)
            /\ \E run \in IF flushed THEN {"later"} ELSE Aggregate(With(res)) :
                Decide(p, "store", res, run)
    /\ UNCHANGED <<status, runStatus, lane>>

\* A visit saves what it has so far, and computes the status of the run anew.
ProgressRead(p) ==
    /\ tx[p] = None
    /\ lane[p] # {}
    /\ \E run \in {"later"} \cup Aggregate(status) :
        Decide(p, "progress", [t \in {} |-> "running"], run)
    /\ UNCHANGED <<status, runStatus, lane, trouble>>

\* The collector cannot be built, or the results cannot be stored: the loop goes
\* on and the tasks stay as they were claimed.
Break(p) ==
    /\ lane[p] # {}
    /\ trouble < MaxTrouble
    /\ trouble' = trouble + 1
    /\ lane' = [lane EXCEPT ![p] = {}]
    /\ tx' = [tx EXCEPT ![p] = None]
    /\ UNCHANGED <<status, runStatus>>

-----------------------------------------------------------------------------
(* The user.                                                               *)

\* Slip: the queued tasks of the run are given up, too.
EndReadQueued(x) ==
    /\ x = "loop"
    /\ tx[x] = None
    /\ runStatus = "waiting_for_auth"
    /\ LET w == [t \in {s \in Tasks : status[s] \in {"waiting_for_auth", "queued"}} |-> "failed"]
       IN  \E run \in Aggregate(With(w)) : Decide(x, "end", w, run)
    /\ UNCHANGED <<status, runStatus, lane, trouble>>

\* end_auth_wait: what waits is given up.
EndRead(x) ==
    /\ x = "loop"
    /\ tx[x] = None
    /\ runStatus = "waiting_for_auth"
    /\ LET w == [t \in {s \in Tasks : status[s] = "waiting_for_auth"} |-> "failed"]
       IN  \E run \in Aggregate(With(w)) : Decide(x, "end", w, run)
    /\ UNCHANGED <<status, runStatus, lane, trouble>>

\* resume_platform: a session is stored, by a login or by an import.
ResumeRead(x) ==
    /\ tx[x] = None
    /\ \E p \in Platforms :
        /\ On(p, "waiting_for_auth") # {}
        /\ Decide(x, "resume", [t \in On(p, "waiting_for_auth") |-> "queued"], "queued")
    /\ UNCHANGED <<status, runStatus, lane, trouble>>

-----------------------------------------------------------------------------
\* A lane starts its visits when its claim is committed and comes back when
\* their results are.
LaneAfter(x) ==
    [p \in Platforms |->
        IF p # x THEN lane[p]
        ELSE CASE tx[x].kind = "claim" -> DOMAIN tx[x].writes
               [] tx[x].kind = "progress" -> lane[p]
               [] OTHER -> {}]

\* Slip: the status is not computed under the lock.
CommitUncomputed(x) ==
    /\ tx[x] # None
    /\ LET t == tx[x]
       IN  /\ status' = With(t.writes)
           /\ runStatus' = IF t.run # t.seen THEN t.run ELSE runStatus
           /\ lane' = LaneAfter(x)
    /\ tx' = [tx EXCEPT ![x] = None]
    /\ UNCHANGED trouble

\* A commit writes the rows that were changed; that of the run only when its
\* status differs from the one that was loaded.
Commit(x) ==
    /\ tx[x] # None
    /\ LET t == tx[x]
       IN  /\ status' = With(t.writes)
           /\ \E new \in IF t.run = "later" THEN Aggregate(With(t.writes)) ELSE {t.run} :
                runStatus' = IF new # t.seen THEN new ELSE runStatus
           /\ lane' = LaneAfter(x)
    /\ tx' = [tx EXCEPT ![x] = None]
    /\ UNCHANGED trouble

\* The backend dies: what is not committed is gone; recover_interrupted.
Restart ==
    /\ trouble < MaxTrouble
    /\ trouble' = trouble + 1
    /\ status' = [t \in Tasks |-> IF status[t] = "running" THEN "queued" ELSE status[t]]
    /\ runStatus' = IF runStatus = "running" /\ \E t \in Tasks : status[t] = "running"
                    THEN "queued" ELSE runStatus
    /\ lane' = [p \in Platforms |-> {}]
    /\ tx' = [x \in Parties |-> None]

LaneStep(p) == ClaimRead(p) \/ ProgressRead(p) \/ StoreRead(p) \/ Break(p)
OtherStep(x) == EndRead(x) \/ ResumeRead(x)

Next ==
    \/ \E p \in Platforms : LaneStep(p)
    \/ \E x \in Others : OtherStep(x)
    \/ \E x \in Parties : Commit(x)
    \/ Restart

Spec == Init /\ [][Next]_vars

-----------------------------------------------------------------------------
TypeOK ==
    /\ status \in [Tasks -> Statuses]
    /\ runStatus \in Statuses
    /\ lane \in [Platforms -> SUBSET Tasks]
    /\ \A x \in Parties : tx[x] = None \/ tx[x] \in Transactions
    /\ trouble \in 0 .. MaxTrouble

\* No lane is at work, or about to be, on a platform of which a task waits for a
\* session, however stale what the lane has read.
NoLaneWhileWaiting ==
    \A p \in Platforms :
        On(p, "waiting_for_auth") # {} =>
            lane[p] = {} /\ (tx[p] = None \/ tx[p].kind # "claim")

\* A run is never called finished while one of its tasks is not: deletion and
\* export look at the run alone.
EndedRunHasEnded ==
    runStatus \in Terminal => \A t \in Tasks : status[t] \in Terminal

\* The converse: when all tasks are final and nobody has anything left to write,
\* the run is finished, too.
RunIsEnded ==
    (\A t \in Tasks : status[t] \in Terminal) /\ (\A x \in Parties : tx[x] = None)
        => runStatus \in Terminal

\* What is final stays final: as long as the ends of waits and the logins take
\* turns on the event loop, no lane works on a task that is given up.
FinalIsFinal ==
    [][\A t \in Tasks : status[t] \in Terminal => status'[t] = status[t]]_vars
=============================================================================
