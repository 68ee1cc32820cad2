--------------------------- MODULE SentimentQueue ---------------------------
(***************************************************************************)
(* The queue of posts to be judged by a language model (sentiment.py): the *)
(* slots of the worker, the watchdog, the extraction that adds posts, and  *)
(* the user who saves and tests the accounts.  Requests run outside of any *)
(* transaction and for minutes; the accounts may change meanwhile.  As in  *)
(* RunTransactions a handler reads without a lock, so what it read may be  *)
(* stale when it commits; a handler whose rows nobody else writes is one   *)
(* step.  The retries within one request are part of Work.                 *)
(***************************************************************************)
EXTENDS Integers, FiniteSets

CONSTANTS Posts,        \* numbered as they come in
          Accounts,
          Slots,        \* threads of the worker
          Limits,       \* the values of cloud_concurrency a user may choose
          FirstLimit,   \* cloud_concurrency of an account at first
          Models,       \* the models a user may choose
          FirstModel,   \* the model of an account at first
          Given,        \* bound: the accounts a post may be given to
          Managed,      \* bound: the accounts the user saves and tests
          MaxSaves,     \* bound: how often each of them is saved
          MaxTrouble    \* bound: lost threads, failed commits, restarts and saves

ASSUME PostsType == Posts \subseteq Nat /\ IsFiniteSet(Posts)
ASSUME LimitType == Limits \subseteq Nat \ {0} /\ FirstLimit \in [Accounts -> Nat \ {0}]
AllModels == {"hosted", "local"}

ASSUME ModelsType == Models \subseteq AllModels /\ FirstModel \in [Accounts -> AllModels]
ASSUME GivenType == Given \in [Posts -> SUBSET Accounts]
ASSUME ManagedType == Managed \subseteq Accounts
ASSUME BoundsType == MaxSaves \in Nat /\ MaxTrouble \in Nat

VARIABLES
    state,     \* SentimentConfig.validation_status; enabled goes with "valid"
    revision,  \* SentimentConfig.revision
    model,     \* SentimentConfig.model_code
    limit,     \* SentimentConfig.cloud_concurrency
    an,        \* SentimentAnalysis, by post
    shown,     \* PostSnapshot.analysis_status
    slot,      \* what a thread is doing
    lock,      \* claim_lock: who has it, and what the watchdog has seen
    cooling,   \* accounts before rate_limit_until
    save,      \* the save of an account that is under way
    test,      \* the connection test that is under way
    trouble,   \* lost threads, failed commits, restarts and saves so far
    overwritten \* for the properties: posts whose task was called failed, by a
               \* thread whose commit had failed, while another thread had it or
               \* after it was judged

vars == <<state, revision, model, limit, an, shown, slot, lock, cooling, save, test,
          trouble, overwritten>>
accounts == <<state, revision, model, limit>>

States == {"unverified", "valid", "invalid"}
Final == {"completed", "failed"}  \* "failed" stands for "partial", too
Statuses == {"none", "queued", "running", "paused"} \cup Final

Absent == [status |-> "none"]

\* orphaned: whether attempt_failures says that it lost its thread.  The revision
\* it was claimed under is of use to the slot alone and kept there.
Analyses == [status : Statuses \ {"none"}, acct : Accounts, model : AllModels,
             orphaned : BOOLEAN]

Idle == [pc |-> "idle"]
Free == [by |-> "nobody"]

With(st) == {x \in Posts : an[x].status = st}
OfAccount(a, st) == {x \in With(st) : an[x].acct = a}
First(S) == CHOOSE x \in S : \A y \in S : x <= y

\* Slip: what a lost slot has registered stays.
ClaimedForGood == With("running")

\* The slots that have registered an analysis (active_claims).
Claimed ==
    {slot[s].post : s \in {r \in Slots : slot[r].pc \in {"working", "losing", "failing"}}}

\* Rows with the statuses of some analyses replaced, in both tables.
Marked(S, st) ==
    /\ an' = [x \in Posts |-> IF x \in S THEN [an[x] EXCEPT !.status = st] ELSE an[x]]
    /\ shown' = [x \in Posts |-> IF x \in S THEN st ELSE shown[x]]

Init ==
    /\ state = [a \in Accounts |-> "valid"]
    /\ revision = [a \in Accounts |-> 0]
    /\ model = FirstModel
    /\ limit = FirstLimit
    /\ an = [x \in Posts |-> Absent]
    /\ shown = [x \in Posts |-> "none"]
    /\ slot = [s \in Slots |-> Idle]
    /\ lock = Free
    /\ cooling = {}
    /\ save = Idle
    /\ test = Idle
    /\ trouble = 0
    /\ overwritten = {}

-----------------------------------------------------------------------------
\* The extraction stores a post, the rows before it already written: it is under
\* the lock.  An equal one that was judged before is taken over.
Enqueue(x) ==
    /\ an[x] = Absent
    /\ \A y \in Posts : y < x => an[y] # Absent
    /\ \E a \in Given[x], st \in {"queued", "completed", "paused"} :
        /\ st = "paused" <=> state[a] # "valid"
        /\ an' = [an EXCEPT ![x] = [status |-> st, acct |-> a, model |-> model[a],
                                    orphaned |-> FALSE]]
        /\ shown' = [shown EXCEPT ![x] = st]
    /\ UNCHANGED <<accounts, slot, lock, cooling, save, test, trouble, overwritten>>

-----------------------------------------------------------------------------
(* The worker.                                                             *)

Room(a) == IF model[a] = "local" THEN 1 ELSE limit[a]

Eligible ==
    {a \in Accounts : /\ state[a] = "valid"
                      /\ a \notin cooling
                      /\ Cardinality(OfAccount(a, "running")) < Room(a)}

\* Slip: accounts are limited, the local model is not.
ClaimableManyLocal == {x \in With("queued") : an[x].acct \in Eligible}

\* All accounts with the local model share one predictor.
Claimable ==
    {x \in With("queued") :
        /\ an[x].acct \in Eligible
        /\ an[x].model = "local" => \A y \in With("running") : an[y].model # "local"}

\* Slip: the choice is not under the lock.
ClaimReadUnlocked(s) ==
    /\ slot[s] = Idle
    /\ Claimable # {}
    /\ LET x == First(Claimable)
       IN  slot' = [slot EXCEPT ![s] = [pc |-> "chosen", post |-> x, rev |-> revision[an[x].acct],
                                          room |-> Room(an[x].acct)]]
    /\ UNCHANGED <<accounts, an, shown, lock, cooling, save, test, trouble, overwritten>>

\* The head of _process_once: the oldest task an account has room for.
ClaimRead(s) ==
    /\ slot[s] = Idle
    /\ lock = Free
    /\ Claimable # {}
    /\ LET x == First(Claimable)
       IN  slot' = [slot EXCEPT ![s] = [pc |-> "chosen", post |-> x, rev |-> revision[an[x].acct],
                                          room |-> Room(an[x].acct)]]
    /\ lock' = [by |-> "slot"]
    /\ UNCHANGED <<accounts, an, shown, cooling, save, test, trouble, overwritten>>

\* The claim is registered before the end of the transaction, which writes it.
ClaimCommit(s) ==
    /\ slot[s].pc = "chosen"
    /\ LET x == slot[s].post
       IN  /\ an' = [an EXCEPT ![x].status = "running"]
           /\ shown' = [shown EXCEPT ![x] = "running"]
           /\ slot' = [slot EXCEPT ![s] = [pc |-> "working", post |-> x, rev |-> slot[s].rev]]
    /\ lock' = Free
    /\ UNCHANGED <<accounts, cooling, save, test, trouble, overwritten>>

\* The transaction that claims a task or pauses it fails, on a locked database for
\* instance: nothing is written, the claim lock is free, and the thread goes on
\* to process_once with the task still registered ...
CommitFails(s) ==
    /\ slot[s].pc \in {"chosen", "losing"}
    /\ trouble < MaxTrouble
    /\ trouble' = trouble + 1
    /\ slot' = [slot EXCEPT ![s] = [pc |-> "failing", post |-> slot[s].post]]
    /\ lock' = IF slot[s].pc = "chosen" THEN Free ELSE lock
    /\ UNCHANGED <<accounts, an, shown, cooling, save, test, overwritten>>

\* Threads other than s that have x in hand and have not failed.
OthersAt(x, s) ==
    {r \in Slots \ {s} : slot[r].pc \in {"chosen", "working", "losing"} /\ slot[r].post = x}

\* ... which records it as failed (_record_internal_failure), whatever the row
\* says by now and whoever has it.
RecordFailure(s) ==
    /\ slot[s].pc = "failing"
    /\ LET x == slot[s].post
       IN  /\ an' = [an EXCEPT ![x].status = "failed"]
           /\ shown' = [shown EXCEPT ![x] = "failed"]
           /\ overwritten' = IF an[x].status \in Final \/ OthersAt(x, s) # {}
                             THEN overwritten \cup {x} ELSE overwritten
    /\ slot' = [slot EXCEPT ![s] = Idle]
    /\ UNCHANGED <<accounts, lock, cooling, save, test, trouble>>

\* A request ends with an answer that can be used, wholly or not, or with an
\* error that is not the account's; an unexpected exception is a failure, too.
\* Whether it was ever orphaned is of no interest any more.
Judged(s) ==
    /\ slot[s].pc = "working"
    /\ an[slot[s].post].acct \notin cooling
    /\ \E st \in Final :
        LET x == slot[s].post
        IN  /\ an' = [an EXCEPT ![x].status = st]
            /\ shown' = [shown EXCEPT ![x] = st]
    /\ slot' = [slot EXCEPT ![s] = Idle]
    /\ UNCHANGED <<accounts, lock, cooling, save, test, trouble, overwritten>>

\* Slip: the cool-down is entered for the model.
RateLimitedModel(s) ==
    /\ slot[s].pc = "working"
    /\ an[slot[s].post].model = "hosted"
    /\ cooling' = cooling \cup {an[slot[s].post].model}
    /\ UNCHANGED <<accounts, an, shown, slot, lock, save, test, trouble, overwritten>>

\* Status 429: everyone who works for the account waits.
RateLimited(s) ==
    /\ slot[s].pc = "working"
    /\ an[slot[s].post].model = "hosted"
    /\ cooling' = cooling \cup {an[slot[s].post].acct}
    /\ UNCHANGED <<accounts, an, shown, slot, lock, save, test, trouble, overwritten>>

CooledDown(a) ==
    /\ a \in cooling
    /\ cooling' = cooling \ {a}
    /\ UNCHANGED <<accounts, an, shown, slot, lock, save, test, trouble, overwritten>>

\* _record_failure, an error that is the account's: whether the account is still
\* the one that failed is read first.
ConfigError(s) ==
    /\ slot[s].pc = "working"
    /\ LET x == slot[s].post
           a == an[x].acct
       IN  slot' = [slot EXCEPT ![s] =
                        [pc |-> "losing", post |-> x, seen |-> state[a],
                         same |-> revision[a] = slot[s].rev]]
    /\ UNCHANGED <<accounts, an, shown, lock, cooling, save, test, trouble, overwritten>>

\* The task is paused and, if the account was the same, the account is invalid
\* and its queue paused.  Some failures hand over what was recorded of attempts
\* before, some begin an empty record (kept).
ConfigErrorCommit(s) ==
    /\ slot[s].pc = "losing"
    /\ \E kept \in BOOLEAN :
        LET x == slot[s].post
            a == an[x].acct
            paused == {x} \cup IF slot[s].same THEN OfAccount(a, "queued") ELSE {}
        IN  /\ an' = [y \in Posts |->
                        IF y \in paused
                        THEN [an[y] EXCEPT !.status = "paused", !.orphaned = (y = x => kept) /\ @]
                        ELSE an[y]]
            /\ shown' = [y \in Posts |-> IF y \in paused THEN "paused" ELSE shown[y]]
            /\ state' = IF slot[s].same /\ slot[s].seen # "invalid"
                        THEN [state EXCEPT ![a] = "invalid"] ELSE state
    /\ slot' = [slot EXCEPT ![s] = Idle]
    /\ UNCHANGED <<revision, model, limit, lock, cooling, save, test, trouble, overwritten>>

\* The result cannot be stored, nor can the failure: the row stays as it is.
LoseThread(s) ==
    /\ slot[s].pc \in {"working", "losing", "failing"}
    /\ trouble < MaxTrouble
    /\ trouble' = trouble + 1
    /\ slot' = [slot EXCEPT ![s] = Idle]
    /\ UNCHANGED <<accounts, an, shown, lock, cooling, save, test, overwritten>>

-----------------------------------------------------------------------------
(* The watchdog, which also runs when the process starts.                  *)

WatchdogLook ==
    /\ lock = Free
    /\ With("running") \ Claimed # {}
    /\ lock' = [by |-> "watchdog", active |-> Claimed]
    /\ UNCHANGED <<accounts, an, shown, slot, cooling, save, test, trouble, overwritten>>

\* Orphans S go back to the queue, those for the second time fail.
Orphaned(S) ==
    LET st(x) == IF an[x].orphaned THEN "failed" ELSE "queued"
    IN  /\ an' = [x \in Posts |-> IF x \in S
                                  THEN [an[x] EXCEPT !.status = st(x), !.orphaned = TRUE]
                                  ELSE an[x]]
        /\ shown' = [x \in Posts |-> IF x \in S THEN st(x) ELSE shown[x]]

WatchdogRecover ==
    /\ lock.by = "watchdog"
    /\ Orphaned(With("running") \ lock.active)
    /\ lock' = Free
    /\ UNCHANGED <<accounts, slot, cooling, save, test, trouble, overwritten>>

Restart ==
    /\ trouble < MaxTrouble
    /\ trouble' = trouble + 1
    /\ slot' = [s \in Slots |-> Idle]
    /\ save' = Idle
    /\ test' = Idle
    /\ cooling' = {}
    /\ lock' = Free
    /\ Orphaned(With("running"))
    /\ UNCHANGED <<accounts, overwritten>>

-----------------------------------------------------------------------------
(* The user.                                                               *)

\* update_config; kept: whether address, key and model stay as they are.  A save
\* uses up some of the bound on mishaps.
SaveRead(a) ==
    /\ save = Idle
    /\ revision[a] < MaxSaves
    /\ trouble < MaxTrouble
    /\ trouble' = trouble + 1
    /\ \E kept \in BOOLEAN, n \in Limits :
        \E m \in IF kept THEN {model[a]} ELSE Models :
            save' = [pc |-> "saving", acct |-> a, model |-> m, limit |-> n,
                     kept |-> kept, seen |-> state[a]]
    /\ UNCHANGED <<accounts, an, shown, slot, lock, cooling, test, overwritten>>

\* Another connection is to be tested first, and its queue waits; otherwise only
\* the limit and the revision change.  Requests under way go on.
SaveStore ==
    /\ save.pc = "saving"
    /\ revision' = [revision EXCEPT ![save.acct] = @ + 1]
    /\ model' = [model EXCEPT ![save.acct] = save.model]
    /\ limit' = [limit EXCEPT ![save.acct] = save.limit]
    /\ state' = IF save.kept \/ save.seen = "unverified" THEN state
                ELSE [state EXCEPT ![save.acct] = "unverified"]
    /\ Marked(IF save.kept THEN {} ELSE OfAccount(save.acct, "queued"), "paused")
    /\ save' = Idle
    /\ UNCHANGED <<slot, lock, cooling, test, trouble, overwritten>>

\* test_connection asks the model ...
TestStart(a) ==
    /\ test = Idle
    /\ test' = [pc |-> "asking", acct |-> a, rev |-> revision[a]]
    /\ UNCHANGED <<accounts, an, shown, slot, lock, cooling, save, trouble, overwritten>>

\* ... looks whether the account is still the same ...
TestAnswer ==
    /\ test.pc = "asking"
    /\ \E st \in {"valid", "invalid"} :
        test' = IF test.rev = revision[test.acct]
                THEN [pc |-> "storing", acct |-> test.acct, verdict |-> st,
                      seen |-> state[test.acct]]
                ELSE Idle
    /\ UNCHANGED <<accounts, an, shown, slot, lock, cooling, save, trouble, overwritten>>

\* Slip: the tasks are queued again and the posts are forgotten.
TestStoreBare ==
    /\ test.pc = "storing"
    /\ LET ok == test.verdict = "valid"
           rows == OfAccount(test.acct, IF ok THEN "paused" ELSE "queued")
           to == IF ok THEN "queued" ELSE "paused"
       IN  an' = [x \in Posts |-> IF x \in rows THEN [an[x] EXCEPT !.status = to] ELSE an[x]]
    /\ state' = IF test.verdict = test.seen THEN state
                ELSE [state EXCEPT ![test.acct] = test.verdict]
    /\ test' = Idle
    /\ UNCHANGED <<revision, model, limit, shown, slot, lock, cooling, save, trouble, overwritten>>

\* Slip: what has failed is queued again, too.
TestStoreFailed ==
    /\ test.pc = "storing"
    /\ IF test.verdict = "valid"
       THEN Marked(OfAccount(test.acct, "paused") \cup OfAccount(test.acct, "failed"), "queued")
       ELSE Marked(OfAccount(test.acct, "queued"), "paused")
    /\ state' = IF test.verdict = test.seen THEN state
                ELSE [state EXCEPT ![test.acct] = test.verdict]
    /\ test' = Idle
    /\ UNCHANGED <<revision, model, limit, slot, lock, cooling, save, trouble, overwritten>>

\* ... and stores what it has learnt.
TestStore ==
    /\ test.pc = "storing"
    /\ IF test.verdict = "valid" THEN Marked(OfAccount(test.acct, "paused"), "queued")
                                 ELSE Marked(OfAccount(test.acct, "queued"), "paused")
    /\ state' = IF test.verdict = test.seen THEN state
                ELSE [state EXCEPT ![test.acct] = test.verdict]
    /\ test' = Idle
    /\ UNCHANGED <<revision, model, limit, slot, lock, cooling, save, trouble, overwritten>>

-----------------------------------------------------------------------------
SlotStep(s) ==
    \/ ClaimRead(s) \/ ClaimCommit(s) \/ Judged(s) \/ RateLimited(s)
    \/ ConfigError(s) \/ ConfigErrorCommit(s) \/ LoseThread(s)
    \/ CommitFails(s) \/ RecordFailure(s)
Watchdog == WatchdogLook \/ WatchdogRecover
Test == TestAnswer \/ TestStore
User(a) == SaveRead(a) \/ TestStart(a)

Next ==
    \/ \E x \in Posts : Enqueue(x)
    \/ \E s \in Slots : SlotStep(s)
    \/ \E a \in Accounts : CooledDown(a)
    \/ \E a \in Managed : User(a)
    \/ SaveStore \/ Test
    \/ Watchdog
    \/ Restart

Spec == Init /\ [][Next]_vars

\* The slots ask again and again, requests end, cool-downs pass, the watchdog
\* looks; and a test that was begun ends.
Fairness ==
    /\ \A s \in Slots :
        /\ WF_vars(ClaimRead(s) \/ ClaimCommit(s) \/ ConfigErrorCommit(s) \/ RecordFailure(s))
        /\ SF_vars(Judged(s))
    /\ WF_vars(\E a \in Accounts : CooledDown(a))
    /\ WF_vars(SaveStore) /\ WF_vars(Test) /\ WF_vars(Watchdog)

FairSpec == Spec /\ Fairness

-----------------------------------------------------------------------------
Working == [pc : {"working"}, post : Posts, rev : 0 .. MaxSaves]
Losing == [pc : {"losing"}, post : Posts, seen : States, same : BOOLEAN]
Chosen == [pc : {"chosen"}, post : Posts, rev : 0 .. MaxSaves, room : Nat \ {0}]
Failing == [pc : {"failing"}, post : Posts]

TypeOK ==
    /\ state \in [Accounts -> States]
    /\ revision \in [Accounts -> 0 .. MaxSaves]
    /\ model \in [Accounts -> AllModels]
    /\ limit \in [Accounts -> Nat \ {0}]
    /\ \A x \in Posts : an[x] \in {Absent} \cup Analyses
    /\ shown \in [Posts -> Statuses]
    /\ \A s \in Slots : slot[s] \in {Idle} \cup Working \cup Losing \cup Chosen \cup Failing
    /\ lock \in {Free, [by |-> "slot"]} \cup [by : {"watchdog"}, active : SUBSET Posts]
    /\ cooling \subseteq Accounts
    /\ save \in {Idle} \cup [pc : {"saving"}, acct : Accounts, model : AllModels, limit : Limits,
                            kept : BOOLEAN, seen : States]
    /\ test \in {Idle} \cup [pc : {"asking"}, acct : Accounts, rev : 0 .. MaxSaves]
                \cup [pc : {"storing"}, acct : Accounts, verdict : States, seen : States]
    /\ trouble \in 0 .. MaxTrouble
    /\ overwritten \subseteq Posts

\* A task is worked on by one slot at most and running as long as it is: no post
\* is judged, and paid for, twice at the same time.  Until a thread whose claim
\* was not written calls the task of another one failed (sentiment.py:2323): from
\* then on its row may be queued and claimed again beside the other.
WorkedOnOnce ==
    \A s \in Slots : slot[s].pc \in {"working", "losing"} =>
        \/ slot[s].post \in overwritten
        \/ an[slot[s].post].status = "running" /\ OthersAt(slot[s].post, s) = {}

\* The posts of an account whose requests are under way, and those of the model
\* all accounts share; without those whose row says something else (see above).
Requested == {slot[s].post : s \in {r \in Slots : slot[r].pc = "working"}} \ overwritten
UnderWay(a) == {x \in Requested : an[x].acct = a}
UnderWayLocally == {x \in Requested : an[x].model = "local"}

\* Lost threads, other models and saves notwithstanding, a request is only begun
\* while its account has, with it, no more under way than the limit the claim
\* read, and the one local predictor none.  A limit lowered meanwhile lets the
\* requests under way go on (technical-route.md:145).
LimitsKept ==
    [][\A s \in Slots : slot[s].pc = "chosen" /\ slot'[s].pc = "working" =>
        LET x == slot[s].post
        IN  /\ Cardinality(UnderWay(an[x].acct)') <= slot[s].room
            /\ x \in UnderWayLocally' => UnderWayLocally' = {x}]_vars

\* The post says what the analysis says.
PostsAgree == \A x \in Posts : shown[x] = an[x].status

\* A judged post is never queued, paused or judged again, unless a thread whose
\* commit failed called it failed over another's work.
JudgedIsFinal ==
    [][\A x \in Posts :
        an[x].status \in Final => an'[x].status = an[x].status \/ x \in overwritten']_vars

\* A paused task waits for its account to become usable: what product-design.md
\* says of the status.
PausedMeansUnusable == \A x \in Posts : an[x].status = "paused" => state[an[x].acct] # "valid"

Usable(x) == an[x] # Absent /\ state[an[x].acct] = "valid"

\* What is queued is judged, unless its account fails or becomes unusable.
QueueIsWorked ==
    \A x \in Posts :
        an[x].status \in {"queued", "running"} ~>
            an[x].status \in Final \cup {"paused"} \/ ~Usable(x)
=============================================================================
