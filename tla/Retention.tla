----------------------------- MODULE Retention -----------------------------
(***************************************************************************)
(* How extraction runs are deleted: chains of runs (an original and those  *)
(* that extract again what it missed) fourteen days after anything last    *)
(* happened to one of them, by RetentionService, and single runs by the    *)
(* user.  A run has rows in the database and files beside it (evidence and *)
(* exports), the runs of a chain share groups of screenshots, and no       *)
(* transaction spans rows and files: a plan written before carries the     *)
(* deletion over a crash.  StorageActivity shows that a cleaner's item and *)
(* a user's deletion are alone while they work; here they are.             *)
(***************************************************************************)
EXTENDS Naturals

CONSTANTS MaxRuns,      \* the runs there may ever be: an original and its retries
          MaxIncidents \* crashes, failed removals, interrupted passes, late verdicts

ASSUME RetentionAssumption ==
  MaxRuns \in Nat \ {0} /\ MaxIncidents \in Nat

Runs == 1..MaxRuns  \* in the order they are created
NoRun == 0

VARIABLES
  run,           \* a run: not yet there, under way, ended, ended 14 days ago, deleted
  parent,        \* related_run_id
  group,         \* a group of screenshots: not there, in the database, deleted
  home,          \* chain_root_run_id of a group
  contributors,  \* the runs with pages in a group
  evidence,      \* the runs whose files are there
  artifacts,     \* the groups whose files are there
  plan,          \* what is written in extraction-<root>.json
  cleaner,       \* where RetentionService is
  manual,        \* where the user's deletion is
  completed,     \* completed_date is today
  abandoned,     \* files a user's deletion that broke off has left (history)
  incidents

rows == <<run, parent, group, home, contributors>>
files == <<evidence, artifacts>>
deletion == <<rows, files, plan, cleaner, manual, completed, abandoned, incidents>>

NoPlan == [runs |-> {}, groups |-> {}]
Resting == [at |-> "idle", root |-> NoRun, pending |-> {}, eligible |-> {}, good |-> TRUE]
NoDeletion == [at |-> "idle", run |-> NoRun, groups |-> {}]

(* What is left for a pass to look at, and whether all went well so far. *)
CleanerStates == [at : {"idle", "look", "planned", "committed", "remove"}, root : Runs \cup {NoRun},
                  pending : SUBSET Runs, eligible : SUBSET Runs, good : BOOLEAN]

DeletionTypeOK ==
  /\ run \in [Runs -> {"new", "active", "recent", "old", "gone"}]
  /\ parent \in [Runs -> Runs \cup {NoRun}]
  /\ group \in [Runs -> {"none", "row", "gone"}]
  /\ home \in [Runs -> Runs \cup {NoRun}]
  /\ contributors \in [Runs -> SUBSET Runs]
  /\ evidence \subseteq Runs /\ artifacts \subseteq Runs
  /\ plan \in [Runs -> [runs : SUBSET Runs, groups : SUBSET Runs]]
  /\ cleaner \in CleanerStates
  /\ cleaner.at \in {"planned", "committed", "remove"} => plan[cleaner.root] # NoPlan
  /\ manual \in [at : {"idle", "files", "groups"}, run : Runs \cup {NoRun},
                 groups : SUBSET Runs]
  /\ completed \in BOOLEAN
  /\ abandoned \subseteq {"run", "group"} \X Runs
  /\ incidents \in 0..MaxIncidents

DeletionInit ==
  /\ run = [r \in Runs |-> IF r = 1 THEN "active" ELSE "new"]
  /\ parent = [r \in Runs |-> NoRun]
  /\ group = [r \in Runs |-> "none"] /\ home = [r \in Runs |-> NoRun]
  /\ contributors = [r \in Runs |-> {}]
  /\ evidence = {} /\ artifacts = {}
  /\ plan = [r \in Runs |-> NoPlan]
  /\ cleaner = Resting /\ manual = NoDeletion
  /\ completed = FALSE /\ abandoned = {} /\ incidents = 0

-----------------------------------------------------------------------------
(* Chains *)

Present == {r \in Runs : run[r] \in {"active", "recent", "old"}}

(* The original a run goes back to.  Rows of deleted parents are gone and *)
(* the reference to them is empty.                                        *)
RootOf(r) ==
  LET climb[n \in 0..MaxRuns] ==
        IF n = 0 THEN r
        ELSE IF parent[climb[n - 1]] = NoRun THEN climb[n - 1] ELSE parent[climb[n - 1]]
  IN climb[MaxRuns]

Roots == {r \in Present : parent[r] = NoRun}
Chain(root) == {r \in Present : RootOf(r) = root}

(* The groups a chain gives pages to or is the home of. *)
GroupsOf(chain) ==
  {g \in Runs : group[g] = "row" /\ (home[g] \in chain \/ contributors[g] \cap chain # {})}

Unfinished(root) == \E r \in Chain(root) : run[r] = "active"
Expired(root) == \A r \in Chain(root) : run[r] = "old"
Shared(root) == \E g \in GroupsOf(Chain(root)) : contributors[g] \ Chain(root) # {}

(* "Slip:" pages of the chain itself are taken for another's. *)
DeletableUnused(root) == Expired(root) /\ GroupsOf(Chain(root)) = {}

(* No reason in _inspect speaks against deleting the chain. *)
Deletable(root) == Expired(root) /\ ~Shared(root)

PlanFor(root) == [runs |-> Chain(root), groups |-> GroupsOf(Chain(root))]
Pending == {r \in Runs : plan[r] # NoPlan}

-----------------------------------------------------------------------------
(* What else happens to runs.  Requests and the worker hold leases: they *)
(* and what deletes are never at work together.                          *)

GateFree == cleaner.at \in {"idle", "look"} /\ manual.at = "idle"

(* RunService.retry: the next run extracts again what run r has missed. *)
Retry(r) ==
  /\ GateFree /\ run[r] \in {"recent", "old"}
  /\ \E new \in Runs :
       /\ \A q \in Runs : run[q] = "new" <=> q >= new
       /\ run' = [run EXCEPT ![new] = "active"]
       /\ parent' = [parent EXCEPT ![new] = r]
  /\ UNCHANGED <<group, home, contributors, files, plan, cleaner, manual, completed,
                 abandoned, incidents>>

(* There is room for as many groups as runs. *)
NewGroup == {g \in Runs : \A h \in Runs : group[h] = "none" <=> h >= g}

(* A page of the run is stored and goes into the group of its chain, as   *)
(* the chain is now (register_task, persist_page, _get_or_create_group).  *)
(* Runs are visited in their order.                                       *)
Visit(r) ==
  /\ GateFree /\ run[r] = "active" /\ \A q \in Runs : q < r => run[q] # "active"
  /\ evidence' = evidence \cup {r}
  /\ LET found == {g \in Runs : group[g] = "row" /\ home[g] = RootOf(r)}
     IN \E g \in IF found = {} THEN NewGroup ELSE found :
          /\ group' = [group EXCEPT ![g] = "row"]
          /\ home' = [home EXCEPT ![g] = RootOf(r)]
          /\ contributors' = [contributors EXCEPT ![g] = @ \cup {r}]
          /\ artifacts' = artifacts \cup {g}
  /\ UNCHANGED <<run, parent, plan, cleaner, manual, completed, abandoned, incidents>>

(* A run may end without a page, when no visit comes so far. *)
Finish(r) ==
  /\ GateFree /\ run[r] = "active"
  /\ run' = [run EXCEPT ![r] = "recent"]
  /\ UNCHANGED <<parent, group, home, contributors, files, plan, cleaner, manual,
                 completed, abandoned, incidents>>

(* Fourteen days pass since anything happened to a run. *)
Age(r) ==
  /\ run[r] = "recent"
  /\ run' = [run EXCEPT ![r] = "old"]
  /\ UNCHANGED <<parent, group, home, contributors, files, plan, cleaner, manual,
                 completed, abandoned, incidents>>

(* The user changes the verdict on a post of the run. *)
Touch(r) ==
  /\ GateFree /\ run[r] = "old" /\ incidents < MaxIncidents
  /\ run' = [run EXCEPT ![r] = "recent"]
  /\ incidents' = incidents + 1
  /\ UNCHANGED <<parent, group, home, contributors, files, plan, cleaner, manual,
                 completed, abandoned>>

-----------------------------------------------------------------------------
(* The user deletes one run: DELETE /runs/{run_id} *)

(* prepare_run_delete and delete_run: the run's rows go, its retries lose *)
(* their parent.                                                          *)
DeleteRow(r) ==
  /\ GateFree /\ run[r] \in {"recent", "old"}
  /\ run' = [run EXCEPT ![r] = "gone"]
  /\ parent' = [q \in Runs |-> IF q = r \/ parent[q] = r THEN NoRun ELSE parent[q]]
  /\ contributors' = [g \in Runs |-> contributors[g] \ {r}]
  /\ manual' = [at |-> "files", run |-> r, groups |-> {g \in Runs : r \in contributors[g]}]
  /\ UNCHANGED <<group, home, files, plan, cleaner, completed, abandoned, incidents>>

UnlinkFiles ==
  /\ manual.at = "files"
  /\ evidence' = evidence \ {manual.run}
  /\ manual' = [manual EXCEPT !.at = "groups"]
  /\ UNCHANGED <<rows, artifacts, plan, cleaner, completed, abandoned, incidents>>

(* What a deletion that goes no further has not removed. *)
LeftBy(m) ==
  (IF m.at = "files" THEN {<<"run", m.run>>} ELSE {})
    \cup {<<"group", g>> : g \in {h \in m.groups : contributors[h] = {}}}

(* The one that gave the first page. *)
Survivor(g) == CHOOSE r \in contributors[g] : \A q \in contributors[g] : r <= q

(* reconcile_after_run_delete: a group others give pages to gets their root *)
(* for its home and is rendered anew; the request fails when this root is   *)
(* the home of another group already.  A group nobody gives pages to loses  *)
(* its files and then its row.                                              *)
KeepGroup(g) ==
  /\ manual.at = "groups" /\ g \in manual.groups /\ contributors[g] # {}
  /\ LET root == RootOf(Survivor(g))
     IN IF \E h \in Runs \ {g} : group[h] = "row" /\ home[h] = root
        THEN /\ manual' = NoDeletion /\ abandoned' = abandoned \cup LeftBy(manual)
             /\ UNCHANGED home
        ELSE /\ home' = [home EXCEPT ![g] = root]
             /\ manual' = [manual EXCEPT !.groups = @ \ {g}]
             /\ UNCHANGED abandoned
  /\ UNCHANGED <<run, parent, group, contributors, files, plan, cleaner, completed, incidents>>

(* rmtree(ignore_errors=True): that files are left is not noticed. *)
DropGroup(g) ==
  /\ manual.at = "groups" /\ g \in manual.groups /\ contributors[g] = {}
  /\ group' = [group EXCEPT ![g] = "gone"]
  /\ \/ /\ artifacts' = artifacts \ {g}
        /\ UNCHANGED <<abandoned, incidents>>
     \/ /\ incidents < MaxIncidents /\ incidents' = incidents + 1
        /\ abandoned' = abandoned \cup {<<"group", g>>}
        /\ UNCHANGED artifacts
  /\ manual' = [manual EXCEPT !.groups = @ \ {g}]
  /\ UNCHANGED <<run, parent, home, contributors, evidence, plan, cleaner, completed>>

Answer ==
  /\ manual.at = "groups" /\ manual.groups = {}
  /\ manual' = NoDeletion
  /\ UNCHANGED <<rows, files, plan, cleaner, completed, abandoned, incidents>>

(* A file cannot be removed: the request fails there. *)
UnlinkFails ==
  /\ manual.at = "files" /\ incidents < MaxIncidents
  /\ incidents' = incidents + 1
  /\ abandoned' = abandoned \cup LeftBy(manual)
  /\ manual' = NoDeletion
  /\ UNCHANGED <<rows, files, plan, cleaner, completed>>

-----------------------------------------------------------------------------
(* RetentionService *)

(* _process_once until the snapshot is taken: plans left behind, chains *)
(* that may go, and whether any waits or is refused.                    *)
BeginPass ==
  /\ cleaner.at = "idle" /\ GateFree
  /\ ~completed \/ Pending # {}
  /\ cleaner' = [at |-> "look", root |-> NoRun, pending |-> Pending,
                 eligible |-> {r \in Roots : Deletable(r)},
                 good |-> \A r \in Roots : ~Unfinished(r) /\ (Expired(r) => ~Shared(r))]
  /\ UNCHANGED <<rows, files, plan, manual, completed, abandoned, incidents>>

(* _delete_extraction writes the plan and has the rows deleted next. *)
StartDeleting(root) ==
  /\ plan' = [plan EXCEPT ![root] = PlanFor(root)]
  /\ cleaner' = [cleaner EXCEPT !.at = "planned", !.root = root, !.pending = @ \ {root},
                                !.eligible = IF root \in cleaner.pending THEN @ ELSE @ \ {root}]

(* _resume_plan: drop the plan of a chain in use again, write it anew for *)
(* one that may still go, and finish that of one whose root is gone.      *)
TakePending(root) ==
  /\ cleaner.at = "look" /\ GateFree /\ root \in cleaner.pending
  /\ \/ /\ root \in Present /\ ~Deletable(root)
        /\ plan' = [plan EXCEPT ![root] = NoPlan]
        /\ cleaner' = [cleaner EXCEPT !.pending = @ \ {root}]
     \/ /\ root \in Present /\ Deletable(root)
        /\ StartDeleting(root)
     \/ /\ root \notin Present
        /\ cleaner' = [cleaner EXCEPT !.at = "committed", !.root = root, !.pending = @ \ {root}]
        /\ UNCHANGED plan
  /\ UNCHANGED <<rows, files, manual, completed, abandoned, incidents>>

(* A chain of the snapshot, looked at again (_recheck). *)
TakeCandidate(root) ==
  /\ cleaner.at = "look" /\ GateFree /\ cleaner.pending = {} /\ root \in cleaner.eligible
  /\ \/ /\ root \in Present /\ Deletable(root)
        /\ StartDeleting(root)
     \/ /\ root \in Present => ~Deletable(root)
        /\ cleaner' = [cleaner EXCEPT !.eligible = @ \ {root},
                                      !.good = @ /\ root \notin Present]
        /\ UNCHANGED plan
  /\ UNCHANGED <<rows, files, manual, completed, abandoned, incidents>>

Fails ==
  /\ incidents < MaxIncidents /\ incidents' = incidents + 1
  /\ cleaner' = [cleaner EXCEPT !.at = "look", !.good = FALSE]

(* delete_chain: all rows of the chain and its groups, or none. *)
DeleteChain ==
  /\ cleaner.at = "planned"
  /\ LET p == plan[cleaner.root]
     IN \/ /\ run' = [r \in Runs |-> IF r \in p.runs THEN "gone" ELSE run[r]]
           /\ parent' = [r \in Runs |-> IF {r, parent[r]} \cap p.runs # {} THEN NoRun ELSE parent[r]]
           /\ group' = [g \in Runs |-> IF g \in p.groups THEN "gone" ELSE group[g]]
           /\ contributors' = [g \in Runs |-> IF g \in p.groups THEN {} ELSE contributors[g] \ p.runs]
           /\ cleaner' = [cleaner EXCEPT !.at = "committed"]
           /\ UNCHANGED <<home, incidents>>
        \/ Fails /\ UNCHANGED rows
  /\ UNCHANGED <<files, plan, manual, completed, abandoned>>

(* _finish_extraction: no file is touched while a run or a group of the *)
(* plan still has a row.                                                *)
CheckCommitted ==
  /\ cleaner.at = "committed"
  /\ LET p == plan[cleaner.root]
     IN cleaner' = IF p.runs \cap Present = {} /\ \A g \in p.groups : group[g] # "row"
                   THEN [cleaner EXCEPT !.at = "remove"]
                   ELSE [cleaner EXCEPT !.at = "look", !.good = FALSE]
  /\ UNCHANGED <<rows, files, plan, manual, completed, abandoned, incidents>>

(* _remove_paths: one directory after the other; it stops at the first *)
(* that cannot be removed.                                             *)
RemovePath ==
  /\ cleaner.at = "remove"
  /\ LET p == plan[cleaner.root]
     IN \/ /\ \/ \E r \in p.runs \cap evidence : evidence' = evidence \ {r} /\ UNCHANGED artifacts
              \/ \E g \in p.groups \cap artifacts : artifacts' = artifacts \ {g} /\ UNCHANGED evidence
           /\ UNCHANGED <<cleaner, incidents>>
        \/ /\ p.runs \cap evidence # {} \/ p.groups \cap artifacts # {}
           /\ Fails
           /\ UNCHANGED files
  /\ UNCHANGED <<rows, plan, manual, completed, abandoned>>

(* "Slip:" the plan is dropped when the removal is begun. *)
DropPlanEarly ==
  /\ cleaner.at = "remove"
  /\ plan' = [plan EXCEPT ![cleaner.root] = NoPlan]
  /\ cleaner' = [cleaner EXCEPT !.at = "look"]
  /\ UNCHANGED <<rows, files, manual, completed, abandoned, incidents>>

DropPlan ==
  /\ cleaner.at = "remove"
  /\ plan[cleaner.root].runs \cap evidence = {} /\ plan[cleaner.root].groups \cap artifacts = {}
  /\ plan' = [plan EXCEPT ![cleaner.root] = NoPlan]
  /\ cleaner' = [cleaner EXCEPT !.at = "look"]
  /\ UNCHANGED <<rows, files, manual, completed, abandoned, incidents>>

(* The day is done only if nothing failed, was refused or has to wait. *)
EndPass ==
  /\ cleaner.at = "look" /\ cleaner.pending = {} /\ cleaner.eligible = {}
  /\ completed' = (completed \/ cleaner.good)
  /\ cleaner' = Resting
  /\ UNCHANGED <<rows, files, plan, manual, abandoned, incidents>>

(* The gate is taken by others or the service is being stopped: the pass *)
(* ends between two items.                                               *)
BreakOff ==
  /\ cleaner.at = "look" /\ incidents < MaxIncidents
  /\ incidents' = incidents + 1
  /\ cleaner' = Resting
  /\ UNCHANGED <<rows, files, plan, manual, completed, abandoned>>

NewDay ==
  /\ completed /\ completed' = FALSE
  /\ UNCHANGED <<rows, files, plan, cleaner, manual, abandoned, incidents>>

(* The process ends, wherever it is, and is started again. *)
Crash ==
  /\ incidents < MaxIncidents
  /\ cleaner.at # "idle" \/ manual.at # "idle"
  /\ incidents' = incidents + 1
  /\ cleaner' = Resting /\ manual' = NoDeletion
  /\ abandoned' = IF manual.at = "idle" THEN abandoned ELSE abandoned \cup LeftBy(manual)
  /\ UNCHANGED <<rows, files, plan, completed>>

-----------------------------------------------------------------------------
Cleaning ==
  \/ BeginPass \/ DeleteChain \/ CheckCommitted \/ RemovePath \/ DropPlan \/ EndPass
  \/ \E r \in Runs : TakePending(r) \/ TakeCandidate(r)

Deleting ==
  \/ UnlinkFiles \/ Answer
  \/ \E g \in Runs : KeepGroup(g) \/ DropGroup(g)

DeletionNext ==
  \/ Cleaning \/ Deleting
  \/ \E r \in Runs : Retry(r) \/ Visit(r) \/ Finish(r) \/ Age(r) \/ Touch(r) \/ DeleteRow(r)
  \/ UnlinkFails \/ BreakOff \/ NewDay \/ Crash

DeletionSpec == DeletionInit /\ [][DeletionNext]_deletion

-----------------------------------------------------------------------------
(* Files that belong to a row, to a plan or to a deletion under way. *)
Accounted(kind, d) ==
  \/ kind = "run" /\ d \in Present
  \/ kind = "group" /\ group[d] = "row"
  \/ \E r \in Runs : d \in IF kind = "run" THEN plan[r].runs ELSE plan[r].groups
  \/ manual.at # "idle" /\ (IF kind = "run" THEN d = manual.run ELSE d \in manual.groups)

NoFileForgotten ==
  /\ \A r \in evidence : Accounted("run", r) \/ <<"run", r>> \in abandoned
  /\ \A g \in artifacts : Accounted("group", g) \/ <<"group", g>> \in abandoned

NoRowWithoutFiles ==
  \A g \in Runs : group[g] = "row" /\ contributors[g] # {} =>
    g \in artifacts /\ contributors[g] \subseteq evidence

(* Whatever breaks off, files whose rows are gone are still in a plan,     *)
(* unless it is a user's deletion that broke off (retention.py:450 writes  *)
(* the plan first, app.py:645 writes none); and a run or a group somebody  *)
(* can look at has its files: neither an old plan nor the deletion of a    *)
(* run beside it removes them (retention.py:460, screenshots.py:1146).     *)
FilesGoWithRows == NoFileForgotten /\ NoRowWithoutFiles

OnlyWholeOldChainsGo ==
  [][cleaner.at = "planned" /\ cleaner'.at = "committed" =>
       LET gone == {r \in Runs : run[r] # "gone" /\ run'[r] = "gone"}
       IN /\ \E root \in Runs : gone = Chain(root)
          /\ \A r \in gone : run[r] = "old"
          /\ \A g \in Runs : group[g] = "row" /\ group'[g] = "gone" => contributors[g] \subseteq gone
    ]_deletion

OldRunsGo ==
  \A r \in Runs : run[r] = "old" ~> run[r] # "old" \/ Shared(RootOf(r))

(* Rows nothing will ever delete: of runs that share a group with another *)
(* chain, and of groups a user's deletion has left without contributors.  *)
Stuck(owners) ==
  \/ \E r \in owners.runs \cap Present : Shared(RootOf(r))
  \/ \E g \in owners.groups :
       /\ group[g] = "row"
       /\ <<"group", g>> \in abandoned \/ \E r \in contributors[g] : Shared(RootOf(r))

PlansEnd == Pending # {} ~> \A r \in Pending : Stuck(plan[r])

(* The retention deletes whole chains, all of whose runs are fourteen days *)
(* old at that moment, whatever the snapshot said (retention.py:565), and  *)
(* no group another chain gives pages to.  A run nothing happens to for    *)
(* fourteen days goes in the end, unless it shares a group with another    *)
(* chain (retention.py:509 tries until all has gone well), and all plans   *)
(* are finished or dropped in the end, but those for which                 *)
(* _finish_extraction waits for such a row.                                *)
ChainsGoWhenOld == OnlyWholeOldChainsGo /\ OldRunsGo /\ PlansEnd
=============================================================================
