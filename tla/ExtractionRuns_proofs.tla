----------------------- MODULE ExtractionRuns_proofs ------------------------
(***************************************************************************)
(* Proofs about the deletion of chains of runs, for any number of runs and *)
(* incidents; and about the rows of extraction runs as a whole, from these *)
(* and the proofs about a run's transactions and a source's visits.        *)
(***************************************************************************)
EXTENDS MCExtractionRuns, RunTransactions_proofs, SourceVisit_proofs, WellFoundedInduction, TLAPS

\* Only runs somebody can look at give pages, and only to groups with a row.
PagesHaveRows ==
  \A g \in Runs : /\ contributors[g] \subseteq Present
                  /\ contributors[g] # {} => group[g] = "row"

\* An original is and stays an original.
Original(r) == run[r] # "new" /\ parent[r] = NoRun

\* A plan has its original among its runs; a pass looks at originals only.
PlansForOriginals ==
  /\ \A r \in Runs : plan[r] # NoPlan => Original(r) /\ r \in plan[r].runs
  /\ \A r \in cleaner.pending \cup cleaner.eligible : Original(r)
  /\ \A r \in cleaner.pending : plan[r] # NoPlan

\* Past the gate the cleaner is alone, and what it has looked at stays so.
CleanerAlone ==
  /\ cleaner.at \in {"planned", "committed", "remove"} =>
       cleaner.root \in Runs \ cleaner.pending /\ manual.at = "idle"
  /\ cleaner.at = "planned" => plan[cleaner.root] = PlanFor(cleaner.root) /\ Deletable(cleaner.root)
  /\ cleaner.at = "remove" =>
       /\ plan[cleaner.root].runs \cap Present = {}
       /\ \A g \in plan[cleaner.root].groups : group[g] # "row"

\* The user's deletion goes on with a run whose row is gone, and with groups
\* that still have theirs.
UsersDeletion ==
  /\ manual.at # "idle" => /\ manual.run \in Runs /\ run[manual.run] = "gone"
                           /\ \A g \in manual.groups : group[g] = "row"
  /\ manual.at = "groups" => manual.run \notin evidence

\* Files without a row were left by a user's deletion, or are still to be
\* removed, by it or by a plan whose original is gone: such a plan is finished.
RunsWithFiles ==
  \A r \in evidence :
    \/ r \in Present \/ <<"run", r>> \in abandoned
    \/ manual.at = "files" /\ manual.run = r
    \/ \E root \in Runs : run[root] = "gone" /\ r \in plan[root].runs

GroupsWithFiles ==
  \A g \in artifacts :
    \/ group[g] = "row" \/ <<"group", g>> \in abandoned
    \/ \E root \in Runs : run[root] = "gone" /\ g \in plan[root].groups

DeletionInv ==
  /\ DeletionTypeOK
  /\ PagesHaveRows /\ PlansForOriginals /\ CleanerAlone /\ UsersDeletion
  /\ RunsWithFiles /\ GroupsWithFiles /\ NoRowWithoutFiles

-----------------------------------------------------------------------------
(* The original a run goes back to.                                        *)

\* Induction, for a set of numbers.
LEMMA NumbersByInduction ==
  ASSUME NEW T, 0 \in T, \A n \in Nat : n \in T => n + 1 \in T
  PROVE  \A n \in Nat : n \in T
<1> SUFFICES ASSUME Nat \ T # {} PROVE FALSE
  OBVIOUS
<1>1. PICK x \in Nat \ T : \A y \in Nat \ T : <<y, x>> \notin OpToRel(<, Nat)
  BY NatLessThanWellFounded, WFMin
<1>2. x # 0 /\ x - 1 \in Nat /\ x - 1 + 1 = x
  BY SMT
<1>3. x - 1 \in Nat \ T
  BY <1>2
<1>4. <<x - 1, x>> \in OpToRel(<, Nat)
  BY <1>2 DEF OpToRel
<1> QED BY <1>1, <1>3, <1>4

Climb(f, r, m) ==
  f = [n \in 0..m |-> IF n = 0 THEN r
                       ELSE IF parent[f[n - 1]] = NoRun THEN f[n - 1] ELSE parent[f[n - 1]]]

\* RootOf climbs from parent to parent.
LEMMA RootIsTop ==
  ASSUME NEW r
  PROVE  \E f : Climb(f, r, MaxRuns) /\ RootOf(r) = f[MaxRuns]
<1> DEFINE T == {m \in Nat : \E f : Climb(f, r, m)}
<1>1. 0 \in T
  <2>1. Climb([n \in 0..0 |-> r], r, 0)
    BY DEF Climb
  <2> QED BY <2>1
<1>2. ASSUME NEW m \in Nat, m \in T PROVE m + 1 \in T
  <2>1. PICK f : Climb(f, r, m)
    BY <1>2
  <2> DEFINE up == IF parent[f[m]] = NoRun THEN f[m] ELSE parent[f[m]]
             g == [n \in 0..m + 1 |-> IF n = m + 1 THEN up ELSE f[n]]
             h == [n \in 0..m + 1 |-> IF n = 0 THEN r
                     ELSE IF parent[g[n - 1]] = NoRun THEN g[n - 1] ELSE parent[g[n - 1]]]
  <2>2. ASSUME NEW n \in 0..m + 1 PROVE g[n] = h[n]
    <3>1. CASE n = 0
      <4>1. g[n] = f[0] /\ h[n] = r /\ 0 \in 0..m
        BY <3>1
      <4> QED BY <2>1, <4>1 DEF Climb
    <3>2. CASE n = m + 1
      <4>1. n - 1 = m /\ m \in 0..m + 1 /\ m # m + 1 /\ n # 0
        BY <3>2
      <4>2. g[m] = f[m]
        BY <4>1
      <4> HIDE DEF up
      <4>3. g[n] = up
        BY <3>2
      <4>4. h[n] = up
        BY <4>1, <4>2 DEF up
      <4> QED BY <4>3, <4>4
    <3>3. CASE n # 0 /\ n # m + 1
      <4>1. n - 1 \in 0..m + 1 /\ n - 1 # m + 1 /\ n \in 0..m
        BY <3>3
      <4>2. g[n - 1] = f[n - 1] /\ g[n] = f[n]
        BY <3>3, <4>1
      <4>3. f[n] = IF parent[f[n - 1]] = NoRun THEN f[n - 1] ELSE parent[f[n - 1]]
        BY <2>1, <3>3, <4>1 DEF Climb
      <4> QED BY <3>3, <4>2, <4>3
    <3> QED BY <3>1, <3>2, <3>3
  <2>3. g = h
    BY <2>2
  <2>4. Climb(g, r, m + 1)
    BY <2>3 DEF Climb
  <2> QED BY <2>4
<1>3. MaxRuns \in T
  <2> HIDE DEF T
  <2> QED BY <1>1, <1>2, NumbersByInduction, RetentionAssumption
<1>4. PICK f : Climb(f, r, MaxRuns)
  BY <1>3
<1> DEFINE c == CHOOSE f_1 : Climb(f_1, r, MaxRuns)
<1>5. Climb(c, r, MaxRuns)
  BY <1>4
<1>6. RootOf(r) = c[MaxRuns]
  BY DEF RootOf, Climb
<1> QED BY <1>5, <1>6

\* Climbing stays within the runs.
LEMMA RootIsRun ==
  ASSUME parent \in [Runs -> Runs \cup {NoRun}], NEW r \in Runs
  PROVE  RootOf(r) \in Runs
<1>1. PICK f : Climb(f, r, MaxRuns) /\ RootOf(r) = f[MaxRuns]
  BY RootIsTop
<1> DEFINE T == {n \in Nat : n <= MaxRuns => f[n] \in Runs}
<1>2. 0 \in T
  BY <1>1, RetentionAssumption DEF Climb
<1>3. ASSUME NEW n \in Nat, n \in T PROVE n + 1 \in T
  <2> SUFFICES ASSUME n + 1 <= MaxRuns PROVE f[n + 1] \in Runs
    OBVIOUS
  <2>1. n + 1 \in 0..MaxRuns /\ n + 1 # 0 /\ n + 1 - 1 = n /\ n <= MaxRuns
    BY RetentionAssumption
  <2>2. f[n] \in Runs
    BY <1>3, <2>1
  <2>3. f[n + 1] = IF parent[f[n]] = NoRun THEN f[n] ELSE parent[f[n]]
    BY <1>1, <2>1 DEF Climb
  <2> QED BY <2>2, <2>3
<1> HIDE DEF T
<1>4. MaxRuns \in T
  BY <1>2, <1>3, NumbersByInduction, RetentionAssumption
<1> QED BY <1>1, <1>4, RetentionAssumption DEF T

\* An original is the original of its chain.
LEMMA OriginalIsRoot ==
  ASSUME NEW r, parent[r] = NoRun
  PROVE  RootOf(r) = r
<1>1. PICK f : Climb(f, r, MaxRuns) /\ RootOf(r) = f[MaxRuns]
  BY RootIsTop
<1> DEFINE T == {n \in Nat : n <= MaxRuns => f[n] = r}
<1>2. 0 \in T
  BY <1>1, RetentionAssumption DEF Climb
<1>3. ASSUME NEW n \in Nat, n \in T PROVE n + 1 \in T
  <2> SUFFICES ASSUME n + 1 <= MaxRuns PROVE f[n + 1] = r
    OBVIOUS
  <2>1. n + 1 \in 0..MaxRuns /\ n + 1 # 0 /\ n + 1 - 1 = n /\ n <= MaxRuns
    BY RetentionAssumption
  <2>2. f[n] = r
    BY <1>3, <2>1
  <2>3. f[n + 1] = IF parent[f[n]] = NoRun THEN f[n] ELSE parent[f[n]]
    BY <1>1, <2>1 DEF Climb
  <2> QED BY <2>2, <2>3
<1> HIDE DEF T
<1>4. MaxRuns \in T
  BY <1>2, <1>3, NumbersByInduction, RetentionAssumption
<1> QED BY <1>1, <1>4, RetentionAssumption DEF T

-----------------------------------------------------------------------------
(* Chains stay what they are while parents and runs do.                    *)

LEMMA RootsStay ==
  ASSUME UNCHANGED parent, NEW r
  PROVE  RootOf(r)' = RootOf(r)
BY DEF RootOf

LEMMA ChainsStay ==
  ASSUME UNCHANGED parent, Present' = Present, NEW r
  PROVE  Chain(r)' = Chain(r)
BY RootsStay DEF Chain

LEMMA ShownStays ==
  ASSUME NEW r, UNCHANGED <<parent, group, home, contributors>>, Present' = Present
  PROVE  PlanFor(r)' = PlanFor(r) /\ (Shared(r)' <=> Shared(r))
<1>1. Chain(r)' = Chain(r)
  BY ChainsStay
<1>2. GroupsOf(Chain(r))' = GroupsOf(Chain(r))
  BY <1>1 DEF GroupsOf
<1>3. PlanFor(r)' = PlanFor(r)
  BY <1>1, <1>2 DEF PlanFor
<1>4. Shared(r)' <=> Shared(r)
  BY <1>1, <1>2 DEF Shared
<1> QED BY <1>3, <1>4

-----------------------------------------------------------------------------
(* The records.                                                            *)

LEMMA CleanerForm ==
  ASSUME NEW c \in CleanerStates
  PROVE  /\ c.at \in {"idle", "look", "planned", "committed", "remove"}
         /\ c.root \in Runs \cup {NoRun} /\ c.pending \subseteq Runs
         /\ c.eligible \subseteq Runs /\ c.good \in BOOLEAN
BY DEF CleanerStates

LEMMA RestingForm ==
  /\ Resting \in CleanerStates /\ Resting.at = "idle"
  /\ Resting.pending = {} /\ Resting.eligible = {}
BY DEF Resting, CleanerStates

ManualStates ==
  [at : {"idle", "files", "groups"}, run : Runs \cup {NoRun}, groups : SUBSET Runs]

LEMMA ManualForm ==
  /\ NoDeletion \in ManualStates /\ NoDeletion.at = "idle"
  /\ \A m \in ManualStates : /\ m.at \in {"idle", "files", "groups"}
                             /\ m.run \in Runs \cup {NoRun} /\ m.groups \subseteq Runs
BY DEF NoDeletion, ManualStates

\* One of those that give pages was the first.
LEMMA FirstGives ==
  ASSUME NEW g, contributors[g] # {}, contributors[g] \subseteq Runs
  PROVE  Survivor(g) \in Runs
<1>1. contributors[g] \subseteq Nat
  BY RetentionAssumption DEF Runs
<1>2. PICK r \in contributors[g] : \A q \in contributors[g] : <<q, r>> \notin OpToRel(<, Nat)
  BY <1>1, NatLessThanWellFounded, WFMin
<1>3. ASSUME NEW q \in contributors[g] PROVE r <= q
  <2>1. q \in Nat /\ r \in Nat
    BY <1>1
  <2>2. q < r => <<q, r>> \in OpToRel(<, Nat)
    BY <2>1 DEF OpToRel
  <2>3. ~(q < r)
    BY <1>2, <2>2
  <2> QED BY <2>1, <2>3
<1> QED BY <1>3 DEF Survivor

\* What breaks off leaves runs and groups.
LEMMA LeftForm ==
  ASSUME DeletionInv, manual.at # "idle"
  PROVE  /\ LeftBy(manual) \subseteq {"run", "group"} \X Runs
         /\ manual.at = "files" => <<"run", manual.run>> \in LeftBy(manual)
<1>1. manual \in ManualStates /\ manual.run \in Runs
  BY DEF DeletionInv, DeletionTypeOK, ManualStates, UsersDeletion
<1>2. manual.groups \subseteq Runs
  BY <1>1, ManualForm
<1> QED BY <1>1, <1>2 DEF LeftBy

-----------------------------------------------------------------------------
(* One lemma per action.                                                   *)

LEMMA RetryKeeps ==
  ASSUME DeletionInv, NEW r \in Runs, Retry(r)
  PROVE  DeletionInv'
<1>1. PICK new \in Runs : /\ run[new] = "new" /\ run' = [run EXCEPT ![new] = "active"]
                          /\ parent' = [parent EXCEPT ![new] = r]
  <2>1. \A q \in Runs : q >= q
    BY RetentionAssumption DEF Runs
  <2> QED BY <2>1 DEF Retry
<1>2. /\ GateFree
      /\ UNCHANGED <<group, home, contributors, evidence, artifacts, plan, cleaner, manual,
                     completed, abandoned, incidents>>
  BY DEF Retry, files
<1>3. DeletionTypeOK /\ \A q \in Runs : run[q] # "new" => run'[q] = run[q] /\ parent'[q] = parent[q]
  BY <1>1 DEF DeletionInv, DeletionTypeOK
<1>4. \A q \in Runs : q \in Present => q \in Present'
  BY <1>3 DEF Present
<1>5. DeletionTypeOK'
  BY DEF DeletionInv, Retry, DeletionTypeOK, CleanerStates, files
<1>6. PagesHaveRows'
  BY DEF DeletionInv, Retry, PagesHaveRows, Present, DeletionTypeOK, files
<1>7. PlansForOriginals'
  <2>1. cleaner.pending \cup cleaner.eligible \subseteq Runs
    BY <1>3, CleanerForm DEF DeletionTypeOK
  <2> QED BY <1>2, <1>3, <2>1 DEF DeletionInv, PlansForOriginals, Original
<1>8. CleanerAlone'
  BY DEF DeletionInv, Retry, CleanerAlone, Present, DeletionTypeOK, CleanerStates, GateFree, files
<1>9. UsersDeletion'
  BY DEF DeletionInv, Retry, UsersDeletion, DeletionTypeOK, GateFree, files
<1>10. RunsWithFiles'
  <2>1. \A root \in Runs : run[root] = "gone" => run'[root] = "gone"
    BY <1>3
  <2> QED BY <1>2, <1>3, <1>4, <2>1 DEF DeletionInv, RunsWithFiles, DeletionTypeOK
<1>11. GroupsWithFiles'
  <2>1. \A root \in Runs : run[root] = "gone" => run'[root] = "gone"
    BY <1>3
  <2> QED BY <1>2, <2>1 DEF DeletionInv, GroupsWithFiles
<1>12. NoRowWithoutFiles'
  BY DEF DeletionInv, Retry, NoRowWithoutFiles, Present, DeletionTypeOK, files
<1> QED BY <1>5, <1>6, <1>7, <1>8, <1>9, <1>10, <1>11, <1>12 DEF DeletionInv

LEMMA VisitKeeps ==
  ASSUME DeletionInv, NEW r \in Runs, Visit(r)
  PROVE  DeletionInv'
<1>1. /\ run[r] = "active" /\ evidence' = evidence \cup {r} /\ GateFree
      /\ UNCHANGED <<run, parent, plan, cleaner, manual, completed, abandoned, incidents>>
  BY DEF Visit
<1>2. PICK g \in Runs : /\ group[g] # "gone" /\ group' = [group EXCEPT ![g] = "row"]
                        /\ home' = [home EXCEPT ![g] = RootOf(r)]
                        /\ contributors' = [contributors EXCEPT ![g] = @ \cup {r}]
                        /\ artifacts' = artifacts \cup {g}
  <2>1. \A q \in Runs : q >= q
    BY RetentionAssumption DEF Runs
  <2> QED BY <2>1 DEF Visit, NewGroup
<1>3. RootOf(r) \in Runs
  BY RootIsRun DEF DeletionInv, DeletionTypeOK
<1>4. DeletionTypeOK'
  BY <1>1, <1>2, <1>3 DEF DeletionInv, DeletionTypeOK
<1>5. PagesHaveRows'
  BY DEF DeletionInv, Visit, PagesHaveRows, Present, DeletionTypeOK
<1>6. PlansForOriginals'
  BY DEF DeletionInv, Visit, PlansForOriginals, Original, DeletionTypeOK
<1>7. CleanerAlone'
  BY DEF DeletionInv, Visit, CleanerAlone, Present, DeletionTypeOK, CleanerStates, GateFree
<1>8. UsersDeletion'
  BY DEF DeletionInv, Visit, UsersDeletion, DeletionTypeOK, GateFree
<1>9. RunsWithFiles'
  BY DEF DeletionInv, Visit, RunsWithFiles, Present, DeletionTypeOK, UsersDeletion, GateFree
<1>10. GroupsWithFiles'
  <2>1. group'[g] = "row" /\ \A h \in Runs : group[h] = "row" => group'[h] = "row"
    BY <1>2 DEF DeletionInv, DeletionTypeOK
  <2>2. artifacts \subseteq Runs
    BY DEF DeletionInv, DeletionTypeOK
  <2> QED BY <1>1, <1>2, <2>1, <2>2 DEF DeletionInv, GroupsWithFiles
<1>11. NoRowWithoutFiles'
  BY <1>1, <1>2 DEF DeletionInv, NoRowWithoutFiles, PagesHaveRows, DeletionTypeOK
<1> QED BY <1>4, <1>5, <1>6, <1>7, <1>8, <1>9, <1>10, <1>11 DEF DeletionInv

LEMMA FinishKeeps ==
  ASSUME DeletionInv, NEW r \in Runs, Finish(r)
  PROVE  DeletionInv'
<1>1. DeletionTypeOK'
  BY DEF DeletionInv, Finish, DeletionTypeOK, CleanerStates, files
<1>2. PagesHaveRows'
  BY DEF DeletionInv, Finish, PagesHaveRows, Present, DeletionTypeOK, files
<1>3. PlansForOriginals'
  BY DEF DeletionInv, Finish, PlansForOriginals, Original, DeletionTypeOK, files
<1>4. CleanerAlone'
  BY DEF DeletionInv, Finish, CleanerAlone, Present, DeletionTypeOK, CleanerStates, GateFree,
    rows, files
<1>5. UsersDeletion'
  BY DEF DeletionInv, Finish, UsersDeletion, DeletionTypeOK, files
<1>6. RunsWithFiles'
  BY DEF DeletionInv, Finish, RunsWithFiles, Present, DeletionTypeOK, files
<1>7. GroupsWithFiles'
  BY DEF DeletionInv, Finish, GroupsWithFiles, DeletionTypeOK, files
<1>8. NoRowWithoutFiles'
  BY DEF DeletionInv, Finish, NoRowWithoutFiles, Present, DeletionTypeOK, files
<1> QED BY <1>1, <1>2, <1>3, <1>4, <1>5, <1>6, <1>7, <1>8 DEF DeletionInv

LEMMA AgeKeeps ==
  ASSUME DeletionInv, NEW r \in Runs, Age(r)
  PROVE  DeletionInv'
<1>1. /\ run[r] = "recent" /\ run' = [run EXCEPT ![r] = "old"]
      /\ UNCHANGED <<parent, group, home, contributors, plan, cleaner, manual>>
  BY DEF Age
<1>2. Present' = Present /\ \A q \in Runs : run[q] = "old" => run'[q] = "old"
  BY <1>1 DEF Present, DeletionInv, DeletionTypeOK
<1>3. DeletionTypeOK'
  BY DEF DeletionInv, Age, DeletionTypeOK, CleanerStates, files
<1>4. PagesHaveRows'
  BY DEF DeletionInv, Age, PagesHaveRows, Present, DeletionTypeOK, files
<1>5. PlansForOriginals'
  BY DEF DeletionInv, Age, PlansForOriginals, Original, DeletionTypeOK, files
<1>6. CleanerAlone'
  <2>1. cleaner.at = "planned" => /\ PlanFor(cleaner.root)' = PlanFor(cleaner.root)
                                  /\ Deletable(cleaner.root)'
    <3> SUFFICES ASSUME Deletable(cleaner.root)
                 PROVE  /\ PlanFor(cleaner.root)' = PlanFor(cleaner.root)
                        /\ Deletable(cleaner.root)'
      BY DEF DeletionInv, CleanerAlone
    <3>1. /\ PlanFor(cleaner.root)' = PlanFor(cleaner.root)
          /\ Shared(cleaner.root)' <=> Shared(cleaner.root)
          /\ Chain(cleaner.root)' = Chain(cleaner.root)
      BY <1>1, <1>2, ShownStays, ChainsStay
    <3>2. Expired(cleaner.root)'
      BY <1>1, <1>2, <3>1 DEF Deletable, Expired, Chain, Present
    <3> QED BY <1>1, <3>1, <3>2 DEF Deletable
  <2> QED BY <1>1, <1>2, <2>1 DEF DeletionInv, CleanerAlone
<1>7. UsersDeletion'
  BY DEF DeletionInv, Age, UsersDeletion, DeletionTypeOK, files
<1>8. RunsWithFiles'
  BY DEF DeletionInv, Age, RunsWithFiles, Present, DeletionTypeOK, files
<1>9. GroupsWithFiles'
  BY DEF DeletionInv, Age, GroupsWithFiles, DeletionTypeOK, files
<1>10. NoRowWithoutFiles'
  BY DEF DeletionInv, Age, NoRowWithoutFiles, Present, DeletionTypeOK, files
<1> QED BY <1>3, <1>4, <1>5, <1>6, <1>7, <1>8, <1>9, <1>10 DEF DeletionInv

LEMMA TouchKeeps ==
  ASSUME DeletionInv, NEW r \in Runs, Touch(r)
  PROVE  DeletionInv'
<1>1. DeletionTypeOK'
  BY RetentionAssumption DEF DeletionInv, Touch, DeletionTypeOK, files
<1>2. PagesHaveRows'
  BY DEF DeletionInv, Touch, PagesHaveRows, Present, DeletionTypeOK, files
<1>3. PlansForOriginals'
  BY DEF DeletionInv, Touch, PlansForOriginals, Original, DeletionTypeOK, files
<1>4. CleanerAlone'
  BY DEF DeletionInv, Touch, CleanerAlone, Present, DeletionTypeOK, CleanerStates, GateFree, files
<1>5. UsersDeletion'
  BY DEF DeletionInv, Touch, UsersDeletion, DeletionTypeOK, GateFree, files
<1>6. RunsWithFiles'
  BY DEF DeletionInv, Touch, RunsWithFiles, Present, DeletionTypeOK, GateFree, files
<1>7. GroupsWithFiles'
  BY DEF DeletionInv, Touch, GroupsWithFiles, DeletionTypeOK, files
<1>8. NoRowWithoutFiles'
  BY DEF DeletionInv, Touch, NoRowWithoutFiles, Present, DeletionTypeOK, files
<1> QED BY <1>1, <1>2, <1>3, <1>4, <1>5, <1>6, <1>7, <1>8 DEF DeletionInv

LEMMA DeleteRowKeeps ==
  ASSUME DeletionInv, NEW r \in Runs, DeleteRow(r)
  PROVE  DeletionInv'
<1>1. /\ run[r] \in {"recent", "old"} /\ run' = [run EXCEPT ![r] = "gone"]
      /\ manual'.at = "files" /\ manual'.run = r
      /\ manual'.groups = {g \in Runs : r \in contributors[g]}
      /\ UNCHANGED <<group, evidence>>
  BY DEF DeleteRow, files
<1>2. DeletionTypeOK'
  BY DEF DeletionInv, DeleteRow, DeletionTypeOK, CleanerStates, files
<1>3. PagesHaveRows'
  BY DEF DeletionInv, DeleteRow, PagesHaveRows, Present, DeletionTypeOK, files
<1>4. PlansForOriginals'
  BY DEF DeletionInv, DeleteRow, PlansForOriginals, Original, DeletionTypeOK, CleanerStates,
    GateFree, rows, files
<1>5. CleanerAlone'
  BY DEF DeletionInv, DeleteRow, CleanerAlone, Present, DeletionTypeOK, CleanerStates, GateFree,
    files
<1>6. UsersDeletion'
  BY <1>1 DEF DeletionInv, DeletionTypeOK, UsersDeletion, PagesHaveRows
<1>7. RunsWithFiles'
  BY DEF DeletionInv, DeleteRow, RunsWithFiles, Present, DeletionTypeOK, GateFree, files
<1>8. GroupsWithFiles'
  BY DEF DeletionInv, DeleteRow, GroupsWithFiles, DeletionTypeOK, files
<1>9. NoRowWithoutFiles'
  BY DEF DeletionInv, DeleteRow, NoRowWithoutFiles, Present, DeletionTypeOK, files
<1> QED BY <1>2, <1>3, <1>4, <1>5, <1>6, <1>7, <1>8, <1>9 DEF DeletionInv

LEMMA UnlinkFilesKeeps ==
  ASSUME DeletionInv, UnlinkFiles
  PROVE  DeletionInv'
<1>1. /\ manual.at = "files" /\ evidence' = evidence \ {manual.run}
      /\ UNCHANGED <<run, group, contributors, artifacts>>
  BY DEF UnlinkFiles, rows
<1>2. DeletionTypeOK'
  BY DEF DeletionInv, UnlinkFiles, DeletionTypeOK, CleanerStates, rows
<1>3. PagesHaveRows'
  BY DEF DeletionInv, UnlinkFiles, PagesHaveRows, Present, DeletionTypeOK, rows
<1>4. PlansForOriginals'
  BY DEF DeletionInv, UnlinkFiles, PlansForOriginals, Original, DeletionTypeOK, rows
<1>5. CleanerAlone'
  BY DEF DeletionInv, UnlinkFiles, CleanerAlone, Present, DeletionTypeOK, CleanerStates, rows
<1>6. UsersDeletion'
  BY DEF DeletionInv, UnlinkFiles, UsersDeletion, DeletionTypeOK, rows
<1>7. RunsWithFiles'
  BY DEF DeletionInv, UnlinkFiles, RunsWithFiles, Present, DeletionTypeOK, UsersDeletion, rows
<1>8. GroupsWithFiles'
  BY DEF DeletionInv, UnlinkFiles, GroupsWithFiles, DeletionTypeOK, UsersDeletion, rows
<1>9. NoRowWithoutFiles'
  <2>1. \A g \in Runs : manual.run \notin contributors[g]
    BY <1>1 DEF DeletionInv, PagesHaveRows, Present, UsersDeletion
  <2> QED BY <1>1, <2>1 DEF DeletionInv, NoRowWithoutFiles
<1> QED BY <1>2, <1>3, <1>4, <1>5, <1>6, <1>7, <1>8, <1>9 DEF DeletionInv

LEMMA KeepGroupKeeps ==
  ASSUME DeletionInv, NEW r \in Runs, KeepGroup(r)
  PROVE  DeletionInv'
<1>1. /\ manual.at = "groups" /\ r \in manual.groups /\ contributors[r] # {}
      /\ UNCHANGED <<run, parent, group, contributors, evidence, artifacts, plan, cleaner,
                     completed, incidents>>
  BY DEF KeepGroup, files
<1>2. \/ manual' = NoDeletion /\ abandoned' = abandoned \cup LeftBy(manual) /\ UNCHANGED home
      \/ /\ home' = [home EXCEPT ![r] = RootOf(Survivor(r))] /\ UNCHANGED abandoned
         /\ manual' = [manual EXCEPT !.groups = @ \ {r}]
  BY DEF KeepGroup
<1>3. manual \in ManualStates /\ home \in [Runs -> Runs \cup {NoRun}]
  BY DEF DeletionInv, DeletionTypeOK, ManualStates
<1>4. /\ manual' \in ManualStates /\ manual'.at \in {"idle", "groups"}
      /\ manual'.at = "groups" => manual'.run = manual.run /\ manual'.groups \subseteq manual.groups
  BY <1>1, <1>2, <1>3, ManualForm DEF ManualStates
<1>5. abandoned \subseteq abandoned' /\ abandoned' \subseteq {"run", "group"} \X Runs
  BY <1>1, <1>2, LeftForm DEF DeletionInv, DeletionTypeOK
<1>6. home' \in [Runs -> Runs \cup {NoRun}]
  <2>1. Survivor(r) \in Runs
    BY <1>1, FirstGives DEF DeletionInv, DeletionTypeOK
  <2>2. RootOf(Survivor(r)) \in Runs
    BY <2>1, RootIsRun DEF DeletionInv, DeletionTypeOK
  <2> QED BY <1>2, <1>3, <2>2
<1>7. DeletionTypeOK'
  BY <1>1, <1>4, <1>5, <1>6 DEF DeletionInv, DeletionTypeOK, ManualStates
<1>8. PagesHaveRows'
  BY DEF DeletionInv, KeepGroup, PagesHaveRows, Present, DeletionTypeOK, files
<1>9. PlansForOriginals'
  BY <1>1 DEF DeletionInv, PlansForOriginals, Original
<1>10. CleanerAlone'
  BY <1>1 DEF DeletionInv, CleanerAlone
<1>11. UsersDeletion'
  BY <1>1, <1>4 DEF DeletionInv, UsersDeletion
<1>12. RunsWithFiles'
  <2>1. Present' = Present
    BY <1>1 DEF Present
  <2> QED BY <1>1, <1>5, <2>1 DEF DeletionInv, RunsWithFiles
<1>13. GroupsWithFiles'
  BY <1>1, <1>5 DEF DeletionInv, GroupsWithFiles
<1>14. NoRowWithoutFiles'
  BY DEF DeletionInv, KeepGroup, NoRowWithoutFiles, Present, DeletionTypeOK, files
<1> QED BY <1>7, <1>8, <1>9, <1>10, <1>11, <1>12, <1>13, <1>14 DEF DeletionInv

LEMMA DropGroupKeeps ==
  ASSUME DeletionInv, NEW r \in Runs, DropGroup(r)
  PROVE  DeletionInv'
<1>1. /\ manual.at = "groups" /\ r \in manual.groups /\ contributors[r] = {}
      /\ group' = [group EXCEPT ![r] = "gone"] /\ manual' = [manual EXCEPT !.groups = @ \ {r}]
      /\ UNCHANGED <<run, parent, home, contributors, evidence, plan, cleaner, completed>>
  BY DEF DropGroup
<1>2. /\ artifacts' \subseteq artifacts /\ abandoned \subseteq abandoned'
      /\ abandoned' \subseteq abandoned \cup {<<"group", r>>}
      /\ r \notin artifacts' \/ <<"group", r>> \in abandoned'
      /\ \A g \in artifacts : g # r => g \in artifacts'
  BY DEF DropGroup
<1>3. manual \in ManualStates
  BY DEF DeletionInv, DeletionTypeOK, ManualStates
<1>4. /\ manual' \in ManualStates /\ manual'.at = "groups" /\ manual'.run = manual.run
      /\ manual'.groups = manual.groups \ {r}
  BY <1>1, <1>3 DEF ManualStates
<1>5. incidents' \in 0..MaxIncidents
  BY RetentionAssumption DEF DropGroup, DeletionInv, DeletionTypeOK
<1>6. DeletionTypeOK'
  BY <1>1, <1>2, <1>4, <1>5 DEF DeletionInv, DeletionTypeOK, ManualStates
<1>7. PagesHaveRows'
  BY DEF DeletionInv, DropGroup, PagesHaveRows, Present, DeletionTypeOK
<1>8. PlansForOriginals'
  BY DEF DeletionInv, DropGroup, PlansForOriginals, Original, DeletionTypeOK
<1>9. CleanerAlone'
  BY <1>1 DEF DeletionInv, CleanerAlone
<1>10. UsersDeletion'
  BY <1>1, <1>4 DEF DeletionInv, UsersDeletion, DeletionTypeOK
<1>11. RunsWithFiles'
  BY DEF DeletionInv, DropGroup, RunsWithFiles, Present, DeletionTypeOK
<1>12. GroupsWithFiles'
  <2>1. \A g \in Runs : g # r => group'[g] = group[g]
    BY <1>1 DEF DeletionInv, DeletionTypeOK
  <2>2. artifacts \subseteq Runs
    BY DEF DeletionInv, DeletionTypeOK
  <2> QED BY <1>1, <1>2, <2>1, <2>2 DEF DeletionInv, GroupsWithFiles
<1>13. NoRowWithoutFiles'
  BY <1>1, <1>2 DEF DeletionInv, NoRowWithoutFiles, DeletionTypeOK
<1> QED BY <1>6, <1>7, <1>8, <1>9, <1>10, <1>11, <1>12, <1>13 DEF DeletionInv

LEMMA AnswerKeeps ==
  ASSUME DeletionInv, Answer
  PROVE  DeletionInv'
<1>1. /\ manual.at = "groups" /\ manual' = NoDeletion
      /\ manual' \in ManualStates /\ manual'.at = "idle"
  BY ManualForm DEF Answer
<1>2. UNCHANGED <<run, parent, group, home, contributors, evidence, artifacts, plan, cleaner,
                  completed, abandoned, incidents>>
  BY DEF Answer, rows, files
<1>3. DeletionTypeOK'
  BY <1>1, <1>2 DEF DeletionInv, DeletionTypeOK, ManualStates
<1>4. PagesHaveRows'
  BY DEF DeletionInv, Answer, PagesHaveRows, Present, DeletionTypeOK, rows, files
<1>5. PlansForOriginals'
  BY DEF DeletionInv, Answer, PlansForOriginals, Original, DeletionTypeOK, rows, files
<1>6. CleanerAlone'
  BY DEF DeletionInv, Answer, CleanerAlone, Present, DeletionTypeOK, CleanerStates, rows, files
<1>7. UsersDeletion'
  BY <1>1 DEF UsersDeletion
<1>8. RunsWithFiles'
  BY DEF DeletionInv, Answer, RunsWithFiles, Present, DeletionTypeOK, UsersDeletion, rows, files
<1>9. GroupsWithFiles'
  BY DEF DeletionInv, Answer, GroupsWithFiles, DeletionTypeOK, UsersDeletion, rows, files
<1>10. NoRowWithoutFiles'
  BY DEF DeletionInv, Answer, NoRowWithoutFiles, Present, DeletionTypeOK, rows, files
<1> QED BY <1>3, <1>4, <1>5, <1>6, <1>7, <1>8, <1>9, <1>10 DEF DeletionInv

LEMMA UnlinkFailsKeeps ==
  ASSUME DeletionInv, UnlinkFails
  PROVE  DeletionInv'
<1>1. /\ manual.at = "files" /\ manual' = NoDeletion /\ manual' \in ManualStates
      /\ manual'.at = "idle" /\ abandoned' = abandoned \cup LeftBy(manual)
  BY ManualForm DEF UnlinkFails
<1>2. UNCHANGED <<run, parent, group, home, contributors, evidence, artifacts, plan, cleaner,
                  completed>>
  BY DEF UnlinkFails, rows, files
<1>3. abandoned' \subseteq {"run", "group"} \X Runs /\ <<"run", manual.run>> \in abandoned'
  BY <1>1, LeftForm DEF DeletionInv, DeletionTypeOK
<1>4. incidents' \in 0..MaxIncidents
  BY RetentionAssumption DEF UnlinkFails, DeletionInv, DeletionTypeOK
<1>5. DeletionTypeOK'
  BY <1>1, <1>2, <1>3, <1>4 DEF DeletionInv, DeletionTypeOK, ManualStates
<1>6. PagesHaveRows'
  BY DEF DeletionInv, UnlinkFails, PagesHaveRows, Present, DeletionTypeOK, rows, files
<1>7. PlansForOriginals'
  BY DEF DeletionInv, UnlinkFails, PlansForOriginals, Original, DeletionTypeOK, rows, files
<1>8. CleanerAlone'
  BY DEF DeletionInv, UnlinkFails, CleanerAlone, Present, DeletionTypeOK, CleanerStates, rows, files
<1>9. UsersDeletion'
  BY <1>1 DEF UsersDeletion
<1>10. RunsWithFiles'
  <2>1. Present' = Present
    BY <1>2 DEF Present
  <2> QED BY <1>1, <1>2, <1>3, <2>1 DEF DeletionInv, RunsWithFiles
<1>11. GroupsWithFiles'
  BY DEF DeletionInv, UnlinkFails, GroupsWithFiles, DeletionTypeOK, UsersDeletion, rows, files
<1>12. NoRowWithoutFiles'
  BY DEF DeletionInv, UnlinkFails, NoRowWithoutFiles, Present, DeletionTypeOK, rows, files
<1> QED BY <1>5, <1>6, <1>7, <1>8, <1>9, <1>10, <1>11, <1>12 DEF DeletionInv

LEMMA BeginPassKeeps ==
  ASSUME DeletionInv, BeginPass
  PROVE  DeletionInv'
<1>1. /\ cleaner.at = "idle" /\ cleaner' \in CleanerStates /\ cleaner'.at = "look"
      /\ cleaner'.pending = Pending /\ cleaner'.eligible = {r \in Roots : Deletable(r)}
  <2>1. Pending \subseteq Runs /\ {r \in Roots : Deletable(r)} \subseteq Runs
    BY DEF Pending, Roots, Present
  <2> DEFINE g == \A r \in Roots : ~Unfinished(r) /\ (Expired(r) => ~Shared(r))
  <2>2. g \in BOOLEAN
    OBVIOUS
  <2>3. /\ cleaner.at = "idle"
        /\ cleaner' = [at |-> "look", root |-> NoRun, pending |-> Pending,
                       eligible |-> {r \in Roots : Deletable(r)}, good |-> g]
    BY DEF BeginPass
  <2> HIDE DEF g
  <2> QED BY <2>1, <2>2, <2>3 DEF CleanerStates
<1>2. UNCHANGED <<run, parent, group, home, contributors, evidence, artifacts, plan, manual,
                  completed, abandoned, incidents>>
  BY DEF BeginPass, rows, files
<1>3. DeletionTypeOK'
  BY <1>1, <1>2 DEF DeletionInv, DeletionTypeOK
<1>4. PagesHaveRows'
  BY DEF DeletionInv, BeginPass, PagesHaveRows, Present, DeletionTypeOK, rows, files
<1>5. PlansForOriginals'
  <2>1. \A r \in Pending : Original(r) /\ plan[r] # NoPlan
    BY DEF DeletionInv, PlansForOriginals, Pending
  <2>2. \A r \in Roots : Original(r)
    BY DEF Roots, Present, Original
  <2> QED BY <1>1, <1>2, <2>1, <2>2 DEF DeletionInv, PlansForOriginals, Original
<1>6. CleanerAlone'
  BY DEF DeletionInv, BeginPass, CleanerAlone, Present, DeletionTypeOK, CleanerStates, GateFree,
    rows, files
<1>7. UsersDeletion'
  BY DEF DeletionInv, BeginPass, UsersDeletion, DeletionTypeOK, GateFree, rows, files
<1>8. RunsWithFiles'
  BY DEF DeletionInv, BeginPass, RunsWithFiles, Present, DeletionTypeOK, GateFree, rows, files
<1>9. GroupsWithFiles'
  BY DEF DeletionInv, BeginPass, GroupsWithFiles, DeletionTypeOK, rows, files
<1>10. NoRowWithoutFiles'
  BY DEF DeletionInv, BeginPass, NoRowWithoutFiles, Present, DeletionTypeOK, rows, files
<1> QED BY <1>3, <1>4, <1>5, <1>6, <1>7, <1>8, <1>9, <1>10 DEF DeletionInv

\* _delete_extraction begins: nothing but the plan changes, and the plan has its
\* original among the runs.
LEMMA StartKeeps ==
  ASSUME DeletionInv, NEW root \in cleaner.pending \cup cleaner.eligible, root \in Present,
         Deletable(root), cleaner.at = "look", manual.at = "idle", StartDeleting(root),
         UNCHANGED <<rows, files, manual, completed, abandoned, incidents>>
  PROVE  DeletionInv'
<1>1. /\ UNCHANGED <<run, parent, group, home, contributors, evidence, artifacts, manual,
                     completed, abandoned, incidents>>
      /\ cleaner \in CleanerStates /\ root \in Runs
      /\ plan \in [Runs -> [runs : SUBSET Runs, groups : SUBSET Runs]]
      /\ Original(root)
  BY DEF rows, files, DeletionInv, DeletionTypeOK, Present, PlansForOriginals
<1>2. /\ plan' = [plan EXCEPT ![root] = PlanFor(root)]
      /\ cleaner' \in CleanerStates /\ cleaner'.at = "planned" /\ cleaner'.root = root
      /\ cleaner'.pending = cleaner.pending \ {root}
      /\ cleaner'.eligible \subseteq cleaner.eligible
  BY <1>1 DEF StartDeleting, CleanerStates
<1>3. /\ PlanFor(root).runs = Chain(root) /\ root \in Chain(root)
      /\ PlanFor(root) \in [runs : SUBSET Runs, groups : SUBSET Runs]
      /\ PlanFor(root) # NoPlan
  <2>1. root \in Chain(root)
    BY <1>1, OriginalIsRoot DEF Chain, Original
  <2> QED BY <2>1 DEF PlanFor, Chain, Present, GroupsOf, NoPlan
<1>4. plan'[root] = PlanFor(root) /\ \A r \in Runs : r # root => plan'[r] = plan[r]
  BY <1>1, <1>2
<1>5. PlanFor(root)' = PlanFor(root) /\ Deletable(root)' /\ Present' = Present
  <2>1. Present' = Present
    BY <1>1 DEF Present
  <2>2. /\ PlanFor(root)' = PlanFor(root) /\ (Shared(root)' <=> Shared(root))
        /\ Chain(root)' = Chain(root)
    BY <1>1, <2>1, ShownStays, ChainsStay
  <2> QED BY <1>1, <2>1, <2>2 DEF Deletable, Expired
<1>6. DeletionTypeOK'
  <2>1. plan' \in [Runs -> [runs : SUBSET Runs, groups : SUBSET Runs]]
    BY <1>1, <1>2, <1>3
  <2> QED BY <1>1, <1>2, <1>3, <1>4, <2>1 DEF DeletionInv, DeletionTypeOK
<1>7. PagesHaveRows' /\ UsersDeletion' /\ NoRowWithoutFiles'
  BY <1>1, <1>5 DEF DeletionInv, PagesHaveRows, UsersDeletion, NoRowWithoutFiles
<1>8. PlansForOriginals'
  BY <1>1, <1>2, <1>3, <1>4 DEF DeletionInv, PlansForOriginals, Original
<1>9. CleanerAlone'
  BY <1>1, <1>2, <1>4, <1>5 DEF CleanerAlone
<1>10. RunsWithFiles'
  <2>1. \A r \in Runs : run[r] = "gone" => plan'[r] = plan[r]
    BY <1>4 DEF Present
  <2> QED BY <1>1, <1>5, <2>1 DEF DeletionInv, RunsWithFiles
<1>11. GroupsWithFiles'
  <2>1. \A r \in Runs : run[r] = "gone" => plan'[r] = plan[r]
    BY <1>4 DEF Present
  <2> QED BY <1>1, <2>1 DEF DeletionInv, GroupsWithFiles
<1> QED BY <1>6, <1>7, <1>8, <1>9, <1>10, <1>11 DEF DeletionInv

\* The cleaner goes on, and nothing else changes.
LEMMA CleanerMoves ==
  ASSUME DeletionInv, cleaner' \in CleanerStates, cleaner'.at # "planned",
         cleaner'.pending \subseteq cleaner.pending, cleaner'.eligible \subseteq cleaner.eligible,
         cleaner'.at \in {"committed", "remove"} =>
           /\ cleaner'.root \in Runs \ cleaner'.pending
           /\ plan[cleaner'.root] # NoPlan /\ manual.at = "idle",
         cleaner'.at = "remove" =>
           /\ plan[cleaner'.root].runs \cap Present = {}
           /\ \A g \in plan[cleaner'.root].groups : group[g] # "row",
         UNCHANGED <<rows, files, plan, manual, abandoned>>,
         completed' \in BOOLEAN, incidents' \in 0..MaxIncidents
  PROVE  DeletionInv'
<1>1. UNCHANGED <<run, parent, group, home, contributors, evidence, artifacts, plan, manual,
                  abandoned>>
  BY DEF rows, files
<1>2. Present' = Present
  BY <1>1 DEF Present
<1>3. DeletionTypeOK'
  BY <1>1, CleanerForm DEF DeletionInv, DeletionTypeOK
<1>4. PagesHaveRows' /\ UsersDeletion' /\ NoRowWithoutFiles'
  BY <1>1, <1>2 DEF DeletionInv, PagesHaveRows, UsersDeletion, NoRowWithoutFiles
<1>5. PlansForOriginals'
  BY <1>1 DEF DeletionInv, PlansForOriginals, Original
<1>6. CleanerAlone'
  BY <1>1, <1>2 DEF CleanerAlone
<1>7. RunsWithFiles' /\ GroupsWithFiles'
  BY <1>1, <1>2 DEF DeletionInv, RunsWithFiles, GroupsWithFiles
<1> QED BY <1>3, <1>4, <1>5, <1>6, <1>7 DEF DeletionInv

\* A plan goes whose runs and groups have rows again or no files any more.
LEMMA PlanGoes ==
  ASSUME DeletionInv, NEW root \in Runs, plan' = [plan EXCEPT ![root] = NoPlan],
         cleaner' \in CleanerStates, cleaner'.at = "look", cleaner'.eligible = cleaner.eligible,
         cleaner'.pending \subseteq cleaner.pending \ {root},
         UNCHANGED <<rows, files, manual, completed, abandoned, incidents>>,
         \/ root \in Present
         \/ plan[root].runs \cap evidence = {} /\ plan[root].groups \cap artifacts = {}
  PROVE  DeletionInv'
<1>1. UNCHANGED <<run, parent, group, home, contributors, evidence, artifacts, manual,
                  completed, abandoned, incidents>>
  BY DEF rows, files
<1>2. Present' = Present
  BY <1>1 DEF Present
<1>3. NoPlan \in [runs : SUBSET Runs, groups : SUBSET Runs]
  BY DEF NoPlan
<1>4. /\ plan' \in [Runs -> [runs : SUBSET Runs, groups : SUBSET Runs]] /\ plan'[root] = NoPlan
      /\ \A r \in Runs : r # root => plan'[r] = plan[r]
  BY <1>3 DEF DeletionInv, DeletionTypeOK
<1>5. DeletionTypeOK'
  BY <1>1, <1>4, CleanerForm DEF DeletionInv, DeletionTypeOK
<1>6. PagesHaveRows' /\ UsersDeletion' /\ NoRowWithoutFiles'
  BY <1>1, <1>2 DEF DeletionInv, PagesHaveRows, UsersDeletion, NoRowWithoutFiles
<1>7. PlansForOriginals'
  <2>1. cleaner'.pending \subseteq Runs
    BY CleanerForm
  <2> QED BY <1>1, <1>4, <2>1 DEF DeletionInv, PlansForOriginals, Original
<1>8. CleanerAlone'
  BY <1>1, <1>2 DEF CleanerAlone
<1>9. RunsWithFiles'
  <2>1. \A r \in evidence, q \in Runs :
          run[q] = "gone" /\ r \in plan[q].runs => plan'[q] = plan[q]
    BY <1>4 DEF Present
  <2> QED BY <1>1, <1>2, <2>1 DEF DeletionInv, RunsWithFiles
<1>10. GroupsWithFiles'
  <2>1. \A g \in artifacts, q \in Runs :
          run[q] = "gone" /\ g \in plan[q].groups => plan'[q] = plan[q]
    BY <1>4 DEF Present
  <2> QED BY <1>1, <2>1 DEF DeletionInv, GroupsWithFiles
<1> QED BY <1>5, <1>6, <1>7, <1>8, <1>9, <1>10 DEF DeletionInv

\* A failure ends the item.
LEMMA FailureKeeps ==
  ASSUME DeletionInv, Fails, UNCHANGED <<rows, files, plan, manual, completed, abandoned>>
  PROVE  DeletionInv'
<1>1. /\ cleaner \in CleanerStates /\ completed' \in BOOLEAN
      /\ incidents' \in 0..MaxIncidents
  BY RetentionAssumption DEF Fails, DeletionInv, DeletionTypeOK
<1>2. /\ cleaner' \in CleanerStates /\ cleaner'.at = "look"
      /\ cleaner'.pending = cleaner.pending /\ cleaner'.eligible = cleaner.eligible
  BY <1>1 DEF Fails, CleanerStates
<1> QED BY <1>1, <1>2, CleanerMoves

LEMMA TakePendingKeeps ==
  ASSUME DeletionInv, NEW r \in Runs, TakePending(r)
  PROVE  DeletionInv'
<1>1. /\ cleaner.at = "look" /\ manual.at = "idle" /\ r \in cleaner.pending
      /\ cleaner \in CleanerStates /\ plan[r] # NoPlan
      /\ completed' \in BOOLEAN /\ incidents' \in 0..MaxIncidents
      /\ UNCHANGED <<rows, files, manual, completed, abandoned, incidents>>
  BY DEF TakePending, GateFree, DeletionInv, DeletionTypeOK, PlansForOriginals
<1>2. CASE /\ r \in Present /\ plan' = [plan EXCEPT ![r] = NoPlan]
           /\ cleaner' = [cleaner EXCEPT !.pending = @ \ {r}]
  <2>1. /\ cleaner' \in CleanerStates /\ cleaner'.at = "look"
        /\ cleaner'.pending = cleaner.pending \ {r} /\ cleaner'.eligible = cleaner.eligible
    BY <1>1, <1>2 DEF CleanerStates
  <2> QED BY <1>1, <1>2, <2>1, PlanGoes
<1>3. CASE r \in Present /\ Deletable(r) /\ StartDeleting(r)
  BY <1>1, <1>3, StartKeeps
<1>4. CASE /\ UNCHANGED plan
           /\ cleaner' = [cleaner EXCEPT !.at = "committed", !.root = r, !.pending = @ \ {r}]
  <2>1. /\ cleaner' \in CleanerStates /\ cleaner'.at = "committed" /\ cleaner'.root = r
        /\ cleaner'.pending = cleaner.pending \ {r} /\ cleaner'.eligible = cleaner.eligible
    BY <1>1, <1>4 DEF CleanerStates
  <2> QED BY <1>1, <1>4, <2>1, CleanerMoves
<1> QED BY <1>2, <1>3, <1>4 DEF TakePending

LEMMA TakeCandidateKeeps ==
  ASSUME DeletionInv, NEW r \in Runs, TakeCandidate(r)
  PROVE  DeletionInv'
<1>1. /\ cleaner.at = "look" /\ manual.at = "idle" /\ r \in cleaner.eligible
      /\ cleaner \in CleanerStates
      /\ completed' \in BOOLEAN /\ incidents' \in 0..MaxIncidents
      /\ UNCHANGED <<rows, files, manual, completed, abandoned, incidents>>
  BY DEF TakeCandidate, GateFree, DeletionInv, DeletionTypeOK
<1>2. CASE r \in Present /\ Deletable(r) /\ StartDeleting(r)
  BY <1>1, <1>2, StartKeeps
<1>3. CASE /\ UNCHANGED plan
           /\ cleaner' = [cleaner EXCEPT !.eligible = @ \ {r}, !.good = @ /\ r \notin Present]
  <2>1. cleaner.good \in BOOLEAN
    BY <1>1, CleanerForm
  <2>2. PICK good \in BOOLEAN : (cleaner.good /\ r \notin Present) = good
    BY <2>1
  <2>3. cleaner' = [cleaner EXCEPT !.eligible = @ \ {r}, !.good = good]
    BY <1>3, <2>2
  <2>4. /\ cleaner' \in CleanerStates /\ cleaner'.at = "look"
        /\ cleaner'.pending = cleaner.pending /\ cleaner'.eligible = cleaner.eligible \ {r}
    BY <1>1, <2>3 DEF CleanerStates
  <2> QED BY <1>1, <1>3, <2>4, CleanerMoves
<1> QED BY <1>2, <1>3 DEF TakeCandidate

LEMMA CheckCommittedKeeps ==
  ASSUME DeletionInv, CheckCommitted
  PROVE  DeletionInv'
<1>1. /\ cleaner.at = "committed" /\ manual.at = "idle" /\ cleaner \in CleanerStates
      /\ cleaner.root \in Runs \ cleaner.pending /\ plan[cleaner.root] # NoPlan
      /\ completed' \in BOOLEAN /\ incidents' \in 0..MaxIncidents
      /\ UNCHANGED <<rows, files, plan, manual, completed, abandoned, incidents>>
  BY DEF CheckCommitted, CleanerAlone, DeletionInv, DeletionTypeOK
<1>2. CASE /\ plan[cleaner.root].runs \cap Present = {}
           /\ \A g \in plan[cleaner.root].groups : group[g] # "row"
           /\ cleaner' = [cleaner EXCEPT !.at = "remove"]
  <2>1. /\ cleaner' \in CleanerStates /\ cleaner'.at = "remove" /\ cleaner'.root = cleaner.root
        /\ cleaner'.pending = cleaner.pending /\ cleaner'.eligible = cleaner.eligible
    BY <1>1, <1>2 DEF CleanerStates
  <2> QED BY <1>1, <1>2, <2>1, CleanerMoves
<1>3. CASE cleaner' = [cleaner EXCEPT !.at = "look", !.good = FALSE]
  <2>1. /\ cleaner' \in CleanerStates /\ cleaner'.at = "look"
        /\ cleaner'.pending = cleaner.pending /\ cleaner'.eligible = cleaner.eligible
    BY <1>1, <1>3 DEF CleanerStates
  <2> QED BY <1>1, <1>3, <2>1, CleanerMoves
<1> QED BY <1>2, <1>3 DEF CheckCommitted

LEMMA DropPlanKeeps ==
  ASSUME DeletionInv, DropPlan
  PROVE  DeletionInv'
<1>1. /\ cleaner.at = "remove" /\ cleaner \in CleanerStates
      /\ cleaner.root \in Runs \ cleaner.pending
  BY DEF DropPlan, CleanerAlone, DeletionInv, DeletionTypeOK
<1>2. /\ cleaner' \in CleanerStates /\ cleaner'.at = "look"
      /\ cleaner'.pending = cleaner.pending /\ cleaner'.eligible = cleaner.eligible
  BY <1>1 DEF DropPlan, CleanerStates
<1> QED BY <1>1, <1>2, PlanGoes DEF DropPlan

LEMMA PassEndsKeep ==
  ASSUME DeletionInv, EndPass \/ BreakOff
  PROVE  DeletionInv'
<1>1. /\ completed' \in BOOLEAN /\ incidents' \in 0..MaxIncidents /\ cleaner' = Resting
      /\ UNCHANGED <<rows, files, plan, manual, abandoned>>
  BY RetentionAssumption, CleanerForm DEF EndPass, BreakOff, DeletionInv, DeletionTypeOK
<1> QED BY <1>1, RestingForm, CleanerMoves

LEMMA RemovePathKeeps ==
  ASSUME DeletionInv, RemovePath
  PROVE  DeletionInv'
<1>1. /\ cleaner.at = "remove" /\ cleaner.root \in Runs /\ cleaner \in CleanerStates
      /\ plan[cleaner.root].runs \cap Present = {}
      /\ \A g \in plan[cleaner.root].groups : group[g] # "row"
  BY DEF RemovePath, DeletionInv, DeletionTypeOK, CleanerAlone
<1>2. UNCHANGED <<run, parent, group, home, contributors, plan, manual, completed, abandoned>>
  BY DEF RemovePath, rows
<1>3. /\ cleaner' = cleaner \/ Fails
      /\ evidence' \subseteq evidence /\ artifacts' \subseteq artifacts
      /\ \A r \in evidence : r \in evidence' \/ r \in plan[cleaner.root].runs
      /\ \A g \in artifacts : g \in artifacts' \/ g \in plan[cleaner.root].groups
  BY DEF RemovePath, files
<1>4. incidents' \in 0..MaxIncidents
  BY RetentionAssumption DEF RemovePath, Fails, DeletionInv, DeletionTypeOK
<1>5. /\ cleaner' \in CleanerStates
      /\ cleaner' = cleaner \/ cleaner'.at = "look"
      /\ cleaner'.pending = cleaner.pending /\ cleaner'.eligible = cleaner.eligible
  BY <1>1, <1>3 DEF Fails, CleanerStates
<1>6. Present' = Present
  BY <1>2 DEF Present
<1>7. DeletionTypeOK'
  BY <1>2, <1>3, <1>4, <1>5 DEF DeletionInv, DeletionTypeOK
<1>8. PagesHaveRows'
  BY <1>2, <1>6 DEF DeletionInv, PagesHaveRows
<1>9. PlansForOriginals'
  BY <1>2, <1>5 DEF DeletionInv, PlansForOriginals, Original
<1>10. CleanerAlone'
  BY <1>1, <1>2, <1>5, <1>6 DEF DeletionInv, CleanerAlone
<1>11. UsersDeletion'
  BY <1>2, <1>3 DEF DeletionInv, UsersDeletion
<1>12. RunsWithFiles'
  BY <1>2, <1>3, <1>6 DEF DeletionInv, RunsWithFiles
<1>13. GroupsWithFiles'
  BY <1>2, <1>3 DEF DeletionInv, GroupsWithFiles
<1>14. NoRowWithoutFiles'
  <2> SUFFICES ASSUME NEW g \in Runs, group[g] = "row", contributors[g] # {}
               PROVE  g \in artifacts' /\ contributors[g] \subseteq evidence'
    BY <1>2 DEF NoRowWithoutFiles
  <2>1. g \in artifacts /\ contributors[g] \subseteq evidence /\ contributors[g] \subseteq Present
    BY DEF DeletionInv, NoRowWithoutFiles, PagesHaveRows
  <2> QED BY <1>1, <1>3, <2>1
<1> QED BY <1>7, <1>8, <1>9, <1>10, <1>11, <1>12, <1>13, <1>14 DEF DeletionInv

LEMMA DeleteChainKeeps ==
  ASSUME DeletionInv, DeleteChain
  PROVE  DeletionInv'
<1> DEFINE p == plan[cleaner.root]
<1>1. /\ cleaner.at = "planned" /\ cleaner.root \in Runs \ cleaner.pending /\ manual.at = "idle"
      /\ cleaner \in CleanerStates /\ p # NoPlan
      /\ UNCHANGED <<evidence, artifacts, plan, manual, completed, abandoned>>
  BY DEF DeleteChain, files, CleanerAlone, DeletionInv, DeletionTypeOK
<1>2. CASE Fails /\ UNCHANGED rows
  BY <1>1, <1>2, FailureKeeps DEF files
<1>3. CASE /\ run' = [r \in Runs |-> IF r \in p.runs THEN "gone" ELSE run[r]]
           /\ parent' = [r \in Runs |-> IF {r,
             parent[r]} \cap p.runs # {} THEN NoRun ELSE parent[r]]
           /\ group' = [g \in Runs |-> IF g \in p.groups THEN "gone" ELSE group[g]]
           /\ contributors' = [g \in Runs |-> IF g \in p.groups THEN {}
                                              ELSE contributors[g] \ p.runs]
           /\ cleaner' = [cleaner EXCEPT !.at = "committed"]
           /\ UNCHANGED <<home, incidents>>
  <2> HIDE DEF p
  <2>1. /\ cleaner' \in CleanerStates /\ cleaner'.at = "committed"
        /\ cleaner'.root = cleaner.root
        /\ cleaner'.pending = cleaner.pending /\ cleaner'.eligible = cleaner.eligible
    BY <1>1, <1>3 DEF CleanerStates
  <2>2. \A r \in Runs : /\ r \in p.runs => run'[r] = "gone"
                        /\ r \notin p.runs => run'[r] = run[r]
                        /\ parent[r] = NoRun => parent'[r] = NoRun
    BY <1>3
  <2>3. \A g \in Runs : /\ g \in p.groups => group'[g] = "gone" /\ contributors'[g] = {}
                        /\ g \notin p.groups => /\ group'[g] = group[g]
                                                /\ contributors'[g] = contributors[g] \ p.runs
    BY <1>3
  <2>4. \A r \in Present : r \in Present' \/ r \in p.runs
    BY <2>2 DEF Present
  <2>5. run'[cleaner.root] = "gone"
    BY <1>1, <2>2 DEF DeletionInv, PlansForOriginals, p
  <2>6. \A r \in Runs : run[r] # "new" => run'[r] # "new"
    BY <2>2
  <2>7. \A r \in Runs : run[r] = "gone" => run'[r] = "gone"
    BY <2>2
  <2>8. DeletionTypeOK'
    <3>1. run' \in [Runs -> {"new", "active", "recent", "old", "gone"}]
      BY <1>3 DEF DeletionInv, DeletionTypeOK
    <3>2. parent' \in [Runs -> Runs \cup {NoRun}]
      BY <1>3 DEF DeletionInv, DeletionTypeOK
    <3>3. group' \in [Runs -> {"none", "row", "gone"}]
      BY <1>3 DEF DeletionInv, DeletionTypeOK
    <3>4. contributors' \in [Runs -> SUBSET Runs]
      BY <1>3 DEF DeletionInv, DeletionTypeOK
    <3> QED BY <1>1, <1>3, <2>1, <3>1, <3>2, <3>3, <3>4 DEF DeletionInv, DeletionTypeOK, p
  <2>9. PagesHaveRows'
    BY <2>3, <2>4 DEF DeletionInv, PagesHaveRows
  <2>10. PlansForOriginals'
    <3>1. \A r \in Runs : Original(r) => Original(r)'
      BY <2>2, <2>6 DEF Original
    <3>2. cleaner.pending \cup cleaner.eligible \subseteq Runs
      BY <1>1, CleanerForm
    <3> QED BY <1>1, <2>1, <3>1, <3>2 DEF DeletionInv, PlansForOriginals
  <2>11. CleanerAlone' /\ UsersDeletion'
    BY <1>1, <2>1 DEF CleanerAlone, UsersDeletion
  <2>12. RunsWithFiles'
    <3>1. \A r \in evidence :
            r \in p.runs => run'[cleaner.root] = "gone" /\ r \in plan'[cleaner.root].runs
      BY <1>1, <2>5 DEF p
    <3> QED BY <1>1, <2>4, <2>7, <3>1 DEF DeletionInv, RunsWithFiles
  <2>13. GroupsWithFiles'
    <3>1. \A g \in artifacts :
            g \in p.groups => run'[cleaner.root] = "gone" /\ g \in plan'[cleaner.root].groups
      BY <1>1, <2>5 DEF p
    <3>2. artifacts \subseteq Runs
      BY DEF DeletionInv, DeletionTypeOK
    <3> QED BY <1>1, <2>3, <2>7, <3>1, <3>2 DEF DeletionInv, GroupsWithFiles
  <2>14. NoRowWithoutFiles'
    BY <1>1, <2>3 DEF DeletionInv, NoRowWithoutFiles
  <2> QED BY <2>8, <2>9, <2>10, <2>11, <2>12, <2>13, <2>14 DEF DeletionInv
<1> QED BY <1>2, <1>3 DEF DeleteChain

LEMMA NewDayKeeps ==
  ASSUME DeletionInv, NewDay
  PROVE  DeletionInv'
<1>1. /\ completed' \in BOOLEAN
      /\ UNCHANGED <<run, parent, group, home, contributors, evidence, artifacts, plan, cleaner,
                     manual, abandoned, incidents>>
  BY DEF NewDay, rows, files
<1>2. Present' = Present
  BY <1>1 DEF Present
<1>3. /\ PlanFor(cleaner.root)' = PlanFor(cleaner.root)
      /\ Deletable(cleaner.root) => Deletable(cleaner.root)'
  <2>1. /\ PlanFor(cleaner.root)' = PlanFor(cleaner.root)
        /\ Shared(cleaner.root)' <=> Shared(cleaner.root)
        /\ Chain(cleaner.root)' = Chain(cleaner.root)
    BY <1>1, <1>2, ShownStays, ChainsStay
  <2> QED BY <1>1, <2>1 DEF Deletable, Expired
<1>4. DeletionTypeOK'
  BY <1>1 DEF DeletionInv, DeletionTypeOK
<1>5. PagesHaveRows' /\ PlansForOriginals' /\ UsersDeletion' /\ NoRowWithoutFiles'
  BY <1>1, <1>2
  DEF DeletionInv, PagesHaveRows, PlansForOriginals, Original, UsersDeletion, NoRowWithoutFiles
<1>6. CleanerAlone'
  BY <1>1, <1>2, <1>3 DEF DeletionInv, CleanerAlone
<1>7. RunsWithFiles' /\ GroupsWithFiles'
  BY <1>1, <1>2 DEF DeletionInv, RunsWithFiles, GroupsWithFiles
<1> QED BY <1>4, <1>5, <1>6, <1>7 DEF DeletionInv

\* What a user's deletion leaves undone is known to be left.
LEMMA CrashKeeps ==
  ASSUME DeletionInv, Crash
  PROVE  DeletionInv'
<1>1. /\ incidents' \in 0..MaxIncidents /\ cleaner' = Resting /\ manual' = NoDeletion
      /\ UNCHANGED <<run, parent, group, home, contributors, evidence, artifacts, plan, completed>>
  BY RetentionAssumption DEF Crash, rows, files, DeletionInv, DeletionTypeOK
<1>2. /\ abandoned' \subseteq {"run", "group"} \X Runs /\ abandoned \subseteq abandoned'
      /\ manual.at = "files" => <<"run", manual.run>> \in abandoned'
  BY LeftForm DEF Crash, DeletionInv, DeletionTypeOK
<1>3. Present' = Present
  BY <1>1 DEF Present
<1>4. DeletionTypeOK'
  BY <1>1, <1>2, RestingForm, ManualForm DEF DeletionInv, DeletionTypeOK, ManualStates
<1>5. PagesHaveRows' /\ NoRowWithoutFiles'
  BY <1>1, <1>3 DEF DeletionInv, PagesHaveRows, NoRowWithoutFiles
<1>6. PlansForOriginals'
  BY <1>1, RestingForm DEF DeletionInv, PlansForOriginals, Original
<1>7. CleanerAlone' /\ UsersDeletion'
  BY <1>1, RestingForm, ManualForm DEF CleanerAlone, UsersDeletion
<1>8. RunsWithFiles' /\ GroupsWithFiles'
  BY <1>1, <1>2, <1>3 DEF DeletionInv, RunsWithFiles, GroupsWithFiles
<1> QED BY <1>4, <1>5, <1>6, <1>7, <1>8 DEF DeletionInv

-----------------------------------------------------------------------------
(* All steps.                                                              *)

LEMMA InitKeeps == DeletionInit => DeletionInv
<1> SUFFICES ASSUME DeletionInit PROVE DeletionInv
  OBVIOUS
<1>1. NoPlan \in [runs : SUBSET Runs, groups : SUBSET Runs]
  BY DEF NoPlan
<1>2. DeletionTypeOK
  <2>1. /\ run \in [Runs -> {"new", "active", "recent", "old", "gone"}]
        /\ parent \in [Runs -> Runs \cup {NoRun}]
        /\ group \in [Runs -> {"none", "row", "gone"}]
        /\ home \in [Runs -> Runs \cup {NoRun}]
        /\ contributors \in [Runs -> SUBSET Runs]
    BY DEF DeletionInit
  <2>2. plan \in [Runs -> [runs : SUBSET Runs, groups : SUBSET Runs]]
    BY <1>1 DEF DeletionInit
  <2>3. /\ evidence \subseteq Runs /\ artifacts \subseteq Runs /\ completed \in BOOLEAN
        /\ abandoned \subseteq {"run", "group"} \X Runs
    BY DEF DeletionInit
  <2>4. /\ cleaner \in CleanerStates /\ manual \in ManualStates
        /\ cleaner.at \notin {"planned", "committed", "remove"}
    BY RestingForm, ManualForm DEF DeletionInit
  <2>5. incidents \in 0..MaxIncidents
    BY RetentionAssumption DEF DeletionInit
  <2> QED BY <2>1, <2>2, <2>3, <2>4, <2>5 DEF DeletionTypeOK, ManualStates
<1>3. /\ PagesHaveRows /\ PlansForOriginals /\ CleanerAlone /\ UsersDeletion
      /\ RunsWithFiles /\ GroupsWithFiles /\ NoRowWithoutFiles
  BY RestingForm, ManualForm
  DEF DeletionInit, PagesHaveRows, PlansForOriginals, CleanerAlone, UsersDeletion,
      RunsWithFiles, GroupsWithFiles, NoRowWithoutFiles
<1> QED BY <1>2, <1>3 DEF DeletionInv

LEMMA NothingKeeps == DeletionInv /\ UNCHANGED deletion => DeletionInv'
<1> SUFFICES ASSUME DeletionInv, UNCHANGED deletion PROVE DeletionInv'
  OBVIOUS
<1>1. UNCHANGED <<run, parent, group, home, contributors, evidence, artifacts, plan, cleaner,
                  manual, completed, abandoned, incidents>>
  BY DEF deletion, rows, files
<1>2. Present' = Present
  BY <1>1 DEF Present
<1>3. /\ PlanFor(cleaner.root)' = PlanFor(cleaner.root)
      /\ Deletable(cleaner.root) => Deletable(cleaner.root)'
  <2>1. /\ PlanFor(cleaner.root)' = PlanFor(cleaner.root)
        /\ Shared(cleaner.root)' <=> Shared(cleaner.root)
        /\ Chain(cleaner.root)' = Chain(cleaner.root)
    BY <1>1, <1>2, ShownStays, ChainsStay
  <2> QED BY <1>1, <2>1 DEF Deletable, Expired
<1>4. DeletionTypeOK'
  BY <1>1 DEF DeletionInv, DeletionTypeOK
<1>5. PagesHaveRows' /\ PlansForOriginals' /\ UsersDeletion' /\ NoRowWithoutFiles'
  BY <1>1, <1>2
  DEF DeletionInv, PagesHaveRows, PlansForOriginals, Original, UsersDeletion, NoRowWithoutFiles
<1>6. CleanerAlone'
  BY <1>1, <1>2, <1>3 DEF DeletionInv, CleanerAlone
<1>7. RunsWithFiles' /\ GroupsWithFiles'
  BY <1>1, <1>2 DEF DeletionInv, RunsWithFiles, GroupsWithFiles
<1> QED BY <1>4, <1>5, <1>6, <1>7 DEF DeletionInv

LEMMA DeletionStep == DeletionInv /\ [DeletionNext]_deletion => DeletionInv'
<1> SUFFICES ASSUME DeletionInv, [DeletionNext]_deletion PROVE DeletionInv'
  OBVIOUS
<1>1. CASE Cleaning
  BY <1>1, BeginPassKeeps, DeleteChainKeeps, CheckCommittedKeeps, RemovePathKeeps, DropPlanKeeps,
     PassEndsKeep, TakePendingKeeps, TakeCandidateKeeps DEF Cleaning
<1>2. CASE Deleting
  BY <1>2, UnlinkFilesKeeps, AnswerKeeps, KeepGroupKeeps, DropGroupKeeps DEF Deleting
<1>3. CASE \E r \in Runs : Retry(r) \/ Visit(r) \/ Finish(r) \/ Age(r) \/ Touch(r) \/ DeleteRow(r)
  BY <1>3, RetryKeeps, VisitKeeps, FinishKeeps, AgeKeeps, TouchKeeps, DeleteRowKeeps
<1>4. CASE UnlinkFails \/ BreakOff \/ NewDay \/ Crash
  BY <1>4, UnlinkFailsKeeps, PassEndsKeep, NewDayKeeps, CrashKeeps
<1> QED BY <1>1, <1>2, <1>3, <1>4, NothingKeeps DEF DeletionNext

-----------------------------------------------------------------------------
(* The theorems.                                                           *)

\* Rows, files, plans and deletions under way fit together at every step.
THEOREM DeletionInvariant == DeletionSpec => []DeletionInv
<1> QED BY InitKeeps, DeletionStep, PTL DEF DeletionSpec

\* Runs, groups, plans and what is under way stay well-formed; a cleaner past
\* the gate has a plan.
THEOREM DeletionTyped == DeletionSpec => []DeletionTypeOK
<1>1. DeletionInv => DeletionTypeOK
  BY DEF DeletionInv
<1> QED BY <1>1, DeletionInvariant, PTL

\* Wherever a deletion breaks off, what it has not removed is in a plan, or it
\* was a user's deletion, which has none (retention.py:450, app.py:645); and
\* what still has a row has its files (retention.py:460, screenshots.py:1146).
THEOREM FilesGo == DeletionSpec => []FilesGoWithRows
<1>1. DeletionInv => FilesGoWithRows
  <2> SUFFICES ASSUME DeletionInv PROVE NoFileForgotten /\ NoRowWithoutFiles
    BY DEF FilesGoWithRows
  <2>1. \A r \in evidence : Accounted("run", r) \/ <<"run", r>> \in abandoned
    BY DEF DeletionInv, RunsWithFiles, Accounted
  <2>2. \A g \in artifacts : Accounted("group", g) \/ <<"group", g>> \in abandoned
    BY DEF DeletionInv, GroupsWithFiles, Accounted
  <2> QED BY <2>1, <2>2 DEF NoFileForgotten, DeletionInv
<1> QED BY <1>1, DeletionInvariant, PTL

\* What the retention deletes is a whole chain, all of it fourteen days old
\* now, with no group another chain gives pages to (retention.py:565).
THEOREM WholeOldChains == DeletionSpec => OnlyWholeOldChainsGo
<1> DEFINE Whole ==
             cleaner.at = "planned" /\ cleaner'.at = "committed" =>
               LET gone == {r \in Runs : run[r] # "gone" /\ run'[r] = "gone"}
               IN /\ \E root \in Runs : gone = Chain(root)
                  /\ \A r \in gone : run[r] = "old"
                  /\ \A g \in Runs : group[g] = "row" /\ group'[g] = "gone" =>
                                       contributors[g] \subseteq gone
<1>1. DeletionInv /\ [DeletionNext]_deletion => Whole
  <2> DEFINE gone == {r \in Runs : run[r] # "gone" /\ run'[r] = "gone"}
  <2> SUFFICES ASSUME DeletionInv, [DeletionNext]_deletion,
                      cleaner.at = "planned", cleaner'.at = "committed"
               PROVE  /\ \E root \in Runs : gone = Chain(root)
                      /\ \A r \in gone : run[r] = "old"
                      /\ \A g \in Runs : group[g] = "row" /\ group'[g] = "gone" =>
                                           contributors[g] \subseteq gone
    OBVIOUS
  <2> DEFINE root == cleaner.root
  <2>1. /\ root \in Runs /\ manual.at = "idle" /\ cleaner \in CleanerStates
        /\ plan[root] = PlanFor(root) /\ Expired(root) /\ ~Shared(root)
    BY DEF DeletionInv, CleanerAlone, Deletable, DeletionTypeOK
  <2>2. DeleteChain
    <3>1. cleaner' # cleaner /\ ~GateFree
      BY DEF GateFree
    <3>2. cleaner' # Resting /\ ~Fails
      BY <2>1, RestingForm DEF Fails, CleanerStates
    <3> QED BY <2>1, <3>1, <3>2
            DEF DeletionNext, Cleaning, Deleting, BeginPass, CheckCommitted, RemovePath, DropPlan,
                EndPass, TakePending, TakeCandidate, UnlinkFiles, Answer, KeepGroup, DropGroup,
                Retry, Visit, Finish, Age, Touch, DeleteRow, UnlinkFails, BreakOff, NewDay, Crash,
                deletion
  <2>3. /\ run' = [r \in Runs |-> IF r \in Chain(root) THEN "gone" ELSE run[r]]
        /\ group' = [g \in Runs |-> IF g \in GroupsOf(Chain(root)) THEN "gone" ELSE group[g]]
    <3>1. ~Fails
      BY <2>1 DEF Fails, CleanerStates
    <3> QED BY <2>1, <2>2, <3>1 DEF DeleteChain, PlanFor
  <2>4. Chain(root) \subseteq Present /\ Present \subseteq Runs
    BY DEF Chain, Present
  <2>5. gone = Chain(root)
    BY <2>3, <2>4 DEF Present
  <2>6. \A r \in Chain(root) : run[r] = "old"
    BY <2>1 DEF Expired
  <2>7. \A g \in Runs : group[g] = "row" /\ group'[g] = "gone" => g \in GroupsOf(Chain(root))
    BY <2>3
  <2>8. \A g \in GroupsOf(Chain(root)) : contributors[g] \subseteq Chain(root)
    BY <2>1 DEF Shared
  <2> QED BY <2>1, <2>5, <2>6, <2>7, <2>8
<1>2. DeletionSpec => [][Whole]_deletion
  BY <1>1, DeletionInvariant, PTL DEF DeletionSpec
<1> QED BY <1>2, PTL DEF OnlyWholeOldChainsGo


-----------------------------------------------------------------------------
(* A run's transactions, the visits to a source and the deletion together. *)

\* Each part takes its own steps.
LEMMA StepsOfParts ==
  [RunsNext]_extraction =>
    [Next]_vars /\ [VisitNext]_visiting /\ [DeletionNext]_deletion
<1> SUFFICES ASSUME [RunsNext]_extraction
             PROVE  [Next]_vars /\ [VisitNext]_visiting /\ [DeletionNext]_deletion
  OBVIOUS
<1>1. CASE Written /\ Next
  BY <1>1 DEF Written
<1>2. CASE Visited /\ VisitNext
  BY <1>2 DEF Visited
<1>3. CASE Deleted /\ DeletionNext
  BY <1>3 DEF Deleted
<1>4. CASE UNCHANGED extraction
  BY <1>4 DEF extraction
<1> QED BY <1>1, <1>2, <1>3, <1>4 DEF RunsNext

LEMMA Parts == RunsSpec => Spec /\ VisitSpec /\ DeletionSpec
<1>1. RunsInit => Init /\ VisitInit /\ DeletionInit
  BY DEF RunsInit
<1> QED BY <1>1, StepsOfParts, PTL DEF RunsSpec, Spec, VisitSpec, DeletionSpec

\* The rows of runs, as the lanes, the visits and the deletion write them, keep their
\* types, and so does what each of them has in memory.
THEOREM RunsTyped == RunsSpec => []TypesOK
<1>1. TypeOK /\ VisitTypeOK /\ DeletionTypeOK => TypesOK
  BY DEF TypesOK
<1> QED BY <1>1, Parts, RunTyped, VisitsTyped, DeletionTyped, PTL

\* Whether its transactions, its visits or its deletion write a run's rows: no lane starts
\* while a task waits, a run ends after its tasks, no candidate is forgotten, nothing is
\* asked for twice, and only whole old chains go, with their files (claim_batch,
\* aggregate_run, _apply_result, retention.py).
THEOREM RunsSafe ==
    ASSUME "import" \notin Others
    PROVE  RunsSpec =>
             /\ []NoLaneWhileWaiting /\ []EndedRunHasEnded /\ FinalIsFinal
             /\ []CandidatesAccounted /\ AskedOnce
             /\ []FilesGoWithRows /\ OnlyWholeOldChainsGo
<1> QED BY Parts, LanesWaitForSessions, RunEndsLast, FinalStays, NothingForgotten,
           NothingAskedTwice, FilesGo, WholeOldChains, PTL
=============================================================================
