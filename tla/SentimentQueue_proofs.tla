----------------------- MODULE SentimentQueue_proofs -----------------------
(***************************************************************************)
(* Proofs about the queue of posts to be judged, for any posts, accounts,  *)
(* limits and slots and for every mixture of requests, errors, cool-downs, *)
(* lost threads, failed commits, restarts, saves and tests: the safety     *)
(* properties SentimentQueue states follow from one inductive invariant,   *)
(* what the claim lock guards and what a thread that fails overwrites.     *)
(***************************************************************************)
EXTENDS SentimentQueue, FiniteSetTheorems, WellFoundedInduction, TLAPS

RowsTyped == an \in [Posts -> {Absent} \cup Analyses]
SlotsTyped == slot \in [Slots -> {Idle} \cup Working \cup Losing \cup Chosen \cup Failing]

\* A save begun can be stored within the bound.
SaveHasRoom == save.pc = "saving" => revision[save.acct] < MaxSaves

\* What a slot has in hand was stored.
RowsThere == \A s \in Slots : slot[s].pc # "idle" => an[slot[s].post] # Absent

\* One slot at a time is between choice and claim, and has the lock.
ChosenUnderLock ==
    \A s \in Slots : slot[s].pc = "chosen" =>
        lock.by = "slot" /\ \A r \in Slots \ {s} : slot[r].pc # "chosen"

\* What it has chosen is nobody's, if paused meanwhile, and there is still the room
\* it found: nobody else begins a request, whatever becomes of the limit.
ChosenHasRoom ==
    \A s \in Slots : slot[s].pc = "chosen" =>
        LET c == an[slot[s].post]
        IN  /\ c.status # "running"
            /\ slot[s].post \in overwritten \/ c.status \in {"queued", "paused"}
            /\ \A a \in Accounts :
                c.acct = a => Cardinality(OfAccount(a, "running")) < slot[s].room
            /\ c.model = "local" => \A y \in With("running") : an[y].model # "local"

\* Whoever works when the watchdog has the lock was working when it looked.
WatchdogKnows == lock.by = "watchdog" => Claimed \subseteq lock.active

\* The one predictor judges one post.
OneLocal ==
    \A x, y \in With("running") : an[x].model = "local" /\ an[y].model = "local" => x = y

IInv ==
    /\ TypeOK
    /\ RowsTyped
    /\ SlotsTyped
    /\ SaveHasRoom
    /\ RowsThere
    /\ ChosenUnderLock
    /\ ChosenHasRoom
    /\ WatchdogKnows
    /\ WorkedOnOnce
    /\ OneLocal
    /\ PostsAgree

-----------------------------------------------------------------------------
(* The operators.                                                          *)

\* The first of some posts is one of them.
LEMMA FirstIsOne ==
    ASSUME NEW S, S \subseteq Posts, S # {}
    PROVE  First(S) \in S
<1>1. S \subseteq Nat
  BY PostsType
<1>2. PICK x \in S : \A y \in S : ~ (<<y, x>> \in OpToRel(<, Nat))
  BY <1>1, NatLessThanWellFounded, WFMin
<1>3. \A y \in S : x <= y
  <2> SUFFICES ASSUME NEW y \in S PROVE x <= y
    OBVIOUS
  <2>1. x \in Nat /\ y \in Nat
    BY <1>1
  <2>2. ~ (y < x)
    BY <1>2, <2>1 DEF OpToRel
  <2> QED BY <2>1, <2>2
<1> QED BY <1>3 DEF First

\* What a slot is doing.
LEMMA SlotForm ==
    ASSUME SlotsTyped, NEW s \in Slots
    PROVE  /\ slot[s].pc \in {"idle", "chosen", "working", "losing", "failing"}
           /\ slot[s] = Idle <=> slot[s].pc = "idle"
           /\ slot[s].pc # "idle" => slot[s].post \in Posts
           /\ slot[s].pc \in {"chosen", "working"} => slot[s].rev \in 0 .. MaxSaves
           /\ slot[s].pc = "losing" => slot[s].seen \in States /\ slot[s].same \in BOOLEAN
           /\ slot[s].pc = "chosen" => slot[s].room \in Nat \ {0}
<1>1. slot[s] \in {Idle} \cup Working \cup Losing \cup Chosen \cup Failing
  BY DEF SlotsTyped
<1>2. CASE slot[s] = Idle
  BY <1>2 DEF Idle
<1>3. CASE slot[s] \in Working
  BY <1>3 DEF Working, Idle
<1>4. CASE slot[s] \in Losing
  BY <1>4 DEF Losing, Idle
<1>5. CASE slot[s] \in Chosen
  BY <1>5 DEF Chosen, Idle
<1>6. CASE slot[s] \in Failing
  BY <1>6 DEF Failing, Idle
<1> QED BY <1>1, <1>2, <1>3, <1>4, <1>5, <1>6

\* What a row holds.
LEMMA RowForm ==
    ASSUME NEW c \in {Absent} \cup Analyses
    PROVE  /\ c.status \in Statuses
           /\ c = Absent <=> c.status = "none"
           /\ c # Absent => /\ c \in Analyses /\ c.acct \in Accounts /\ c.model \in AllModels
                            /\ c.orphaned \in BOOLEAN
BY DEF Absent, Analyses, Statuses, Final

\* A row with another status is the row of the same account and model.
LEMMA Restatus ==
    ASSUME NEW c \in Analyses, NEW st \in Statuses \ {"none"}, NEW d,
           d = [c EXCEPT !.status = st]
    PROVE  d \in Analyses /\ d.status = st /\ d.acct = c.acct /\ d.model = c.model
BY DEF Analyses

\* How many requests an account has is a number.
LEMMA RunningFinite ==
    ASSUME NEW a
    PROVE  /\ OfAccount(a, "running") \subseteq Posts /\ IsFiniteSet(OfAccount(a, "running"))
           /\ Cardinality(OfAccount(a, "running")) \in Nat
<1>1. OfAccount(a, "running") \subseteq Posts
  BY DEF OfAccount, With
<1> QED BY <1>1, PostsType, FS_Subset, FS_CardinalityType

-----------------------------------------------------------------------------
(* Steps that start no request.                                            *)

\* The variables beside rows and slots.
RestTyped ==
    /\ state \in [Accounts -> States]
    /\ revision \in [Accounts -> 0 .. MaxSaves]
    /\ model \in [Accounts -> AllModels]
    /\ limit \in [Accounts -> Nat \ {0}]
    /\ lock \in {Free, [by |-> "slot"]} \cup [by : {"watchdog"}, active : SUBSET Posts]
    /\ cooling \subseteq Accounts
    /\ save \in {Idle} \cup [pc : {"saving"}, acct : Accounts, model : AllModels, limit : Limits,
                            kept : BOOLEAN, seen : States]
    /\ test \in {Idle} \cup [pc : {"asking"}, acct : Accounts, rev : 0 .. MaxSaves]
                \cup [pc : {"storing"}, acct : Accounts, verdict : States, seen : States]
    /\ trouble \in 0 .. MaxTrouble
    /\ overwritten \subseteq Posts

\* A row of which no request is begun; and unless it was overwritten, none that
\* was chosen is taken away and no judgement lost.
QuietRow(y) ==
    /\ an'[y] \in {Absent} \cup Analyses
    /\ shown'[y] = an'[y].status
    /\ an[y] # Absent =>
        an'[y].acct = an[y].acct /\ an'[y].model = an[y].model /\ an'[y] # Absent
    /\ an'[y].status = "running" => an[y].status = "running"
    /\ an[y].status \in {"queued", "paused"} =>
        \/ an'[y].status \in {"queued", "paused"} \/ y \in overwritten'
        \/ \A s \in Slots : ~(slot'[s].pc = "chosen" /\ slot'[s].post = y)
    /\ an[y].status \in Final => an'[y].status = an[y].status \/ y \in overwritten'

Quiet ==
    /\ RowsTyped' /\ shown' \in [Posts -> Statuses]
    /\ overwritten \subseteq overwritten'
    /\ \A y \in Posts : QuietRow(y)

LEMMA RowsUnchanged ==
    ASSUME IInv, UNCHANGED <<an, shown, overwritten>>
    PROVE  Quiet
<1>1. RowsTyped' /\ shown' \in [Posts -> Statuses] /\ RowsTyped /\ PostsAgree
  BY DEF IInv, RowsTyped, TypeOK
<1>2. ASSUME NEW y \in Posts PROVE QuietRow(y)
  BY <1>1 DEF QuietRow, RowsTyped, PostsAgree
<1> QED BY <1>1, <1>2 DEF Quiet

LEMMA Parts ==
    ASSUME IInv
    PROVE  RestTyped /\ RowsTyped /\ SlotsTyped
BY DEF IInv, TypeOK, RestTyped

\* The requests only become fewer.
LEMMA QuietShrinks ==
    ASSUME IInv, Quiet
    PROVE  /\ With("running")' \subseteq With("running")
           /\ \A y \in With("running")' :
                an'[y].acct = an[y].acct /\ an'[y].model = an[y].model
           /\ \A a : Cardinality(OfAccount(a, "running")') <= Cardinality(OfAccount(a, "running"))
           /\ \A a : Cardinality(OfAccount(a, "running")') \in Nat
<1>1. ASSUME NEW y \in Posts, an'[y].status = "running"
      PROVE  /\ an[y].status = "running"
             /\ an'[y].acct = an[y].acct /\ an'[y].model = an[y].model
  BY <1>1, RowForm, Parts DEF Quiet, QuietRow, RowsTyped
<1>2. /\ With("running")' \subseteq With("running")
      /\ \A y \in With("running")' :
            an'[y].acct = an[y].acct /\ an'[y].model = an[y].model
  BY <1>1 DEF With
<1>3. ASSUME NEW a
      PROVE  /\ Cardinality(OfAccount(a, "running")') <= Cardinality(OfAccount(a, "running"))
             /\ Cardinality(OfAccount(a, "running")') \in Nat
  <2>1. OfAccount(a, "running")' \subseteq OfAccount(a, "running")
    BY <1>2 DEF OfAccount
  <2> QED BY <2>1, RunningFinite, FS_Subset, FS_CardinalityType
<1> QED BY <1>2, <1>3

\* What is left to show of a step that begins no request: that slots only give
\* up, that whoever goes on has a running row and that the lock is respected.
LEMMA QuietKeeps ==
    ASSUME IInv, Quiet, SlotsTyped', RestTyped', SaveHasRoom',
           \A s \in Slots : slot'[s].pc # "idle" =>
                /\ slot[s].pc # "idle" /\ slot'[s].post = slot[s].post
                /\ slot'[s].pc = "chosen" =>
                     slot[s].pc = "chosen" /\ slot'[s].room = slot[s].room /\ lock'.by = "slot"
                /\ slot'[s].pc \in {"working", "losing"} =>
                     /\ slot[s].pc \in {"working", "losing"}
                     /\ \/ slot[s].post \in overwritten'
                        \/ an'[slot[s].post].status = "running"
                /\ slot'[s].pc = "failing" /\ lock'.by = "watchdog" =>
                     slot[s].pc \in {"working", "losing", "failing"},
           lock'.by = "watchdog" => Claimed \subseteq lock'.active
    PROVE  IInv'
<1>1. SlotsTyped /\ RowsTyped
  BY Parts
<1>2. TypeOK'
  BY DEF TypeOK, RestTyped, Quiet, RowsTyped, SlotsTyped
<1>3. ChosenUnderLock'
  BY SlotForm, <1>1 DEF IInv, ChosenUnderLock
<1>10. RowsThere'
  <2> SUFFICES ASSUME NEW s \in Slots, slot'[s].pc # "idle" PROVE an'[slot'[s].post] # Absent
    BY DEF RowsThere
  <2>1. slot[s].pc # "idle" /\ slot'[s].post = slot[s].post /\ slot[s].post \in Posts
    BY SlotForm, <1>1
  <2> QED BY <2>1 DEF IInv, RowsThere, Quiet, QuietRow
<1>4. ChosenHasRoom'
  <2> SUFFICES ASSUME NEW s \in Slots, slot'[s].pc = "chosen"
               PROVE  /\ an'[slot'[s].post].status # "running"
                      /\ \/ slot'[s].post \in overwritten'
                         \/ an'[slot'[s].post].status \in {"queued", "paused"}
                      /\ \A a \in Accounts : an'[slot'[s].post].acct = a =>
                            Cardinality(OfAccount(a, "running")') < slot'[s].room
                      /\ an'[slot'[s].post].model = "local" =>
                            \A y \in With("running")' : an'[y].model # "local"
    BY DEF ChosenHasRoom
  <2> DEFINE x == slot[s].post
             c == an[x]
  <2>1. slot[s].pc = "chosen" /\ slot'[s].post = x /\ x \in Posts /\ slot'[s].room = slot[s].room
        /\ slot[s].room \in Nat
    BY SlotForm, <1>1
  <2>2. /\ c.status # "running" /\ (x \in overwritten \/ c.status \in {"queued", "paused"})
        /\ \A a \in Accounts : c.acct = a => Cardinality(OfAccount(a, "running")) < slot[s].room
        /\ c.model = "local" => \A y \in With("running") : an[y].model # "local"
    BY <2>1 DEF IInv, ChosenHasRoom
  <2>3. c # Absent
    BY <2>1 DEF IInv, RowsThere
  <2>4. /\ an'[x].status # "running"
        /\ x \in overwritten' \/ an'[x].status \in {"queued", "paused"}
        /\ an'[x].acct = c.acct /\ an'[x].model = c.model
    BY <2>1, <2>2, <2>3 DEF Quiet, QuietRow
  <2> HIDE DEF x, c
  <2>5. ASSUME NEW a \in Accounts, c.acct = a
        PROVE  Cardinality(OfAccount(a, "running")') < slot[s].room
    <3>1. Cardinality(OfAccount(a, "running")) < slot[s].room
      BY <2>2, <2>5
    <3> QED BY <2>1, <3>1, QuietShrinks, RunningFinite
  <2>6. c.model = "local" => \A y \in With("running")' : an'[y].model # "local"
    BY <2>2, QuietShrinks
  <2> QED BY <2>1, <2>4, <2>5, <2>6
<1>5. WatchdogKnows'
  BY SlotForm, <1>1 DEF WatchdogKnows, Claimed
<1>6. WorkedOnOnce'
  <2> SUFFICES ASSUME NEW s \in Slots, slot'[s].pc \in {"working", "losing"},
                      slot'[s].post \notin overwritten'
               PROVE  /\ an'[slot'[s].post].status = "running"
                      /\ OthersAt(slot[s].post, s)' = {}
    BY SlotForm, <1>1 DEF WorkedOnOnce, OthersAt
  <2>1. /\ slot[s].pc \in {"working", "losing"} /\ slot'[s].post = slot[s].post
        /\ slot[s].post \notin overwritten /\ an'[slot'[s].post].status = "running"
    BY DEF Quiet
  <2>2. OthersAt(slot[s].post, s) = {}
    BY <2>1 DEF IInv, WorkedOnOnce
  <2>3. \A r \in Slots : slot'[r].pc \in {"chosen", "working", "losing"} =>
            slot[r].pc \in {"chosen", "working", "losing"} /\ slot'[r].post = slot[r].post
    BY SlotForm, <1>1
  <2> QED BY <2>1, <2>2, <2>3 DEF OthersAt
<1>7. OneLocal'
  BY QuietShrinks DEF IInv, OneLocal
<1>9. PostsAgree'
  BY DEF PostsAgree, Quiet, QuietRow
<1> QED BY <1>2, <1>3, <1>4, <1>5, <1>6, <1>7, <1>9, <1>10 DEF IInv, Quiet

\* The same when slots and lock are left alone and the rows of slots, too.
LEMMA RowsKeep ==
    ASSUME IInv, Quiet, UNCHANGED <<slot, lock>>, RestTyped', SaveHasRoom',
           \A s \in Slots : slot[s].pc \in {"working", "losing"} =>
                slot[s].post \in overwritten \/ an'[slot[s].post].status = "running"
    PROVE  IInv'
<1>1. SlotsTyped'
  BY Parts DEF SlotsTyped
<1>2. \A s \in Slots : slot[s].pc = "chosen" => lock.by = "slot"
  BY DEF IInv, ChosenUnderLock
<1>3. lock.by = "watchdog" => Claimed \subseteq lock.active
  BY DEF IInv, WatchdogKnows
<1>4. overwritten \subseteq overwritten'
  BY DEF Quiet
<1> QED BY <1>1, <1>2, <1>3, <1>4, QuietKeeps

LEMMA RestKeeps ==
    ASSUME IInv, UNCHANGED <<an, shown, slot, lock, overwritten>>, RestTyped', SaveHasRoom'
    PROVE  IInv'
<1>1. \A s \in Slots : slot[s].pc \in {"working", "losing"} =>
                slot[s].post \in overwritten \/ an'[slot[s].post].status = "running"
  BY DEF IInv, WorkedOnOnce
<1> QED BY <1>1, RowsUnchanged, RowsKeep

LEMMA Init_IInv == Init => IInv
<1> SUFFICES ASSUME Init PROVE IInv
  OBVIOUS
<1> USE DEF Init
<1>1. With("running") = {} /\ \A a \in Accounts : OfAccount(a, "running") = {}
  BY DEF With, OfAccount, Absent
<1>2. TypeOK /\ RowsTyped /\ SlotsTyped
  BY ModelsType, LimitType, BoundsType DEF TypeOK, RowsTyped, SlotsTyped, Statuses, States
<1>3. /\ SaveHasRoom /\ RowsThere /\ ChosenUnderLock /\ ChosenHasRoom /\ WatchdogKnows
      /\ WorkedOnOnce /\ PostsAgree
  BY DEF SaveHasRoom, RowsThere, ChosenUnderLock, ChosenHasRoom, WatchdogKnows,
         WorkedOnOnce, PostsAgree, Idle, Free, Absent
<1>4. OneLocal
  BY <1>1 DEF OneLocal
<1> QED BY <1>2, <1>3, <1>4 DEF IInv

\* Some of what is queued or paused is queued or paused.
LEMMA MarkedQuiet ==
    ASSUME IInv, NEW S, NEW st \in {"queued", "paused"},
           \A y \in S : an[y].status \in {"queued", "paused"}, Marked(S, st),
           UNCHANGED overwritten
    PROVE  Quiet /\ \A y \in Posts : an[y].status = "running" => an'[y].status = "running"
<1>1. RowsTyped
  BY Parts
<1>2. ASSUME NEW y \in Posts
      PROVE  /\ QuietRow(y) /\ shown'[y] \in Statuses
             /\ an[y].status = "running" => an'[y].status = "running"
  <2>1. CASE y \in S
    <3>1. an'[y] = [an[y] EXCEPT !.status = st] /\ shown'[y] = st
      BY <2>1 DEF Marked
    <3>2. an[y] \in Analyses /\ an[y].status \in {"queued", "paused"}
      BY <1>1, <2>1, RowForm DEF RowsTyped
    <3>3. st \in Statuses \ {"none"}
      BY DEF Statuses
    <3>4. /\ an'[y] \in Analyses /\ an'[y].status = st
          /\ an'[y].acct = an[y].acct /\ an'[y].model = an[y].model
      BY <3>1, <3>2, <3>3, Restatus
    <3> QED BY <3>1, <3>2, <3>3, <3>4 DEF QuietRow, Final, Absent
  <2>2. CASE y \notin S
    <3>1. an'[y] = an[y] /\ shown'[y] = an[y].status
      BY <2>2 DEF Marked, IInv, PostsAgree
    <3> QED BY <3>1, <1>1, RowForm DEF QuietRow, RowsTyped
  <2> QED BY <2>1, <2>2
<1>3. an' = [y \in Posts |-> an'[y]] /\ shown' = [y \in Posts |-> shown'[y]]
  BY DEF Marked
<1> QED BY <1>2, <1>3 DEF Quiet, RowsTyped, QuietRow

\* Some of what runs is taken back.
LEMMA OrphanedQuiet ==
    ASSUME IInv, NEW S, S \subseteq With("running"), Orphaned(S), UNCHANGED overwritten
    PROVE  Quiet /\ \A y \in Posts \ S : an'[y] = an[y]
<1>1. RowsTyped
  BY Parts
<1>2. ASSUME NEW y \in Posts
      PROVE  /\ QuietRow(y) /\ shown'[y] \in Statuses
             /\ y \notin S => an'[y] = an[y]
  <2>1. CASE y \in S
    <3> DEFINE st == IF an[y].orphaned THEN "failed" ELSE "queued"
    <3>1. an'[y] = [an[y] EXCEPT !.status = st, !.orphaned = TRUE] /\ shown'[y] = st
      BY <2>1 DEF Orphaned
    <3>2. an[y] \in Analyses /\ an[y].status = "running"
      BY <1>1, <2>1, RowForm DEF RowsTyped, With
    <3>3. st \in {"failed", "queued"} /\ st \in Statuses \ {"none"}
      BY DEF Statuses, Final
    <3> HIDE DEF st
    <3>4. /\ an'[y] \in Analyses /\ an'[y].status = st
          /\ an'[y].acct = an[y].acct /\ an'[y].model = an[y].model
      BY <3>1, <3>2, <3>3 DEF Analyses
    <3>5. an'[y] # Absent /\ shown'[y] = an'[y].status /\ an'[y].status # "running"
      <4>1. shown'[y] = st
        BY <3>1
      <4> QED BY <3>3, <3>4, <4>1 DEF Absent
    <3>6. QuietRow(y)
      BY <3>2, <3>4, <3>5 DEF QuietRow, Final
    <3> QED BY <2>1, <3>3, <3>4, <3>5, <3>6
  <2>2. CASE y \notin S
    <3>1. an'[y] = an[y] /\ shown'[y] = an[y].status
      BY <2>2 DEF Orphaned, IInv, PostsAgree
    <3> QED BY <3>1, <1>1, RowForm DEF QuietRow, RowsTyped
  <2> QED BY <2>1, <2>2
<1>3. an' = [y \in Posts |-> an'[y]] /\ shown' = [y \in Posts |-> shown'[y]]
  BY DEF Orphaned
<1> QED BY <1>2, <1>3 DEF Quiet, RowsTyped, QuietRow

\* One row gets another status, as the post does.
LEMMA OneRow ==
    ASSUME IInv, NEW x \in Posts, an[x] # Absent, NEW st \in Statuses \ {"none"},
           an' = [an EXCEPT ![x].status = st], shown' = [shown EXCEPT ![x] = st]
    PROVE  /\ RowsTyped' /\ shown' \in [Posts -> Statuses] /\ PostsAgree'
           /\ an'[x] \in Analyses
           /\ an'[x].status = st /\ an'[x].acct = an[x].acct /\ an'[x].model = an[x].model
           /\ \A y \in Posts : y # x => an'[y] = an[y] /\ shown'[y] = shown[y]
<1>1. RowsTyped /\ shown \in [Posts -> Statuses] /\ PostsAgree
  BY DEF IInv, TypeOK
<1>2. an[x] \in Analyses
  BY <1>1 DEF RowsTyped
<1>3. an'[x] = [an[x] EXCEPT !.status = st]
  BY <1>1 DEF RowsTyped
<1>4. /\ an'[x] \in Analyses
      /\ an'[x].status = st /\ an'[x].acct = an[x].acct /\ an'[x].model = an[x].model
  BY <1>2, <1>3, Restatus
<1>5. \A y \in Posts : y # x => an'[y] = an[y] /\ shown'[y] = shown[y]
  BY <1>1 DEF RowsTyped
<1>6. RowsTyped'
  BY <1>1, <1>4 DEF RowsTyped
<1>7. shown' \in [Posts -> Statuses]
  BY <1>1
<1>8. PostsAgree'
  BY <1>1, <1>4, <1>5 DEF PostsAgree
<1> QED BY <1>4, <1>5, <1>6, <1>7, <1>8

\* What a slot has in hand is a row of an account there is, and the row of whoever
\* works runs unless it was overwritten.
LEMMA WorkersRow ==
    ASSUME IInv, NEW s \in Slots, slot[s].pc # "idle"
    PROVE  /\ slot[s].post \in Posts
           /\ an[slot[s].post] \in Analyses /\ an[slot[s].post] # Absent
           /\ an[slot[s].post].acct \in Accounts
           /\ slot[s].pc \in {"working", "losing"} =>
                \/ slot[s].post \in overwritten
                \/ an[slot[s].post].status = "running" /\ OthersAt(slot[s].post, s) = {}
<1>1. slot[s].post \in Posts
  BY Parts, SlotForm
<1>2. /\ an[slot[s].post] # Absent
      /\ slot[s].pc \in {"working", "losing"} =>
            \/ slot[s].post \in overwritten
            \/ an[slot[s].post].status = "running" /\ OthersAt(slot[s].post, s) = {}
  BY DEF IInv, WorkedOnOnce, RowsThere
<1> QED BY <1>1, <1>2, Parts, RowForm DEF RowsTyped

-----------------------------------------------------------------------------
(* The actions.                                                            *)

LEMMA EnqueueKeeps ==
    ASSUME IInv, NEW x \in Posts, Enqueue(x)
    PROVE  IInv'
<1>1. PICK a \in Accounts, st \in {"queued", "completed", "paused"} :
        /\ an' = [an EXCEPT ![x] = [status |-> st, acct |-> a, model |-> model[a],
                                    orphaned |-> FALSE]]
        /\ shown' = [shown EXCEPT ![x] = st]
  BY GivenType DEF Enqueue
<1> DEFINE d == [status |-> st, acct |-> a, model |-> model[a], orphaned |-> FALSE]
<1>2. /\ an[x] = Absent
      /\ UNCHANGED <<accounts, slot, lock, cooling, save, test, trouble, overwritten>>
  BY DEF Enqueue
<1>3. RowsTyped /\ SlotsTyped /\ RestTyped /\ shown \in [Posts -> Statuses] /\ PostsAgree
  BY Parts DEF IInv, TypeOK
<1>4. /\ d \in Analyses /\ d.status = st /\ st \in Statuses /\ an[x].status = "none"
      /\ st # "running"
  BY <1>2, <1>3 DEF Analyses, Statuses, Final, RestTyped, Absent
<1> HIDE DEF d
<1>5. /\ an'[x] = d /\ shown'[x] = st
      /\ \A y \in Posts : y # x => an'[y] = an[y] /\ shown'[y] = shown[y]
  BY <1>1, <1>3 DEF d, RowsTyped
<1>6. RowsTyped' /\ shown' \in [Posts -> Statuses]
  BY <1>1, <1>3, <1>4 DEF RowsTyped, d
<1>7. ASSUME NEW y \in Posts PROVE QuietRow(y)
  <2>1. CASE y = x
    BY <1>2, <1>4, <1>5, <2>1 DEF QuietRow, Final
  <2>2. CASE y # x
    BY <1>3, <1>5, <2>2 DEF QuietRow, RowsTyped, PostsAgree
  <2> QED BY <2>1, <2>2
<1>8. Quiet
  BY <1>2, <1>6, <1>7 DEF Quiet
<1>9. ASSUME NEW s \in Slots, slot[s].pc \in {"working", "losing"}
      PROVE  slot[s].post \in overwritten \/ an'[slot[s].post].status = "running"
  <2>1. /\ slot[s].post \in Posts /\ an[slot[s].post] # Absent
        /\ slot[s].post \in overwritten \/ an[slot[s].post].status = "running"
    BY <1>9, WorkersRow
  <2>2. slot[s].post # x
    BY <1>2, <2>1
  <2> QED BY <1>5, <2>1, <2>2
<1>10. RestTyped' /\ SaveHasRoom'
  BY <1>2, <1>3 DEF RestTyped, accounts, IInv, SaveHasRoom
<1> QED BY <1>2, <1>8, <1>9, <1>10, RowsKeep

LEMMA ClaimReadKeeps ==
    ASSUME IInv, NEW s \in Slots, ClaimRead(s)
    PROVE  IInv'
<1> DEFINE x == First(Claimable)
           c == an[x]
<1>1. /\ slot[s] = Idle /\ lock = Free /\ lock' = [by |-> "slot"]
      /\ slot' = [slot EXCEPT ![s] = [pc |-> "chosen", post |-> x, rev |-> revision[c.acct],
                                       room |-> Room(c.acct)]]
      /\ UNCHANGED <<state, revision, model, limit, an, shown, cooling, save, test,
                     trouble, overwritten>>
  BY DEF ClaimRead, accounts
<1>2. Claimable # {} /\ Claimable \subseteq Posts
  BY DEF ClaimRead, Claimable, With
<1>3. x \in Claimable
  BY <1>2, FirstIsOne
<1>4. /\ x \in Posts /\ c.status = "queued"
      /\ Cardinality(OfAccount(c.acct, "running")) < Room(c.acct)
      /\ c.model = "local" => \A y \in With("running") : an[y].model # "local"
  BY <1>3 DEF Claimable, Eligible, With
<1>5. SlotsTyped /\ RowsTyped /\ RestTyped
  BY Parts
<1>6. c \in Analyses /\ c.acct \in Accounts
  BY <1>4, <1>5, RowForm DEF RowsTyped
<1>9. Room(c.acct) \in Nat \ {0}
  BY <1>5, <1>6 DEF Room, RestTyped
<1> HIDE DEF x
<1>7. /\ slot'[s].pc = "chosen" /\ slot'[s].post = x /\ slot'[s].room = Room(c.acct)
      /\ \A r \in Slots : r # s => slot'[r] = slot[r]
  BY <1>1, <1>5 DEF SlotsTyped
<1>8. SlotsTyped'
  BY <1>1, <1>4, <1>5, <1>6, <1>9 DEF SlotsTyped, Chosen, RestTyped
<1>10. TypeOK' /\ RowsTyped' /\ SaveHasRoom'
  BY <1>1, <1>5, <1>8 DEF TypeOK, IInv, RestTyped, RowsTyped, SlotsTyped, SaveHasRoom
<1>11. \A r \in Slots : slot[r].pc # "chosen"
  BY <1>1 DEF IInv, ChosenUnderLock, Free
<1>12. ChosenUnderLock'
  BY <1>1, <1>7, <1>11 DEF ChosenUnderLock
<1>13. ChosenHasRoom'
  <2>1. ASSUME NEW r \in Slots, slot'[r].pc = "chosen" PROVE r = s
    BY <1>7, <1>11, <2>1
  <2>2. \A a \in Accounts : OfAccount(a, "running")' = OfAccount(a, "running")
    BY <1>1 DEF OfAccount, With
  <2>3. With("running")' = With("running")
    BY <1>1 DEF With
  <2> QED BY <1>1, <1>4, <1>7, <2>1, <2>2, <2>3 DEF ChosenHasRoom
<1>14. WatchdogKnows'
  BY <1>1 DEF WatchdogKnows
<1>15. WorkedOnOnce'
  <2> SUFFICES ASSUME NEW r \in Slots, slot'[r].pc \in {"working", "losing"},
                      slot'[r].post \notin overwritten
               PROVE  an[slot'[r].post].status = "running" /\ OthersAt(slot[r].post, r)' = {}
    BY <1>1 DEF WorkedOnOnce
  <2>1. r # s /\ slot'[r] = slot[r]
    BY <1>7
  <2>2. an[slot[r].post].status = "running" /\ OthersAt(slot[r].post, r) = {}
    BY <2>1, WorkersRow
  <2>3. slot[r].post # x
    BY <1>4, <2>2
  <2> QED BY <1>7, <2>1, <2>2, <2>3 DEF OthersAt
<1>16. OneLocal' /\ PostsAgree'
  BY <1>1 DEF IInv, OneLocal, PostsAgree, With
<1>17. RowsThere'
  BY <1>1, <1>6, <1>7, <1>4, <1>5, RowForm DEF IInv, RowsThere, Absent
<1> QED BY <1>17, <1>8, <1>10, <1>12, <1>13, <1>14, <1>15, <1>16 DEF IInv

LEMMA ClaimCommitKeeps ==
    ASSUME IInv, NEW s \in Slots, ClaimCommit(s)
    PROVE  IInv'
<1> DEFINE x == slot[s].post
           c == an[x]
<1>1. /\ slot[s].pc = "chosen" /\ lock' = Free
      /\ an' = [an EXCEPT ![x].status = "running"]
      /\ shown' = [shown EXCEPT ![x] = "running"]
      /\ slot' = [slot EXCEPT ![s] = [pc |-> "working", post |-> x, rev |-> slot[s].rev]]
      /\ UNCHANGED <<state, revision, model, limit, cooling, save, test, trouble, overwritten>>
  BY DEF ClaimCommit, accounts
<1>2. SlotsTyped /\ RowsTyped /\ RestTyped
  BY Parts
<1>3. x \in Posts /\ slot[s].rev \in 0 .. MaxSaves
  BY <1>1, <1>2, SlotForm
<1>4. /\ c.status # "running" /\ (x \in overwritten \/ c.status \in {"queued", "paused"})
      /\ c.model = "local" => \A y \in With("running") : an[y].model # "local"
  BY <1>1 DEF IInv, ChosenHasRoom
<1>5. c \in Analyses /\ c.acct \in Accounts /\ c # Absent
  BY <1>1, WorkersRow
<1>6. \A r \in Slots : r # s => slot[r].pc # "chosen"
  BY <1>1 DEF IInv, ChosenUnderLock
<1> HIDE DEF x, c
<1>7. /\ slot'[s].pc = "working" /\ slot'[s].post = x
      /\ \A r \in Slots : r # s => slot'[r] = slot[r]
  BY <1>1, <1>2 DEF SlotsTyped
<1>8. SlotsTyped'
  BY <1>1, <1>2, <1>3 DEF SlotsTyped, Working
<1>9. /\ RowsTyped' /\ shown' \in [Posts -> Statuses] /\ PostsAgree'
      /\ an'[x].status = "running" /\ an'[x].acct = c.acct /\ an'[x].model = c.model
      /\ \A y \in Posts : y # x => an'[y] = an[y]
  <2>1. "running" \in Statuses \ {"none"}
    BY DEF Statuses
  <2> QED BY <1>1, <1>3, <1>5, <2>1, OneRow DEF c
<1>10. TypeOK' /\ SaveHasRoom'
  BY <1>1, <1>2, <1>8, <1>9 DEF TypeOK, IInv, RestTyped, RowsTyped, SlotsTyped, SaveHasRoom
<1>11. ChosenUnderLock' /\ ChosenHasRoom' /\ WatchdogKnows'
  BY <1>1, <1>6, <1>7 DEF ChosenUnderLock, ChosenHasRoom, WatchdogKnows, Free
<1>12. WorkedOnOnce'
  <2> SUFFICES ASSUME NEW r \in Slots, slot'[r].pc \in {"working", "losing"},
                      slot'[r].post \notin overwritten
               PROVE  an'[slot'[r].post].status = "running" /\ OthersAt(slot[r].post, r)' = {}
    BY <1>1 DEF WorkedOnOnce
  <2>1. ASSUME NEW q \in Slots, q # s, slot[q].pc \in {"chosen", "working", "losing"},
               slot[q].post \notin overwritten
        PROVE  slot[q].post # x
    <3>1. slot[q].pc \in {"working", "losing"}
      BY <1>6, <2>1
    <3>2. an[slot[q].post].status = "running"
      BY <2>1, <3>1, WorkersRow
    <3> QED BY <1>4, <3>2 DEF c
  <2>2. CASE r = s
    BY <1>7, <1>9, <2>1, <2>2 DEF OthersAt
  <2>3. CASE r # s
    <3>1. slot'[r] = slot[r] /\ slot[r].post # x
      BY <1>7, <2>1, <2>3
    <3>2. /\ slot[r].post \in Posts /\ an[slot[r].post].status = "running"
          /\ OthersAt(slot[r].post, r) = {}
      BY <3>1, WorkersRow
    <3> QED BY <1>7, <1>9, <3>1, <3>2 DEF OthersAt
  <2> QED BY <2>2, <2>3
<1>13. With("running")' = With("running") \cup {x}
  BY <1>3, <1>9 DEF With
<1>14. OneLocal'
  <2> SUFFICES ASSUME NEW y \in With("running")', NEW z \in With("running")',
                      an'[y].model = "local", an'[z].model = "local"
               PROVE  y = z
    BY DEF OneLocal
  <2>1. \A v \in With("running") : v \in Posts
    BY DEF With
  <2>2. x \notin With("running")
    BY <1>4 DEF With, c
  <2> QED BY <1>4, <1>9, <1>13, <2>1, <2>2 DEF IInv, OneLocal
<1>15. RowsThere'
  BY <1>2, <1>3, <1>7, <1>9, <1>5, SlotForm DEF IInv, RowsThere, RowsTyped, Absent
<1> QED BY <1>8, <1>9, <1>10, <1>11, <1>12, <1>14, <1>15 DEF IInv

\* A slot gives up its post, the others go on.  One that fails has overwritten what
\* another one has in hand.
LEMMA GivesUp ==
    ASSUME IInv, NEW s \in Slots, slot[s].pc \in {"working", "losing", "failing"},
           \/ slot[s].pc # "failing" \/ slot[s].post \in overwritten'
           \/ OthersAt(slot[s].post, s) = {} \/ an'[slot[s].post] = an[slot[s].post],
           slot' = [slot EXCEPT ![s] = Idle], lock' = lock,
           Quiet, RestTyped', SaveHasRoom',
           \A y \in Posts : y # slot[s].post /\ an[y].status = "running" =>
                an'[y].status = "running"
    PROVE  IInv'
<1>1. SlotsTyped
  BY Parts
<1>2. slot'[s] = Idle /\ \A r \in Slots : r # s => slot'[r] = slot[r]
  BY <1>1 DEF SlotsTyped
<1>3. SlotsTyped'
  BY <1>1 DEF SlotsTyped
<1>4. ASSUME NEW r \in Slots, slot'[r].pc # "idle"
      PROVE  /\ slot[r].pc # "idle" /\ slot'[r].post = slot[r].post
             /\ slot'[r].pc = "chosen" =>
                  slot[r].pc = "chosen" /\ slot'[r].room = slot[r].room /\ lock'.by = "slot"
             /\ slot'[r].pc \in {"working", "losing"} =>
                  /\ slot[r].pc \in {"working", "losing"}
                  /\ slot[r].post \in overwritten' \/ an'[slot[r].post].status = "running"
             /\ slot'[r].pc = "failing" => slot[r].pc = "failing"
  <2>1. r # s /\ slot'[r] = slot[r]
    BY <1>2, <1>4 DEF Idle
  <2>2. ASSUME slot[r].pc \in {"working", "losing"}, slot[r].post \notin overwritten'
        PROVE  an'[slot[r].post].status = "running"
    <3>1. slot[r].post \notin overwritten
      BY <2>2 DEF Quiet
    <3>2. slot[r].post \in Posts /\ an[slot[r].post].status = "running"
      BY <2>2, <3>1, WorkersRow
    <3>3. CASE slot[r].post = slot[s].post
      <4>1. r \in OthersAt(slot[s].post, s)
        BY <2>1, <2>2, <3>3 DEF OthersAt
      <4>2. slot[s].pc \in {"working", "losing"} => OthersAt(slot[s].post, s) = {}
        BY <3>1, <3>3, WorkersRow
      <4> QED BY <2>2, <3>2, <3>3, <4>1, <4>2
    <3> QED BY <3>2, <3>3
  <2> QED BY <1>4, <2>1, <2>2 DEF IInv, ChosenUnderLock
<1>5. lock'.by = "watchdog" => Claimed \subseteq lock'.active
  BY DEF IInv, WatchdogKnows
<1> QED BY <1>3, <1>4, <1>5, QuietKeeps

LEMMA JudgedKeeps ==
    ASSUME IInv, NEW s \in Slots, Judged(s)
    PROVE  IInv'
<1> DEFINE x == slot[s].post
<1>1. PICK st \in Final :
        /\ an' = [an EXCEPT ![x].status = st] /\ shown' = [shown EXCEPT ![x] = st]
  BY DEF Judged
<1>2. /\ slot[s].pc = "working" /\ slot' = [slot EXCEPT ![s] = Idle]
      /\ UNCHANGED <<state, revision, model, limit, lock, cooling, save, test,
                     trouble, overwritten>>
  BY DEF Judged, accounts
<1>3. x \in Posts /\ an[x] # Absent /\ (x \in overwritten \/ an[x].status = "running")
  BY <1>2, WorkersRow
<1> HIDE DEF x
<1>4. st \in Statuses \ {"none"} /\ st # "running"
  BY DEF Statuses, Final
<1>5. /\ RowsTyped' /\ shown' \in [Posts -> Statuses] /\ PostsAgree'
      /\ an'[x] \in Analyses
      /\ an'[x].status = st /\ an'[x].acct = an[x].acct /\ an'[x].model = an[x].model
      /\ \A y \in Posts : y # x => an'[y] = an[y]
  BY <1>1, <1>3, <1>4, OneRow
<1>6. Quiet
  <2>1. ASSUME NEW y \in Posts PROVE QuietRow(y)
    <3>1. CASE y = x
      BY <1>2, <1>3, <1>4, <1>5, <3>1, RowForm DEF QuietRow, PostsAgree, Final, Absent
    <3>2. CASE y # x
      <4>1. an'[y] = an[y] /\ shown'[y] = an'[y].status
        BY <1>5, <3>2 DEF PostsAgree
      <4> QED BY <4>1, Parts DEF QuietRow, RowsTyped
    <3> QED BY <3>1, <3>2
  <2> QED BY <1>2, <1>5, <2>1 DEF Quiet
<1>7. RestTyped' /\ SaveHasRoom'
  BY <1>2, Parts DEF RestTyped, IInv, SaveHasRoom
<1> QED BY <1>2, <1>5, <1>6, <1>7, GivesUp DEF x

\* What a failure records.
LEMMA FailureWrites ==
    ASSUME IInv, NEW s \in Slots, RecordFailure(s)
    PROVE  /\ Quiet
           /\ \A y \in Posts : y # slot[s].post => an'[y] = an[y]
           /\ slot[s].post \in overwritten' \/ OthersAt(slot[s].post, s) = {}
<1> DEFINE x == slot[s].post
<1>1. /\ slot[s].pc = "failing" /\ slot' = [slot EXCEPT ![s] = Idle]
      /\ an' = [an EXCEPT ![x].status = "failed"] /\ shown' = [shown EXCEPT ![x] = "failed"]
      /\ overwritten' = IF an[x].status \in Final \/ OthersAt(x, s) # {}
                        THEN overwritten \cup {x} ELSE overwritten
  BY DEF RecordFailure
<1>2. x \in Posts /\ an[x] # Absent
  BY <1>1, WorkersRow
<1>3. "failed" \in Statuses \ {"none"}
  BY DEF Statuses, Final
<1>4. slot'[s] = Idle /\ \A r \in Slots : r # s => slot'[r] = slot[r]
  BY <1>1, Parts DEF SlotsTyped
<1>5. OthersAt(x, s) # {} \/ \A r \in Slots : ~(slot'[r].pc = "chosen" /\ slot'[r].post = x)
  BY <1>4 DEF OthersAt, Idle
<1> HIDE DEF x
<1>6. /\ RowsTyped' /\ shown' \in [Posts -> Statuses] /\ PostsAgree'
      /\ an'[x] \in Analyses
      /\ an'[x].status = "failed" /\ an'[x].acct = an[x].acct /\ an'[x].model = an[x].model
      /\ \A y \in Posts : y # x => an'[y] = an[y]
  BY <1>1, <1>2, <1>3, OneRow
<1>7. ASSUME NEW y \in Posts PROVE QuietRow(y)
  <2>1. CASE y = x
    BY <1>1, <1>2, <1>5, <1>6, <2>1, RowForm DEF QuietRow, PostsAgree, Absent
  <2>2. CASE y # x
    <3>1. an'[y] = an[y] /\ shown'[y] = an'[y].status
      BY <1>6, <2>2 DEF PostsAgree
    <3> QED BY <3>1, Parts DEF QuietRow, RowsTyped
  <2> QED BY <2>1, <2>2
<1>8. overwritten \subseteq overwritten'
  BY <1>1
<1> QED BY <1>1, <1>6, <1>7, <1>8 DEF Quiet, x

LEMMA RecordFailureKeeps ==
    ASSUME IInv, NEW s \in Slots, RecordFailure(s)
    PROVE  IInv'
<1>1. /\ slot[s].pc = "failing" /\ slot' = [slot EXCEPT ![s] = Idle]
      /\ UNCHANGED <<state, revision, model, limit, lock, cooling, save, test, trouble>>
  BY DEF RecordFailure, accounts
<1>2. overwritten' \subseteq Posts
  BY <1>1, WorkersRow, Parts DEF RecordFailure, RestTyped
<1>3. RestTyped' /\ SaveHasRoom'
  BY <1>1, <1>2, Parts DEF RestTyped, IInv, SaveHasRoom
<1> QED BY <1>1, <1>3, FailureWrites, GivesUp

LEMMA CommitFailsKeeps ==
    ASSUME IInv, NEW s \in Slots, CommitFails(s)
    PROVE  IInv'
<1> DEFINE d == [pc |-> "failing", post |-> slot[s].post]
<1>1. /\ slot[s].pc \in {"chosen", "losing"} /\ slot' = [slot EXCEPT ![s] = d]
      /\ lock' = IF slot[s].pc = "chosen" THEN Free ELSE lock
      /\ trouble < MaxTrouble /\ trouble' = trouble + 1
      /\ UNCHANGED <<state, revision, model, limit, an, shown, cooling, save, test,
                     overwritten>>
  BY DEF CommitFails, accounts
<1>2. SlotsTyped /\ RestTyped
  BY Parts
<1>3. d \in Failing /\ d.pc = "failing" /\ d.post = slot[s].post
  BY <1>1, WorkersRow DEF Failing
<1> HIDE DEF d
<1>4. slot'[s] = d /\ \A r \in Slots : r # s => slot'[r] = slot[r]
  BY <1>1, <1>2 DEF SlotsTyped
<1>5. SlotsTyped'
  BY <1>1, <1>2, <1>3 DEF SlotsTyped
<1>6. RestTyped' /\ SaveHasRoom'
  BY <1>1, <1>2, BoundsType DEF RestTyped, IInv, SaveHasRoom
<1>7. Quiet
  BY <1>1, RowsUnchanged
<1>8. ASSUME NEW r \in Slots, slot'[r].pc # "idle"
      PROVE  /\ slot[r].pc # "idle" /\ slot'[r].post = slot[r].post
             /\ slot'[r].pc = "chosen" =>
                  slot[r].pc = "chosen" /\ slot'[r].room = slot[r].room /\ lock'.by = "slot"
             /\ slot'[r].pc \in {"working", "losing"} =>
                  /\ slot[r].pc \in {"working", "losing"}
                  /\ slot[r].post \in overwritten' \/ an'[slot[r].post].status = "running"
             /\ slot'[r].pc = "failing" /\ lock'.by = "watchdog" =>
                  slot[r].pc \in {"working", "losing", "failing"}
  <2>1. CASE r = s
    BY <1>1, <1>3, <1>4, <2>1 DEF Free
  <2>2. CASE r # s
    <3>1. slot'[r] = slot[r]
      BY <1>4, <2>2
    <3>2. slot[r].pc = "chosen" => lock.by = "slot" /\ slot[s].pc # "chosen"
      BY <2>2 DEF IInv, ChosenUnderLock
    <3>3. slot[r].pc \in {"working", "losing"} =>
            slot[r].post \in overwritten \/ an[slot[r].post].status = "running"
      BY WorkersRow
    <3> QED BY <1>1, <1>8, <3>1, <3>2, <3>3
  <2> QED BY <2>1, <2>2
<1>9. lock'.by = "watchdog" => Claimed \subseteq lock'.active
  BY <1>1 DEF IInv, WatchdogKnows, Free
<1> QED BY <1>1, <1>5, <1>6, <1>7, <1>8, <1>9, QuietKeeps

LEMMA RateLimitedKeeps ==
    ASSUME IInv, NEW s \in Slots, RateLimited(s)
    PROVE  IInv'
<1>1. RestTyped' /\ SaveHasRoom'
  BY WorkersRow, Parts DEF RateLimited, accounts, RestTyped, IInv, SaveHasRoom
<1> QED BY <1>1, RestKeeps DEF RateLimited

LEMMA CooledDownKeeps ==
    ASSUME IInv, NEW a \in Accounts, CooledDown(a)
    PROVE  IInv'
<1>1. RestTyped' /\ SaveHasRoom'
  BY Parts DEF CooledDown, accounts, RestTyped, IInv, SaveHasRoom
<1> QED BY <1>1, RestKeeps DEF CooledDown

LEMMA ConfigErrorKeeps ==
    ASSUME IInv, NEW s \in Slots, ConfigError(s)
    PROVE  IInv'
<1> DEFINE x == slot[s].post
           a == an[x].acct
           d == [pc |-> "losing", post |-> x, seen |-> state[a], same |-> revision[a] = slot[s].rev]
<1>1. /\ slot[s].pc = "working" /\ slot' = [slot EXCEPT ![s] = d]
      /\ UNCHANGED <<state, revision, model, limit, an, shown, lock, cooling, save, test,
                     trouble, overwritten>>
  BY DEF ConfigError, accounts
<1>2. /\ x \in Posts /\ a \in Accounts
      /\ x \in overwritten \/ an[x].status = "running"
  BY <1>1, WorkersRow
<1>3. SlotsTyped /\ RestTyped
  BY Parts
<1>4. d \in Losing /\ d.pc = "losing" /\ d.post = x
  BY <1>2, <1>3 DEF Losing, RestTyped
<1> HIDE DEF d
<1>5. /\ slot'[s].pc = "losing" /\ slot'[s].post = x
      /\ \A r \in Slots : r # s => slot'[r] = slot[r]
  BY <1>1, <1>3, <1>4 DEF SlotsTyped
<1>6. SlotsTyped'
  BY <1>1, <1>3, <1>4 DEF SlotsTyped
<1>7. RestTyped' /\ SaveHasRoom'
  BY <1>1, <1>3 DEF RestTyped, IInv, SaveHasRoom
<1>8. ASSUME NEW r \in Slots, slot'[r].pc # "idle"
      PROVE  /\ slot[r].pc # "idle" /\ slot'[r].post = slot[r].post
             /\ slot'[r].pc = "chosen" =>
                  slot[r].pc = "chosen" /\ slot'[r].room = slot[r].room /\ lock'.by = "slot"
             /\ slot'[r].pc \in {"working", "losing"} =>
                  /\ slot[r].pc \in {"working", "losing"}
                  /\ slot[r].post \in overwritten' \/ an'[slot[r].post].status = "running"
             /\ slot'[r].pc = "failing" => slot[r].pc = "failing"
  <2>1. CASE r = s
    BY <1>1, <1>2, <1>5, <2>1
  <2>2. CASE r # s
    <3>1. slot'[r] = slot[r]
      BY <1>5, <2>2
    <3>2. slot[r].pc \in {"working", "losing"} =>
            slot[r].post \in overwritten \/ an[slot[r].post].status = "running"
      BY WorkersRow
    <3> QED BY <1>1, <1>8, <3>1, <3>2 DEF IInv, ChosenUnderLock
  <2> QED BY <2>1, <2>2
<1>9. lock'.by = "watchdog" => Claimed \subseteq lock'.active
  BY <1>1 DEF IInv, WatchdogKnows
<1>10. Quiet
  BY <1>1, RowsUnchanged
<1> QED BY <1>6, <1>7, <1>8, <1>9, <1>10, QuietKeeps

\* What the end of a request for a reason of the account writes.
LEMMA ConfigErrorWrites ==
    ASSUME IInv, NEW s \in Slots, ConfigErrorCommit(s)
    PROVE  /\ Quiet
           /\ \A y \in Posts : y # slot[s].post /\ an[y].status = "running" =>
                an'[y].status = "running"
<1> DEFINE x == slot[s].post
           a == an[x].acct
           paused == {x} \cup IF slot[s].same THEN OfAccount(a, "queued") ELSE {}
<1>1. PICK kept \in BOOLEAN :
        /\ an' = [y \in Posts |->
                        IF y \in paused
                        THEN [an[y] EXCEPT !.status = "paused", !.orphaned = (y = x => kept) /\ @]
                        ELSE an[y]]
        /\ shown' = [y \in Posts |-> IF y \in paused THEN "paused" ELSE shown[y]]
  BY DEF ConfigErrorCommit
<1>2. slot[s].pc = "losing"
  BY DEF ConfigErrorCommit
<1>3. /\ x \in Posts /\ an[x] # Absent
      /\ x \in overwritten \/ an[x].status = "running"
  BY <1>2, WorkersRow
<1>4. \A y \in paused : y # x => an[y].status = "queued"
  BY DEF OfAccount, With
<1>8. UNCHANGED overwritten
  BY DEF ConfigErrorCommit
<1> HIDE DEF paused, x
<1>5. RowsTyped
  BY Parts
<1>6. ASSUME NEW y \in Posts
      PROVE  /\ QuietRow(y) /\ shown'[y] \in Statuses
             /\ y # x /\ an[y].status = "running" => an'[y].status = "running"
  <2>1. CASE y \in paused
    <3>1. an[y] \in Analyses /\ an[y].orphaned \in BOOLEAN
      <4>1. an[y] # Absent
        BY <1>3, <1>4, <2>1 DEF Absent
      <4> QED BY <1>5, <4>1, RowForm DEF RowsTyped
    <3> DEFINE o == (y = x => kept) /\ an[y].orphaned
    <3>2. /\ an'[y] = [an[y] EXCEPT !.status = "paused", !.orphaned = o]
          /\ shown'[y] = "paused"
      BY <1>1, <2>1
    <3>3. o \in BOOLEAN /\ "paused" \in Statuses \ {"none"}
      BY DEF Statuses
    <3> HIDE DEF o
    <3>4. /\ an'[y] \in Analyses /\ an'[y].status = "paused"
          /\ an'[y].acct = an[y].acct /\ an'[y].model = an[y].model
      BY <3>1, <3>2, <3>3 DEF Analyses
    <3>5. an[y].status \in Final => y \in overwritten'
      BY <1>3, <1>4, <1>8, <2>1 DEF Final
    <3>6. an[y].status # "running" \/ y = x
      BY <1>4, <2>1
    <3>7. an'[y] # Absent
      BY <3>4 DEF Absent
    <3>8. shown'[y] = an'[y].status /\ an'[y].status # "running"
      BY <3>2, <3>4
    <3>9. QuietRow(y)
      BY <3>4, <3>5, <3>7, <3>8 DEF QuietRow
    <3> QED BY <3>3, <3>4, <3>6, <3>8, <3>9
  <2>2. CASE y \notin paused
    <3>1. an'[y] = an[y] /\ shown'[y] = an[y].status
      BY <1>1, <2>2 DEF IInv, PostsAgree
    <3> QED BY <3>1, <1>5, RowForm DEF QuietRow, RowsTyped
  <2> QED BY <2>1, <2>2
<1>7. an' = [y \in Posts |-> an'[y]] /\ shown' = [y \in Posts |-> shown'[y]]
  BY <1>1
<1> QED BY <1>6, <1>7, <1>8 DEF Quiet, RowsTyped, QuietRow, x

LEMMA ConfigErrorCommitKeeps ==
    ASSUME IInv, NEW s \in Slots, ConfigErrorCommit(s)
    PROVE  IInv'
<1>1. /\ slot[s].pc = "losing" /\ slot' = [slot EXCEPT ![s] = Idle]
      /\ UNCHANGED <<revision, model, limit, lock, cooling, save, test, trouble, overwritten>>
  BY DEF ConfigErrorCommit
<1>2. state' \in [Accounts -> States]
  BY Parts DEF ConfigErrorCommit, RestTyped, States
<1>3. RestTyped' /\ SaveHasRoom'
  BY <1>1, <1>2, Parts DEF RestTyped, IInv, SaveHasRoom
<1> QED BY <1>1, <1>3, ConfigErrorWrites, GivesUp

LEMMA LoseThreadKeeps ==
    ASSUME IInv, NEW s \in Slots, LoseThread(s)
    PROVE  IInv'
<1>1. RestTyped' /\ SaveHasRoom'
  BY Parts, BoundsType DEF LoseThread, accounts, RestTyped, IInv, SaveHasRoom
<1>2. Quiet
  BY RowsUnchanged DEF LoseThread
<1>3. slot[s].pc \in {"working", "losing", "failing"} /\ an' = an
  BY DEF LoseThread
<1> QED BY <1>1, <1>2, <1>3, GivesUp DEF LoseThread

LEMMA WatchdogLookKeeps ==
    ASSUME IInv, WatchdogLook
    PROVE  IInv'
<1>1. /\ lock = Free /\ lock' = [by |-> "watchdog", active |-> Claimed]
      /\ UNCHANGED <<state, revision, model, limit, an, shown, slot, cooling, save, test,
                     trouble, overwritten>>
  BY DEF WatchdogLook, accounts
<1>2. SlotsTyped /\ RestTyped
  BY Parts
<1>3. Claimed \subseteq Posts /\ overwritten' = overwritten
  BY <1>1, <1>2, SlotForm DEF Claimed
<1>4. SlotsTyped' /\ RestTyped' /\ SaveHasRoom'
  BY <1>1, <1>2, <1>3 DEF SlotsTyped, RestTyped, IInv, SaveHasRoom
<1>5. \A r \in Slots : slot[r].pc # "chosen"
  BY <1>1 DEF IInv, ChosenUnderLock, Free
<1>6. Quiet
  BY <1>1, RowsUnchanged
<1>7. \A r \in Slots : slot[r].pc \in {"working", "losing"} =>
        slot[r].post \in overwritten \/ an[slot[r].post].status = "running"
  BY WorkersRow
<1> QED BY <1>1, <1>4, <1>5, <1>6, <1>7, QuietKeeps

LEMMA WatchdogRecoverKeeps ==
    ASSUME IInv, WatchdogRecover
    PROVE  IInv'
<1> DEFINE S == With("running") \ lock.active
<1>1. /\ lock.by = "watchdog" /\ lock' = Free /\ Orphaned(S)
      /\ UNCHANGED <<state, revision, model, limit, slot, cooling, save, test,
                     trouble, overwritten>>
  BY DEF WatchdogRecover, accounts
<1>2. SlotsTyped' /\ RestTyped' /\ SaveHasRoom'
  BY <1>1, Parts DEF SlotsTyped, RestTyped, IInv, SaveHasRoom
<1>3. Quiet /\ \A y \in Posts \ S : an'[y] = an[y]
  BY <1>1, OrphanedQuiet
<1>4. \A r \in Slots : slot[r].pc # "chosen"
  BY <1>1 DEF IInv, ChosenUnderLock
<1>5. ASSUME NEW r \in Slots, slot[r].pc \in {"working", "losing"}
      PROVE  slot[r].post \in overwritten \/ an'[slot[r].post].status = "running"
  <2>1. slot[r].post \in lock.active
    BY <1>1, <1>5 DEF IInv, WatchdogKnows, Claimed
  <2> QED BY <1>3, <1>5, <2>1, WorkersRow
<1>6. lock'.by # "watchdog"
  BY <1>1 DEF Free
<1> QED BY <1>1, <1>2, <1>3, <1>4, <1>5, <1>6, QuietKeeps

LEMMA RestartKeeps ==
    ASSUME IInv, Restart
    PROVE  IInv'
<1>1. /\ slot' = [s \in Slots |-> Idle] /\ lock' = Free /\ Orphaned(With("running"))
      /\ save' = Idle /\ test' = Idle /\ cooling' = {} /\ trouble' \in 0 .. MaxTrouble
      /\ UNCHANGED <<state, revision, model, limit, overwritten>>
  BY Parts, BoundsType DEF Restart, accounts, RestTyped
<1>2. SlotsTyped' /\ RestTyped' /\ SaveHasRoom'
  BY <1>1, Parts DEF SlotsTyped, RestTyped, SaveHasRoom, Idle
<1>3. Quiet
  BY <1>1, OrphanedQuiet
<1>4. \A r \in Slots : slot'[r].pc = "idle"
  BY <1>1 DEF Idle
<1>5. lock'.by # "watchdog"
  BY <1>1 DEF Free
<1> QED BY <1>2, <1>3, <1>4, <1>5, QuietKeeps

LEMMA SaveReadKeeps ==
    ASSUME IInv, NEW a \in Managed, SaveRead(a)
    PROVE  IInv'
<1>1. a \in Accounts
  BY ManagedType
<1>2. PICK m \in AllModels, n \in Limits, kept \in BOOLEAN :
        save' = [pc |-> "saving", acct |-> a, model |-> m, limit |-> n, kept |-> kept,
                 seen |-> state[a]]
  <2>1. PICK kept \in BOOLEAN, n \in Limits :
            \E m \in IF kept THEN {model[a]} ELSE Models :
                save' = [pc |-> "saving", acct |-> a, model |-> m, limit |-> n, kept |-> kept,
                         seen |-> state[a]]
    BY DEF SaveRead
  <2>2. model[a] \in AllModels /\ Models \subseteq AllModels
    BY <1>1, Parts, ModelsType DEF RestTyped
  <2> QED BY <2>1, <2>2
<1>3. RestTyped'
  BY <1>1, <1>2, Parts, BoundsType DEF SaveRead, accounts, RestTyped
<1>4. SaveHasRoom'
  BY <1>2 DEF SaveRead, accounts, SaveHasRoom
<1> QED BY <1>3, <1>4, RestKeeps DEF SaveRead

LEMMA SaveStoreKeeps ==
    ASSUME IInv, SaveStore
    PROVE  IInv'
<1> DEFINE S == IF save.kept THEN {} ELSE OfAccount(save.acct, "queued")
<1>1. /\ save.pc = "saving" /\ save' = Idle
      /\ revision' = [revision EXCEPT ![save.acct] = @ + 1]
      /\ model' = [model EXCEPT ![save.acct] = save.model]
      /\ limit' = [limit EXCEPT ![save.acct] = save.limit]
      /\ state' = IF save.kept \/ save.seen = "unverified" THEN state
                  ELSE [state EXCEPT ![save.acct] = "unverified"]
      /\ Marked(S, "paused")
      /\ UNCHANGED <<slot, lock, cooling, test, trouble, overwritten>>
  BY DEF SaveStore
<1>2. RestTyped /\ revision[save.acct] < MaxSaves
  BY <1>1, Parts DEF IInv, SaveHasRoom
<1>3. save.acct \in Accounts /\ save.model \in AllModels /\ save.limit \in Nat \ {0}
  <2>1. save \in [pc : {"saving"}, acct : Accounts, model : AllModels, limit : Limits,
                  kept : BOOLEAN, seen : States]
    BY <1>1, <1>2 DEF RestTyped, Idle
  <2> QED BY <2>1, LimitType
<1>4. revision' \in [Accounts -> 0 .. MaxSaves]
  BY <1>1, <1>2, <1>3, BoundsType DEF RestTyped
<1>5. RestTyped' /\ SaveHasRoom'
  BY <1>1, <1>2, <1>3, <1>4 DEF RestTyped, SaveHasRoom, States, Idle
<1>6. \A y \in S : an[y].status \in {"queued", "paused"}
  BY DEF OfAccount, With
<1>7. Quiet /\ \A y \in Posts : an[y].status = "running" => an'[y].status = "running"
  BY <1>1, <1>6, MarkedQuiet
<1> QED BY <1>1, <1>5, <1>7, WorkersRow, RowsKeep

LEMMA TestStartKeeps ==
    ASSUME IInv, NEW a \in Managed, TestStart(a)
    PROVE  IInv'
<1>1. a \in Accounts
  BY ManagedType
<1>2. RestTyped' /\ SaveHasRoom'
  BY <1>1, Parts DEF TestStart, accounts, RestTyped, IInv, SaveHasRoom
<1> QED BY <1>2, RestKeeps DEF TestStart

LEMMA TestAnswerKeeps ==
    ASSUME IInv, TestAnswer
    PROVE  IInv'
<1>1. test.pc = "asking" /\ RestTyped
  BY Parts DEF TestAnswer
<1>2. test.acct \in Accounts
  BY <1>1 DEF RestTyped, Idle
<1>3. PICK st \in {"valid", "invalid"} :
        test' = IF test.rev = revision[test.acct]
                THEN [pc |-> "storing", acct |-> test.acct, verdict |-> st,
                      seen |-> state[test.acct]]
                ELSE Idle
  BY DEF TestAnswer
<1>4. RestTyped' /\ SaveHasRoom'
  BY <1>1, <1>2, <1>3 DEF TestAnswer, accounts, RestTyped, IInv, SaveHasRoom, States
<1> QED BY <1>4, RestKeeps DEF TestAnswer

\* What a test stores.
LEMMA TestWrites ==
    ASSUME IInv, TestStore
    PROVE  Quiet /\ \A y \in Posts : an[y].status = "running" => an'[y].status = "running"
<1>1. ASSUME NEW st \in {"queued", "paused"}, NEW y \in OfAccount(test.acct, st)
      PROVE  an[y].status \in {"queued", "paused"}
  BY <1>1 DEF OfAccount, With
<1>4. UNCHANGED overwritten
  BY DEF TestStore
<1>2. CASE test.verdict = "valid"
  <2>1. Marked(OfAccount(test.acct, "paused"), "queued")
    BY <1>2 DEF TestStore
  <2> QED BY <1>1, <1>4, <2>1, MarkedQuiet
<1>3. CASE test.verdict # "valid"
  <2>1. Marked(OfAccount(test.acct, "queued"), "paused")
    BY <1>3 DEF TestStore
  <2> QED BY <1>1, <1>4, <2>1, MarkedQuiet
<1> QED BY <1>2, <1>3

LEMMA TestStoreKeeps ==
    ASSUME IInv, TestStore
    PROVE  IInv'
<1>1. test.pc = "storing" /\ RestTyped
  BY Parts DEF TestStore
<1>2. test.acct \in Accounts /\ test.verdict \in States
  BY <1>1 DEF RestTyped, Idle
<1>3. RestTyped' /\ SaveHasRoom'
  BY <1>1, <1>2 DEF TestStore, RestTyped, IInv, SaveHasRoom
<1> QED BY <1>3, TestWrites, WorkersRow, RowsKeep DEF TestStore

LEMMA UnchangedKeeps == IInv /\ UNCHANGED vars => IInv'
<1> SUFFICES ASSUME IInv, UNCHANGED vars PROVE IInv'
  OBVIOUS
<1>1. RestTyped' /\ SaveHasRoom'
  BY Parts DEF vars, RestTyped, IInv, SaveHasRoom
<1> QED BY <1>1, RestKeeps DEF vars

LEMMA Step_IInv == IInv /\ [Next]_vars => IInv'
<1> SUFFICES ASSUME IInv, [Next]_vars PROVE IInv'
  OBVIOUS
<1>1. ASSUME NEW s \in Slots, SlotStep(s) PROVE IInv'
  BY <1>1, ClaimReadKeeps, ClaimCommitKeeps, JudgedKeeps, RateLimitedKeeps,
     ConfigErrorKeeps, ConfigErrorCommitKeeps, LoseThreadKeeps,
     CommitFailsKeeps, RecordFailureKeeps DEF SlotStep
<1>2. ASSUME NEW a \in Managed, User(a) PROVE IInv'
  BY <1>2, SaveReadKeeps, TestStartKeeps DEF User
<1>3. CASE SaveStore \/ Test
  BY <1>3, SaveStoreKeeps, TestAnswerKeeps, TestStoreKeeps DEF Test
<1>4. CASE Watchdog
  BY <1>4, WatchdogLookKeeps, WatchdogRecoverKeeps DEF Watchdog
<1> QED BY <1>1, <1>2, <1>3, <1>4, EnqueueKeeps, CooledDownKeeps, RestartKeeps,
           UnchangedKeeps DEF Next

\* Only the commit of a claim begins a request.
LEMMA OnlyClaims ==
    ASSUME IInv, [Next]_vars, NEW s \in Slots, slot[s].pc = "chosen", slot'[s].pc = "working"
    PROVE  ClaimCommit(s)
<1>1. SlotsTyped
  BY Parts
<1>2. slot'[s] # slot[s]
  OBVIOUS
<1>3. ASSUME NEW r \in Slots, SlotStep(r) PROVE ClaimCommit(s)
  <2>1. r = s
    BY <1>1, <1>2, <1>3 DEF SlotStep, ClaimRead, ClaimCommit, Judged, RateLimited, ConfigError,
       ConfigErrorCommit, LoseThread, CommitFails, RecordFailure, SlotsTyped
  <2>2. slot[s] # Idle /\ slot[s].pc # "working" /\ slot[s].pc # "losing" /\ slot[s].pc # "failing"
    BY DEF Idle
  <2>3. ~CommitFails(s)
    BY <1>1 DEF CommitFails, SlotsTyped
  <2> QED BY <1>2, <1>3, <2>1, <2>2, <2>3 DEF SlotStep, ClaimRead, Judged, RateLimited,
             ConfigError, ConfigErrorCommit, LoseThread, RecordFailure
<1>4. ~Restart
  BY <1>1 DEF Restart, Idle
<1> QED BY <1>2, <1>3, <1>4 DEF Next, vars, Enqueue, CooledDown, User, SaveRead, TestStart,
           SaveStore, Test, TestAnswer, TestStore, Watchdog, WatchdogLook, WatchdogRecover

\* With a claim its account has one more request.
LEMMA ClaimCommitTakes ==
    ASSUME IInv, NEW s \in Slots, ClaimCommit(s)
    PROVE  /\ Cardinality(OfAccount(an[slot[s].post].acct, "running")') <= slot[s].room
           /\ IsFiniteSet(OfAccount(an[slot[s].post].acct, "running")')
<1> DEFINE x == slot[s].post
           a == an[x].acct
<1>1. slot[s].pc = "chosen" /\ an' = [an EXCEPT ![x].status = "running"]
      /\ shown' = [shown EXCEPT ![x] = "running"]
      /\ slot'[s].post = x
  BY Parts DEF ClaimCommit, SlotsTyped
<1>2. x \in Posts /\ an[x] # Absent /\ a \in Accounts /\ slot[s].room \in Nat
  BY <1>1, WorkersRow, SlotForm, Parts
<1>3. Cardinality(OfAccount(a, "running")) < slot[s].room /\ x \notin OfAccount(a, "running")
  BY <1>1, <1>2 DEF IInv, ChosenHasRoom, OfAccount, With
<1>4. "running" \in Statuses \ {"none"}
  BY DEF Statuses
<1> HIDE DEF x
<1>5. an'[x].acct = a /\ \A y \in Posts : y # x => an'[y] = an[y]
  BY <1>1, <1>2, <1>4, OneRow
<1>6. OfAccount(an[slot[s].post].acct, "running")' \subseteq OfAccount(a, "running") \cup {x}
  BY <1>1, <1>5 DEF OfAccount, With
<1>7. /\ Cardinality(OfAccount(a, "running") \cup {x}) = Cardinality(OfAccount(a, "running")) + 1
      /\ IsFiniteSet(OfAccount(a, "running") \cup {x})
  BY <1>3, RunningFinite, FS_AddElement
<1> HIDE DEF a
<1>8. /\ Cardinality(OfAccount(an[slot[s].post].acct, "running")')
            <= Cardinality(OfAccount(a, "running") \cup {x})
      /\ IsFiniteSet(OfAccount(an[slot[s].post].acct, "running")')
      /\ Cardinality(OfAccount(an[slot[s].post].acct, "running")') \in Nat
  BY <1>6, <1>7, FS_Subset, FS_CardinalityType
<1> QED BY <1>2, <1>3, <1>7, <1>8, RunningFinite

-----------------------------------------------------------------------------
(* The theorems.                                                           *)

\* Rows, slots, the lock and what the user has begun are in step in every state.
THEOREM QueueInvariant == Spec => []IInv
<1> QED BY Init_IInv, Step_IInv, PTL DEF Spec

\* Rows, accounts, slots and requests of the user stay well-formed.
THEOREM QueueTyped == Spec => []TypeOK
<1>1. IInv => TypeOK
  BY DEF IInv
<1> QED BY <1>1, QueueInvariant, PTL

\* No two slots work on a post, and what a slot works on is not queued again by
\* watchdog, save or test meanwhile (claim_lock, active_claims), unless a thread
\* whose commit failed called the task failed (_record_internal_failure).
THEOREM NoPostTwice == Spec => []WorkedOnOnce
<1>1. IInv => WorkedOnOnce
  BY DEF IInv
<1> QED BY <1>1, QueueInvariant, PTL

\* However many slots there are, whatever is lost or saved meanwhile and whatever
\* becomes of the limit, a request is only begun within the limit its claim read,
\* and with the one predictor only if it is free.
THEOREM LimitsHold == Spec => LimitsKept
<1> DEFINE Kept == \A s \in Slots : slot[s].pc = "chosen" /\ slot'[s].pc = "working" =>
                LET x == slot[s].post
                IN  /\ Cardinality(UnderWay(an[x].acct)') <= slot[s].room
                    /\ x \in UnderWayLocally' => UnderWayLocally' = {x}
<1>1. ASSUME IInv, IInv', [Next]_vars PROVE Kept
  <2> SUFFICES ASSUME NEW s \in Slots, slot[s].pc = "chosen", slot'[s].pc = "working"
               PROVE  /\ Cardinality(UnderWay(an[slot[s].post].acct)') <= slot[s].room
                      /\ slot[s].post \in UnderWayLocally' => UnderWayLocally' = {slot[s].post}
    OBVIOUS
  <2>1. ClaimCommit(s)
    BY <1>1, OnlyClaims
  <2>2. /\ Cardinality(OfAccount(an[slot[s].post].acct, "running")') <= slot[s].room
        /\ IsFiniteSet(OfAccount(an[slot[s].post].acct, "running")')
    BY <1>1, <2>1, ClaimCommitTakes
  <2>3. \A x \in Requested' : x \in With("running")'
    <3> SUFFICES ASSUME NEW r \in Slots, slot'[r].pc = "working", slot'[r].post \notin overwritten'
                 PROVE  slot'[r].post \in With("running")'
      BY DEF Requested
    <3>1. an'[slot'[r].post].status = "running"
      BY <1>1 DEF IInv, WorkedOnOnce
    <3>2. SlotsTyped'
      BY <1>1 DEF IInv
    <3>3. slot'[r].post \in Posts
      BY <3>2 DEF SlotsTyped, Working, Losing, Chosen, Failing, Idle
    <3> QED BY <3>1, <3>3 DEF With
  <2>4. /\ UnderWay(an[slot[s].post].acct)' \subseteq OfAccount(an[slot[s].post].acct, "running")'
        /\ UnderWayLocally' \subseteq {x \in With("running")' : an'[x].model = "local"}
    BY <2>3 DEF UnderWay, UnderWayLocally, OfAccount
  <2>5. \A x, y \in UnderWayLocally' : x = y
    BY <1>1, <2>4 DEF IInv, OneLocal
  <2>6. slot[s].room \in Nat
    BY <1>1, SlotForm, Parts
  <2> DEFINE U == UnderWay(an[slot[s].post].acct)'
             R == OfAccount(an[slot[s].post].acct, "running")'
  <2>7. IsFiniteSet(R) /\ U \subseteq R /\ Cardinality(R) <= slot[s].room
    BY <2>2, <2>4
  <2> HIDE DEF U, R
  <2>8. Cardinality(U) <= slot[s].room
    <3>1. Cardinality(U) <= Cardinality(R) /\ Cardinality(U) \in Nat /\ Cardinality(R) \in Nat
      BY <2>7, FS_Subset, FS_CardinalityType
    <3> QED BY <2>6, <2>7, <3>1
  <2>9. slot[s].post \in UnderWayLocally' => UnderWayLocally' = {slot[s].post}
    BY <2>5
  <2> QED BY <2>8, <2>9 DEF U
<1>2. Spec => [][Kept]_vars
  BY <1>1, QueueInvariant, PTL DEF Spec
<1> QED BY <1>2 DEF LimitsKept

\* The status shown with a post is that of its analysis, in every commit.
THEOREM PostsShowAnalyses == Spec => []PostsAgree
<1>1. IInv => PostsAgree
  BY DEF IInv
<1> QED BY <1>1, QueueInvariant, PTL

\* A judged post is never queued, paused or judged again, by whatever order of
\* steps, unless a thread whose commit failed called it failed over another's work.
THEOREM JudgementsStay == Spec => JudgedIsFinal
<1> DEFINE Stay == \A x \in Posts :
                an[x].status \in Final => an'[x].status = an[x].status \/ x \in overwritten'
<1>1. Quiet => Stay
  BY DEF Quiet, QuietRow
<1>2. ASSUME IInv, [Next]_vars PROVE Stay \/ UNCHANGED vars
  <2>1. ASSUME UNCHANGED an PROVE Stay
    BY <2>1
  <2>2. ASSUME NEW x \in Posts, Enqueue(x) PROVE Stay
    <3>1. an[x].status \notin Final
      BY <2>2 DEF Enqueue, Absent, Final
    <3> QED BY <1>2, <2>2, <3>1, Parts DEF Enqueue, RowsTyped
  <2>3. ASSUME NEW s \in Slots, SlotStep(s) PROVE Stay
    <3>1. CASE ClaimCommit(s)
      <4>1. slot[s].post \in overwritten' \/ an[slot[s].post].status \notin Final
        BY <1>2, <3>1 DEF ClaimCommit, IInv, ChosenHasRoom, Final
      <4> QED BY <1>2, <3>1, <4>1, Parts DEF ClaimCommit, RowsTyped
    <3>2. CASE Judged(s)
      <4>1. slot[s].post \in overwritten' \/ an[slot[s].post].status \notin Final
        BY <1>2, <3>2, WorkersRow DEF Judged, Final
      <4> QED BY <1>2, <3>2, <4>1, Parts DEF Judged, RowsTyped
    <3>3. CASE ConfigErrorCommit(s)
      BY <1>1, <1>2, <3>3, ConfigErrorWrites
    <3>4. CASE RecordFailure(s)
      BY <1>1, <1>2, <3>4, FailureWrites
    <3> QED BY <2>1, <2>3, <3>1, <3>2, <3>3, <3>4
            DEF SlotStep, ClaimRead, RateLimited, ConfigError, LoseThread, CommitFails
  <2>4. CASE Watchdog
    BY <1>1, <1>2, <2>1, <2>4, OrphanedQuiet DEF Watchdog, WatchdogLook, WatchdogRecover
  <2>5. CASE Restart
    BY <1>1, <1>2, <2>5, OrphanedQuiet DEF Restart
  <2>6. CASE SaveStore
    <3>1. \A y \in OfAccount(save.acct, "queued") : an[y].status \in {"queued", "paused"}
      BY DEF OfAccount, With
    <3> QED BY <1>1, <1>2, <2>6, <3>1, MarkedQuiet DEF SaveStore
  <2>7. CASE Test
    BY <1>1, <1>2, <2>1, <2>7, TestWrites DEF Test, TestAnswer
  <2>8. ASSUME NEW a \in Accounts, CooledDown(a) PROVE Stay
    BY <2>1, <2>8 DEF CooledDown
  <2>9. ASSUME NEW a \in Managed, User(a) PROVE Stay
    BY <2>1, <2>9 DEF User, SaveRead, TestStart
  <2> QED BY <1>2, <2>2, <2>3, <2>4, <2>5, <2>6, <2>7, <2>8, <2>9 DEF Next
<1>3. Spec => [][Stay]_vars
  BY <1>2, QueueInvariant, PTL DEF Spec
<1> QED BY <1>3 DEF JudgedIsFinal
=============================================================================
