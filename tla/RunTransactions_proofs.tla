---------------------- MODULE RunTransactions_proofs ----------------------
(***************************************************************************)
(* Proofs about the transactions on the rows of a run, for any tasks and   *)
(* platforms and however stale what was read is when it is committed.      *)
(* Types and the rule about sessions hold for whoever writes besides the   *)
(* lanes; that a run is not called finished too early, and that what is    *)
(* final stays final, hold as long as they take turns on the event loop.   *)
(***************************************************************************)
EXTENDS RunTransactions, FiniteSetTheorems, TLAPS

\* The form of what the parties have decided.
TxTyped == tx \in [Parties -> Transactions \cup {None}]

\* Lanes have tasks of their own platform.
LanesApart == \A p \in Platforms : \A t \in lane[p] : PlatformOf[t] = p

\* What a lane has decided goes with where it is.
LaneDecision(p) ==
    LET d == tx[p]
    IN  \/ /\ d.kind = "claim" /\ d.run = "running" /\ lane[p] = {}
           /\ \A t \in DOMAIN d.writes : PlatformOf[t] = p /\ d.writes[t] = "running"
        \/ d.kind = "progress" /\ lane[p] # {} /\ DOMAIN d.writes = {}
        \/ /\ d.kind = "store" /\ lane[p] # {} /\ DOMAIN d.writes = lane[p]
           /\ \A t \in lane[p] : d.writes[t] \in Results

\* What the user, or an import, has decided.
UserDecision(x) ==
    /\ tx[x].kind \in {"end", "resume"}
    /\ \A t \in DOMAIN tx[x].writes : tx[x].writes[t] \in {"failed", "queued"}

Decisions ==
    /\ \A p \in Platforms : tx[p] # None => LaneDecision(p)
    /\ \A x \in Others : tx[x] # None => UserDecision(x)

LaneInv == TypeOK /\ TxTyped /\ LanesApart /\ Decisions /\ NoLaneWhileWaiting

\* The status a row has until what is to be written on it is committed.
Before(k) ==
    CASE k = "claim" -> "queued"
      [] k = "store" -> "running"
      [] OTHER -> "waiting_for_auth"

\* Nobody else writes a row that is about to be written.
Fresh ==
    \A x \in Parties : tx[x] # None =>
        \A t \in DOMAIN tx[x].writes : status[t] = Before(tx[x].kind)

LanesRun == \A p \in Platforms : \A t \in lane[p] : status[t] = "running"

\* Who is about to call the run finished has counted right, and still does.
Verdicts ==
    \A x \in Parties : tx[x] # None /\ tx[x].run \in Terminal =>
        \A t \in Tasks :
            IF t \in DOMAIN tx[x].writes THEN tx[x].writes[t] \in Terminal
                                         ELSE status[t] \in Terminal

RunInv == LaneInv /\ Fresh /\ LanesRun /\ Verdicts /\ EndedRunHasEnded

-----------------------------------------------------------------------------
(* The operators.                                                          *)

\* What is decided is well-formed and writes rows of the run.
LEMMA DecidedForm ==
    ASSUME TxTyped, NEW x \in Parties, tx[x] # None
    PROVE  /\ tx[x] \in Transactions
           /\ tx[x].kind \in {"claim", "progress", "store", "end", "resume"}
           /\ tx[x].run \in Statuses \cup {"later"} /\ tx[x].seen \in Statuses
           /\ DOMAIN tx[x].writes \subseteq Tasks
           /\ \A t \in DOMAIN tx[x].writes : tx[x].writes[t] \in Statuses
<1>1. tx[x] \in Transactions
  BY DEF TxTyped
<1>2. PICK S \in SUBSET Tasks : tx[x].writes \in [S -> Statuses]
  BY <1>1 DEF Transactions
<1> QED BY <1>1, <1>2 DEF Transactions

\* A status the run may get is one, and a final one only when all rows are final.
LEMMA AggregateEnds ==
    ASSUME NEW st \in [Tasks -> Statuses], NEW r \in Aggregate(st)
    PROVE  r \in Statuses /\ (r \in Terminal => \A t \in Tasks : st[t] \in Terminal)
<1>1. CASE \A t \in Tasks : st[t] \in Terminal
  BY <1>1 DEF Aggregate, Terminal, Statuses
<1>2. CASE \E t \in Tasks : st[t] \notin Terminal
  BY <1>2 DEF Aggregate, Terminal, Statuses
<1> QED BY <1>1, <1>2

\* The rows with writes on top are statuses again.
LEMMA WithTyped ==
    ASSUME TypeOK, NEW w, DOMAIN w \subseteq Tasks, \A t \in DOMAIN w : w[t] \in Statuses
    PROVE  With(w) \in [Tasks -> Statuses]
BY DEF TypeOK, With

\* Deciding changes what this party has decided, and nothing else.
LEMMA Deciding ==
    ASSUME TypeOK, TxTyped, NEW x \in Parties,
           NEW k \in {"claim", "progress", "store", "end", "resume"},
           NEW w, DOMAIN w \subseteq Tasks, w \in [DOMAIN w -> Statuses],
           NEW run \in Statuses \cup {"later"},
           Decide(x, k, w, run)
    PROVE  /\ TxTyped'
           /\ tx'[x] # None
           /\ tx'[x].kind = k /\ tx'[x].writes = w /\ tx'[x].run = run
           /\ \A y \in Parties : y # x => tx'[y] = tx[y]
<1> DEFINE d == [kind |-> k, writes |-> w, seen |-> runStatus, run |-> run]
<1>1. tx' = [tx EXCEPT ![x] = d] /\ tx \in [Parties -> Transactions \cup {None}]
  BY DEF Decide, TxTyped
<1>2. w \in UNION {[S -> Statuses] : S \in SUBSET Tasks}
  OBVIOUS
<1>3. d \in Transactions
  BY <1>2 DEF Transactions, TypeOK
<1>4. d # None
  <2>1. d.kind # "none"
    OBVIOUS
  <2> QED BY <2>1 DEF None
<1>5. d.kind = k /\ d.writes = w /\ d.run = run
  OBVIOUS
<1> HIDE DEF d
<1> QED BY <1>1, <1>3, <1>4, <1>5 DEF TxTyped

\* Nobody else is a lane.
LEMMA PartiesApart == \A x \in Others, p \in Platforms : x # p
BY OthersType

-----------------------------------------------------------------------------
(* Types and the rule about sessions.                                      *)

\* A new decision keeps the invariant when it is one its party may take.
LEMMA DecidingKeepsLanes ==
    ASSUME LaneInv, NEW x \in Parties,
           NEW k \in {"claim", "progress", "store", "end", "resume"},
           NEW w, DOMAIN w \subseteq Tasks, w \in [DOMAIN w -> Statuses],
           NEW run \in Statuses \cup {"later"},
           Decide(x, k, w, run),
           UNCHANGED <<status, runStatus, lane>>, trouble' \in 0 .. MaxTrouble,
           x \in Platforms => LaneDecision(x)',
           x \in Others => UserDecision(x)',
           x \in Platforms /\ k = "claim" => On(x, "waiting_for_auth") = {}
    PROVE  LaneInv'
<1>1. /\ TxTyped'
      /\ tx'[x] # None /\ tx'[x].kind = k
      /\ \A y \in Parties : y # x => tx'[y] = tx[y]
  BY Deciding DEF LaneInv
<1>2. TypeOK'
  BY <1>1 DEF TypeOK, TxTyped, LaneInv
<1>3. LanesApart'
  BY DEF LanesApart, LaneInv
<1>4. Decisions'
  <2>1. ASSUME NEW p \in Platforms, tx'[p] # None PROVE LaneDecision(p)'
    <3>1. CASE p = x
      BY <3>1
    <3>2. CASE p # x
      BY <1>1, <2>1, <3>2 DEF LaneInv, Decisions, LaneDecision, Parties
    <3> QED BY <3>1, <3>2
  <2>2. ASSUME NEW y \in Others, tx'[y] # None PROVE UserDecision(y)'
    <3>1. CASE y = x
      BY <3>1
    <3>2. CASE y # x
      BY <1>1, <2>2, <3>2 DEF LaneInv, Decisions, UserDecision, Parties
    <3> QED BY <3>1, <3>2
  <2> QED BY <2>1, <2>2 DEF Decisions
<1>5. NoLaneWhileWaiting'
  <2> SUFFICES ASSUME NEW p \in Platforms, On(p, "waiting_for_auth") # {}
               PROVE  lane[p] = {} /\ (tx'[p] = None \/ tx'[p].kind # "claim")
    BY DEF NoLaneWhileWaiting, On
  <2>1. lane[p] = {} /\ (tx[p] = None \/ tx[p].kind # "claim")
    BY DEF LaneInv, NoLaneWhileWaiting
  <2> QED BY <1>1, <2>1 DEF Parties
<1> QED BY <1>1, <1>2, <1>3, <1>4, <1>5 DEF LaneInv

LEMMA InitLanes == Init => LaneInv
<1> SUFFICES ASSUME Init PROVE LaneInv
  OBVIOUS
<1> USE DEF Init
<1>1. TypeOK
  BY BoundType DEF TypeOK, Statuses
<1>2. TxTyped
  BY DEF TxTyped
<1>3. LanesApart /\ Decisions
  BY DEF LanesApart, Decisions, Parties
<1>4. NoLaneWhileWaiting
  BY DEF NoLaneWhileWaiting, On
<1> QED BY <1>1, <1>2, <1>3, <1>4 DEF LaneInv

LEMMA ClaimReadLanes ==
    ASSUME LaneInv, NEW p \in Platforms, ClaimRead(p)
    PROVE  LaneInv'
<1>1. PICK S \in SUBSET On(p, "queued") \ {{}} :
         Decide(p, "claim", [t \in S |-> "running"], "running")
  BY DEF ClaimRead
<1> DEFINE w == [t \in S |-> "running"]
<1>2. S \subseteq Tasks /\ \A t \in S : PlatformOf[t] = p
  BY DEF On
<1>3. DOMAIN w \subseteq Tasks /\ w \in [DOMAIN w -> Statuses] /\ "running" \in Statuses
  BY <1>2 DEF Statuses
<1>4. tx'[p].kind = "claim" /\ tx'[p].writes = w /\ tx'[p].run = "running"
  <2> HIDE DEF w
  <2> QED BY <1>1, <1>3, Deciding DEF LaneInv, Parties, w
<1>5. LaneDecision(p)'
  BY <1>2, <1>4 DEF LaneDecision, ClaimRead
<1>6. /\ UNCHANGED <<status, runStatus, lane, trouble>> /\ trouble \in 0 .. MaxTrouble
      /\ On(p, "waiting_for_auth") = {}
  BY DEF ClaimRead, LaneInv, TypeOK
<1> HIDE DEF w
<1> QED BY <1>1, <1>3, <1>5, <1>6, DecidingKeepsLanes, PartiesApart DEF Parties, w

LEMMA ProgressReadLanes ==
    ASSUME LaneInv, NEW p \in Platforms, ProgressRead(p)
    PROVE  LaneInv'
<1> DEFINE w == [t \in {} |-> "running"]
<1>1. PICK run \in {"later"} \cup Aggregate(status) : Decide(p, "progress", w, run)
  BY DEF ProgressRead
<1>2. run \in Statuses \cup {"later"}
  BY AggregateEnds DEF LaneInv, TypeOK
<1>3. DOMAIN w = {} /\ w \in [DOMAIN w -> Statuses]
  OBVIOUS
<1> HIDE DEF w
<1>4. tx'[p].kind = "progress" /\ tx'[p].writes = w
  BY <1>1, <1>2, <1>3, Deciding DEF LaneInv, Parties
<1>5. LaneDecision(p)'
  BY <1>3, <1>4 DEF LaneDecision, ProgressRead
<1>6. UNCHANGED <<status, runStatus, lane, trouble>> /\ trouble \in 0 .. MaxTrouble
  BY DEF ProgressRead, LaneInv, TypeOK
<1> QED BY <1>1, <1>2, <1>3, <1>5, <1>6, DecidingKeepsLanes, PartiesApart DEF Parties

\* What a lane has decided after its visits.
LEMMA StoreDecided ==
    ASSUME LaneInv, NEW p \in Platforms, StoreRead(p)
    PROVE  \E res \in [lane[p] -> Results], run \in Statuses \cup {"later"} :
              /\ Decide(p, "store", res, run)
              /\ lane[p] \subseteq Tasks /\ res \in [lane[p] -> Statuses]
              /\ run \in Terminal => \A t \in Tasks : With(res)[t] \in Terminal
              /\ trouble' \in 0 .. MaxTrouble
<1>1. PICK res \in [lane[p] -> Results], flushed \in BOOLEAN :
        LET again == {t \in lane[p] : res[t] \notin Terminal}
        IN  /\ trouble + Cardinality(again) <= MaxTrouble
            /\ trouble' = trouble + Cardinality(again)
            /\ \E run \in IF flushed THEN {"later"} ELSE Aggregate(With(res)) :
                Decide(p, "store", res, run)
  BY DEF StoreRead
<1> DEFINE again == {t \in lane[p] : res[t] \notin Terminal}
<1>2. lane[p] \subseteq Tasks /\ res \in [lane[p] -> Statuses]
  BY DEF LaneInv, TypeOK, Results, Statuses, Terminal
<1>3. Cardinality(again) \in Nat
  BY <1>2, TasksFinite, FS_Subset, FS_CardinalityType
<1>4. trouble' \in 0 .. MaxTrouble
  <2>1. trouble + Cardinality(again) <= MaxTrouble /\ trouble' = trouble + Cardinality(again)
    BY <1>1
  <2> HIDE DEF again
  <2> QED BY <2>1, <1>3, BoundType DEF LaneInv, TypeOK
<1>5. PICK run \in IF flushed THEN {"later"} ELSE Aggregate(With(res)) :
        Decide(p, "store", res, run)
  BY <1>1
<1>6. With(res) \in [Tasks -> Statuses]
  BY <1>2, WithTyped DEF LaneInv
<1>7. run \in Statuses \cup {"later"}
      /\ (run \in Terminal => \A t \in Tasks : With(res)[t] \in Terminal)
  BY <1>5, <1>6, AggregateEnds DEF Terminal
<1> QED BY <1>2, <1>4, <1>5, <1>7

LEMMA StoreReadLanes ==
    ASSUME LaneInv, NEW p \in Platforms, StoreRead(p)
    PROVE  LaneInv'
<1>1. PICK res \in [lane[p] -> Results], run \in Statuses \cup {"later"} :
              /\ Decide(p, "store", res, run)
              /\ lane[p] \subseteq Tasks /\ res \in [lane[p] -> Statuses]
              /\ trouble' \in 0 .. MaxTrouble
  BY StoreDecided
<1>2. DOMAIN res = lane[p]
  OBVIOUS
<1>3. tx'[p].kind = "store" /\ tx'[p].writes = res
  BY <1>1, <1>2, Deciding DEF LaneInv, Parties
<1>4. lane[p] # {} /\ UNCHANGED <<status, runStatus, lane>>
  BY DEF StoreRead
<1>5. LaneDecision(p)'
  BY <1>2, <1>3, <1>4 DEF LaneDecision
<1> QED BY <1>1, <1>2, <1>4, <1>5, DecidingKeepsLanes, PartiesApart DEF Parties

LEMMA BreakLanes ==
    ASSUME LaneInv, NEW p \in Platforms, Break(p)
    PROVE  LaneInv'
<1>1. /\ lane' = [lane EXCEPT ![p] = {}] /\ tx' = [tx EXCEPT ![p] = None]
      /\ UNCHANGED <<status, runStatus>> /\ trouble' \in 0 .. MaxTrouble
  BY BoundType DEF Break, LaneInv, TypeOK
<1>2. TxTyped' /\ LanesApart'
  BY <1>1 DEF LaneInv, TypeOK, TxTyped, LanesApart
<1>3. TypeOK'
  BY <1>1, <1>2 DEF LaneInv, TypeOK, TxTyped
<1>4. /\ tx'[p] = None /\ lane'[p] = {}
      /\ \A y \in Parties : y # p => tx'[y] = tx[y]
      /\ \A q \in Platforms : q # p => lane'[q] = lane[q]
  BY <1>1 DEF LaneInv, TypeOK, TxTyped, Parties
<1>5. Decisions'
  <2>1. ASSUME NEW q \in Platforms, tx'[q] # None PROVE LaneDecision(q)'
    BY <2>1, <1>4 DEF LaneInv, Decisions, LaneDecision, Parties
  <2>2. ASSUME NEW y \in Others, tx'[y] # None PROVE UserDecision(y)'
    BY <2>2, <1>4 DEF LaneInv, Decisions, UserDecision, Parties
  <2> QED BY <2>1, <2>2 DEF Decisions
<1>6. NoLaneWhileWaiting'
  BY <1>1, <1>4 DEF LaneInv, NoLaneWhileWaiting, On, Parties
<1> QED BY <1>2, <1>3, <1>5, <1>6 DEF LaneInv

\* What the user has decided when ending the wait.
LEMMA EndDecided ==
    ASSUME LaneInv, NEW x \in Others, EndRead(x)
    PROVE  \E w : \E run \in Statuses \cup {"later"} :
              /\ Decide(x, "end", w, run)
              /\ DOMAIN w = {s \in Tasks : status[s] = "waiting_for_auth"}
              /\ w \in [DOMAIN w -> Statuses] /\ \A t \in DOMAIN w : w[t] = "failed"
              /\ run \in Terminal => \A t \in Tasks : With(w)[t] \in Terminal
<1> DEFINE w == [t \in {s \in Tasks : status[s] = "waiting_for_auth"} |-> "failed"]
<1>1. PICK run \in Aggregate(With(w)) : Decide(x, "end", w, run)
  BY DEF EndRead
<1>2. /\ DOMAIN w = {s \in Tasks : status[s] = "waiting_for_auth"}
      /\ w \in [DOMAIN w -> Statuses] /\ \A t \in DOMAIN w : w[t] = "failed"
  BY DEF Statuses, Terminal
<1> HIDE DEF w
<1>3. With(w) \in [Tasks -> Statuses]
  BY <1>2, WithTyped DEF LaneInv
<1>4. run \in Statuses \cup {"later"}
      /\ (run \in Terminal => \A t \in Tasks : With(w)[t] \in Terminal)
  BY <1>1, <1>3, AggregateEnds
<1> QED BY <1>1, <1>2, <1>4

LEMMA EndReadLanes ==
    ASSUME LaneInv, NEW x \in Others, EndRead(x)
    PROVE  LaneInv'
<1>1. PICK w : \E run \in Statuses \cup {"later"} :
              /\ Decide(x, "end", w, run)
              /\ DOMAIN w = {s \in Tasks : status[s] = "waiting_for_auth"}
              /\ w \in [DOMAIN w -> Statuses] /\ \A t \in DOMAIN w : w[t] = "failed"
  BY EndDecided
<1>2. DOMAIN w \subseteq Tasks
  BY <1>1
<1>3. tx'[x].kind = "end" /\ tx'[x].writes = w
  BY <1>1, <1>2, Deciding DEF LaneInv, Parties
<1>4. UserDecision(x)'
  BY <1>1, <1>3 DEF UserDecision
<1>5. UNCHANGED <<status, runStatus, lane, trouble>> /\ trouble \in 0 .. MaxTrouble
  BY DEF EndRead, LaneInv, TypeOK
<1> QED BY <1>1, <1>2, <1>4, <1>5, DecidingKeepsLanes, PartiesApart DEF Parties

LEMMA ResumeReadLanes ==
    ASSUME LaneInv, NEW x \in Others, ResumeRead(x)
    PROVE  LaneInv'
<1>1. PICK p \in Platforms :
        Decide(x, "resume", [t \in On(p, "waiting_for_auth") |-> "queued"], "queued")
  BY DEF ResumeRead
<1> DEFINE w == [t \in On(p, "waiting_for_auth") |-> "queued"]
<1>2. /\ DOMAIN w \subseteq Tasks /\ w \in [DOMAIN w -> Statuses] /\ "queued" \in Statuses
      /\ \A t \in DOMAIN w : w[t] = "queued"
  BY DEF On, Statuses
<1>3. Decide(x, "resume", w, "queued")
  BY <1>1
<1> HIDE DEF w
<1>4. tx'[x].kind = "resume" /\ tx'[x].writes = w
  BY <1>2, <1>3, Deciding DEF LaneInv, Parties
<1>5. UserDecision(x)'
  BY <1>2, <1>4 DEF UserDecision
<1>6. UNCHANGED <<status, runStatus, lane, trouble>> /\ trouble \in 0 .. MaxTrouble
  BY DEF ResumeRead, LaneInv, TypeOK
<1> QED BY <1>2, <1>3, <1>5, <1>6, DecidingKeepsLanes, PartiesApart DEF Parties

\* What a commit does, to whoever it belongs.
LEMMA Committing ==
    ASSUME LaneInv, NEW x \in Parties, Commit(x)
    PROVE  /\ tx[x] # None /\ tx'[x] = None
           /\ \A y \in Parties : y # x => tx'[y] = tx[y]
           /\ \A p \in Platforms : p # x => lane'[p] = lane[p]
           /\ x \in Platforms => lane'[x] = CASE tx[x].kind = "claim" -> DOMAIN tx[x].writes
                                             [] tx[x].kind = "progress" -> lane[x]
                                             [] OTHER -> {}
           /\ status' = With(tx[x].writes) /\ status' \in [Tasks -> Statuses]
           /\ \A t \in Tasks : status'[t] = IF t \in DOMAIN tx[x].writes
                                            THEN tx[x].writes[t] ELSE status[t]
           /\ \E new \in Statuses :
                /\ runStatus' = IF new # tx[x].seen THEN new ELSE runStatus
                /\ new = tx[x].run \/ new \in Aggregate(status')
<1>1. /\ tx[x] # None /\ tx' = [tx EXCEPT ![x] = None]
      /\ status' = With(tx[x].writes) /\ lane' = LaneAfter(x)
  BY DEF Commit
<1>2. tx'[x] = None /\ \A y \in Parties : y # x => tx'[y] = tx[y]
  BY <1>1 DEF LaneInv, TxTyped
<1>3. status' \in [Tasks -> Statuses]
  BY <1>1, DecidedForm, WithTyped DEF LaneInv
<1>4. \A t \in Tasks : status'[t] = IF t \in DOMAIN tx[x].writes
                                    THEN tx[x].writes[t] ELSE status[t]
  BY <1>1 DEF With
<1>5. \A p \in Platforms : p # x => lane'[p] = lane[p]
  BY <1>1 DEF LaneAfter
<1>6. x \in Platforms => lane'[x] = CASE tx[x].kind = "claim" -> DOMAIN tx[x].writes
                                     [] tx[x].kind = "progress" -> lane[x]
                                     [] OTHER -> {}
  BY <1>1 DEF LaneAfter
<1>7. PICK new \in IF tx[x].run = "later" THEN Aggregate(status') ELSE {tx[x].run} :
        runStatus' = IF new # tx[x].seen THEN new ELSE runStatus
  BY <1>1 DEF Commit
<1>8. new \in Statuses /\ (new = tx[x].run \/ new \in Aggregate(status'))
  BY <1>1, <1>3, <1>7, DecidedForm, AggregateEnds DEF LaneInv
<1> QED BY <1>1, <1>2, <1>3, <1>4, <1>5, <1>6, <1>7, <1>8

LEMMA CommitLanes ==
    ASSUME LaneInv, NEW x \in Parties, Commit(x)
    PROVE  LaneInv'
<1> DEFINE w == tx[x].writes
<1>1. /\ tx[x] # None /\ tx'[x] = None
      /\ \A y \in Parties : y # x => tx'[y] = tx[y]
      /\ \A p \in Platforms : p # x => lane'[p] = lane[p]
      /\ status' \in [Tasks -> Statuses]
      /\ \A t \in Tasks : status'[t] = IF t \in DOMAIN w THEN w[t] ELSE status[t]
  BY Committing
<1>2. x \in Platforms => lane'[x] = CASE tx[x].kind = "claim" -> DOMAIN tx[x].writes
                                     [] tx[x].kind = "progress" -> lane[x]
                                     [] OTHER -> {}
  BY Committing
<1>3. DOMAIN w \subseteq Tasks
  BY <1>1, DecidedForm DEF LaneInv
<1>4. x \in Platforms => LaneDecision(x)
  BY <1>1 DEF LaneInv, Decisions
<1>5. x \in Platforms => lane'[x] \subseteq Tasks /\ \A t \in lane'[x] : PlatformOf[t] = x
  BY <1>2, <1>3, <1>4 DEF LaneInv, TypeOK, LanesApart, LaneDecision
<1>6. TxTyped' /\ LanesApart'
  <2>1. tx' = [tx EXCEPT ![x] = None]
    BY DEF Commit
  <2> QED BY <1>1, <1>5, <2>1 DEF LaneInv, TxTyped, LanesApart
<1>7. TypeOK'
  <2>1. runStatus' \in Statuses
    BY Committing DEF LaneInv, TypeOK
  <2>2. lane' \in [Platforms -> SUBSET Tasks]
    <3>1. lane' = [p \in Platforms |-> lane'[p]]
      BY DEF Commit, LaneAfter
    <3>2. \A p \in Platforms : lane'[p] \subseteq Tasks
      BY <1>1, <1>5 DEF LaneInv, TypeOK
    <3> QED BY <3>1, <3>2
  <2>3. trouble' = trouble
    BY DEF Commit
  <2> QED BY <1>1, <1>6, <2>1, <2>2, <2>3 DEF LaneInv, TypeOK, TxTyped
<1>8. Decisions'
  <2>1. ASSUME NEW p \in Platforms, tx'[p] # None PROVE LaneDecision(p)'
    <3>1. p # x /\ tx'[p] = tx[p] /\ lane'[p] = lane[p] /\ LaneDecision(p)
      BY <1>1, <2>1 DEF LaneInv, Decisions, Parties
    <3> QED BY <3>1 DEF LaneDecision
  <2>2. ASSUME NEW y \in Others, tx'[y] # None PROVE UserDecision(y)'
    BY <1>1, <2>2 DEF LaneInv, Decisions, UserDecision, Parties
  <2> QED BY <2>1, <2>2 DEF Decisions
<1>9. NoLaneWhileWaiting'
  <2> SUFFICES ASSUME NEW p \in Platforms, NEW t \in Tasks, PlatformOf[t] = p,
                      status'[t] = "waiting_for_auth"
               PROVE  lane'[p] = {} /\ tx'[p] = None
    BY DEF NoLaneWhileWaiting, On
  <2>1. CASE t \in DOMAIN w
    <3>1. w[t] = "waiting_for_auth"
      BY <1>1, <2>1
    <3>2. x \in Platforms
      BY <1>1, <2>1, <3>1 DEF LaneInv, Decisions, UserDecision, Parties
    <3>3. tx[x].kind = "store" /\ t \in lane[x]
      BY <1>4, <2>1, <3>1, <3>2 DEF LaneDecision
    <3>4. x = p
      BY <3>2, <3>3 DEF LaneInv, LanesApart
    <3> QED BY <1>1, <1>2, <3>2, <3>3, <3>4
  <2>2. CASE t \notin DOMAIN w
    <3>1. status[t] = "waiting_for_auth"
      BY <1>1, <2>2
    <3>2. lane[p] = {} /\ (tx[p] = None \/ tx[p].kind # "claim")
      BY <3>1 DEF LaneInv, NoLaneWhileWaiting, On
    <3>3. tx[p] = None
      BY <3>2 DEF LaneInv, Decisions, LaneDecision
    <3> QED BY <1>1, <3>2, <3>3 DEF Parties
  <2> QED BY <2>1, <2>2
<1> QED BY <1>6, <1>7, <1>8, <1>9 DEF LaneInv

LEMMA RestartLanes == LaneInv /\ Restart => LaneInv'
<1> SUFFICES ASSUME LaneInv, Restart PROVE LaneInv'
  OBVIOUS
<1> USE DEF Restart
<1>1. TxTyped' /\ LanesApart'
  BY DEF LaneInv, TxTyped, LanesApart
<1>2. TypeOK'
  BY BoundType DEF LaneInv, TypeOK, Statuses
<1>3. Decisions'
  BY DEF Decisions, Parties
<1>4. NoLaneWhileWaiting'
  BY DEF NoLaneWhileWaiting, Parties
<1> QED BY <1>1, <1>2, <1>3, <1>4 DEF LaneInv

LEMMA LanesUnchanged == LaneInv /\ UNCHANGED vars => LaneInv'
<1> SUFFICES ASSUME LaneInv, UNCHANGED vars PROVE LaneInv'
  OBVIOUS
<1> USE DEF vars, LaneInv
<1>1. TypeOK' /\ TxTyped' /\ LanesApart'
  BY DEF TypeOK, TxTyped, LanesApart
<1>2. Decisions'
  BY DEF Decisions, LaneDecision, UserDecision
<1>3. NoLaneWhileWaiting'
  BY DEF NoLaneWhileWaiting, On
<1> QED BY <1>1, <1>2, <1>3

LEMMA LanesStep == LaneInv /\ [Next]_vars => LaneInv'
<1> SUFFICES ASSUME LaneInv, [Next]_vars PROVE LaneInv'
  OBVIOUS
<1>1. ASSUME NEW p \in Platforms, LaneStep(p) PROVE LaneInv'
  BY <1>1, ClaimReadLanes, ProgressReadLanes, StoreReadLanes, BreakLanes DEF LaneStep
<1>2. ASSUME NEW x \in Others, OtherStep(x) PROVE LaneInv'
  BY <1>2, EndReadLanes, ResumeReadLanes DEF OtherStep
<1>3. ASSUME NEW x \in Parties, Commit(x) PROVE LaneInv'
  BY <1>3, CommitLanes
<1>4. CASE Restart
  BY <1>4, RestartLanes
<1>5. CASE UNCHANGED vars
  BY <1>5, LanesUnchanged
<1> QED BY <1>1, <1>2, <1>3, <1>4, <1>5 DEF Next

\* Whoever writes besides the lanes, and however stale it read: what is decided
\* fits where its lane is, and no lane starts while a task waits for a session.
THEOREM LaneInvariant == Spec => []LaneInv
<1> QED BY InitLanes, LanesStep, PTL DEF Spec

\* Rows, lanes and decisions stay well-formed, and trouble within its bound.
THEOREM RunTyped == Spec => []TypeOK
<1>1. LaneInv => TypeOK
  BY DEF LaneInv
<1> QED BY <1>1, LaneInvariant, PTL

\* For any writers: no lane works on a platform, or has decided to, of which a
\* task waits for a session (claim_batch looks before it takes a task).
THEOREM LanesWaitForSessions == Spec => []NoLaneWhileWaiting
<1>1. LaneInv => NoLaneWhileWaiting
  BY DEF LaneInv
<1> QED BY <1>1, LaneInvariant, PTL

-----------------------------------------------------------------------------
(* The end of the run and of its tasks, when the writers beside the lanes  *)
(* take turns.                                                             *)

\* What two parties are about to write is apart: lanes have their platforms,
\* and only one of the others is there.
LEMMA WritesApart ==
    ASSUME LaneInv, Fresh, "import" \notin Others,
           NEW x \in Parties, NEW y \in Parties, x # y, tx[x] # None, tx[y] # None
    PROVE  DOMAIN tx[x].writes \cap DOMAIN tx[y].writes = {}
<1> SUFFICES ASSUME NEW t \in DOMAIN tx[x].writes, t \in DOMAIN tx[y].writes
             PROVE  FALSE
  OBVIOUS
<1>1. status[t] = Before(tx[x].kind) /\ status[t] = Before(tx[y].kind)
  BY DEF Fresh
<1>2. ~ (x \in Others /\ y \in Others)
  BY OthersType
<1>3. ASSUME NEW p \in Platforms, tx[p] # None, t \in DOMAIN tx[p].writes
      PROVE  PlatformOf[t] = p /\ tx[p].kind \in {"claim", "store"}
  BY <1>3 DEF LaneInv, Decisions, LaneDecision, LanesApart
<1>4. ASSUME NEW z \in Others, tx[z] # None PROVE tx[z].kind \in {"end", "resume"}
  BY <1>4 DEF LaneInv, Decisions, UserDecision
<1>5. x \in Platforms /\ y \in Platforms => FALSE
  BY <1>3
<1>6. ASSUME NEW p \in Platforms, NEW z \in Others, tx[p] # None, tx[z] # None,
             t \in DOMAIN tx[p].writes, status[t] = Before(tx[p].kind),
             status[t] = Before(tx[z].kind)
      PROVE  FALSE
  <2>1. status[t] \in {"queued", "running"}
    BY <1>3, <1>6 DEF Before
  <2>2. status[t] = "waiting_for_auth"
    BY <1>4, <1>6 DEF Before
  <2> QED BY <2>1, <2>2
<1> QED BY <1>1, <1>2, <1>5, <1>6 DEF Parties

\* A new decision keeps the rest when the rows it writes are as the handler
\* that took it found them, and its verdict is right.
LEMMA DecidingKeepsRun ==
    ASSUME RunInv, LaneInv', NEW x \in Parties,
           NEW k \in {"claim", "progress", "store", "end", "resume"},
           NEW w, DOMAIN w \subseteq Tasks, w \in [DOMAIN w -> Statuses],
           NEW run \in Statuses \cup {"later"},
           Decide(x, k, w, run),
           UNCHANGED <<status, runStatus, lane>>,
           \A t \in DOMAIN w : status[t] = Before(k),
           run \in Terminal => \A t \in Tasks : With(w)[t] \in Terminal
    PROVE  RunInv'
<1>1. /\ tx'[x] # None
      /\ tx'[x].kind = k /\ tx'[x].writes = w /\ tx'[x].run = run
      /\ \A y \in Parties : y # x => tx'[y] = tx[y]
  BY Deciding DEF RunInv, LaneInv
<1>2. Fresh'
  <2> SUFFICES ASSUME NEW y \in Parties, tx'[y] # None, NEW t \in DOMAIN tx'[y].writes
               PROVE  status[t] = Before(tx'[y].kind)
    BY DEF Fresh, Before
  <2>1. CASE y = x
    BY <1>1, <2>1
  <2>2. CASE y # x
    BY <1>1, <2>2 DEF RunInv, Fresh
  <2> QED BY <2>1, <2>2
<1>3. Verdicts'
  <2> SUFFICES ASSUME NEW y \in Parties, tx'[y] # None, tx'[y].run \in Terminal,
                      NEW t \in Tasks
               PROVE  IF t \in DOMAIN tx'[y].writes THEN tx'[y].writes[t] \in Terminal
                                                    ELSE status[t] \in Terminal
    BY DEF Verdicts, Terminal
  <2>1. CASE y = x
    BY <1>1, <2>1 DEF With
  <2>2. CASE y # x
    BY <1>1, <2>2 DEF RunInv, Verdicts
  <2> QED BY <2>1, <2>2
<1>4. LanesRun' /\ EndedRunHasEnded'
  BY DEF RunInv, LanesRun, EndedRunHasEnded, Terminal
<1> QED BY <1>2, <1>3, <1>4 DEF RunInv

LEMMA InitRun == Init => RunInv
<1> SUFFICES ASSUME Init PROVE RunInv
  OBVIOUS
<1>1. LaneInv
  BY InitLanes
<1>2. Fresh /\ Verdicts /\ LanesRun /\ EndedRunHasEnded
  BY DEF Init, Fresh, Verdicts, LanesRun, EndedRunHasEnded, Terminal
<1> QED BY <1>1, <1>2 DEF RunInv

LEMMA ClaimReadRun ==
    ASSUME RunInv, NEW p \in Platforms, ClaimRead(p)
    PROVE  RunInv'
<1>1. PICK S \in SUBSET On(p, "queued") \ {{}} :
         Decide(p, "claim", [t \in S |-> "running"], "running")
  BY DEF ClaimRead
<1> DEFINE w == [t \in S |-> "running"]
<1>2. /\ DOMAIN w \subseteq Tasks /\ w \in [DOMAIN w -> Statuses]
      /\ "running" \in Statuses \ Terminal
      /\ \A t \in DOMAIN w : status[t] = Before("claim")
  BY DEF On, Statuses, Before, Terminal
<1>3. Decide(p, "claim", w, "running") /\ UNCHANGED <<status, runStatus, lane>>
  BY <1>1 DEF ClaimRead
<1>4. LaneInv'
  BY ClaimReadLanes DEF RunInv
<1> HIDE DEF w
<1> QED BY <1>2, <1>3, <1>4, DecidingKeepsRun DEF Parties

LEMMA ProgressReadRun ==
    ASSUME RunInv, NEW p \in Platforms, ProgressRead(p)
    PROVE  RunInv'
<1> DEFINE w == [t \in {} |-> "running"]
<1>1. PICK run \in {"later"} \cup Aggregate(status) : Decide(p, "progress", w, run)
  BY DEF ProgressRead
<1>2. DOMAIN w = {} /\ w \in [DOMAIN w -> Statuses]
  OBVIOUS
<1> HIDE DEF w
<1>3. /\ run \in Statuses \cup {"later"}
      /\ run \in Terminal => \A t \in Tasks : status[t] \in Terminal
  BY AggregateEnds DEF RunInv, LaneInv, TypeOK, Terminal
<1>4. run \in Terminal => \A t \in Tasks : With(w)[t] \in Terminal
  BY <1>2, <1>3 DEF With
<1>5. UNCHANGED <<status, runStatus, lane>> /\ LaneInv'
  BY ProgressReadLanes DEF ProgressRead, RunInv
<1> QED BY <1>1, <1>2, <1>3, <1>4, <1>5, DecidingKeepsRun DEF Parties

LEMMA StoreReadRun ==
    ASSUME RunInv, NEW p \in Platforms, StoreRead(p)
    PROVE  RunInv'
<1>1. PICK res \in [lane[p] -> Results], run \in Statuses \cup {"later"} :
              /\ Decide(p, "store", res, run)
              /\ lane[p] \subseteq Tasks /\ res \in [lane[p] -> Statuses]
              /\ run \in Terminal => \A t \in Tasks : With(res)[t] \in Terminal
  BY StoreDecided DEF RunInv
<1>2. DOMAIN res = lane[p] /\ \A t \in lane[p] : status[t] = Before("store")
  BY DEF RunInv, LanesRun, Before
<1>3. UNCHANGED <<status, runStatus, lane>> /\ LaneInv'
  BY StoreReadLanes DEF StoreRead, RunInv
<1> QED BY <1>1, <1>2, <1>3, DecidingKeepsRun DEF Parties

LEMMA BreakRun ==
    ASSUME RunInv, NEW p \in Platforms, Break(p)
    PROVE  RunInv'
<1>1. LaneInv'
  BY BreakLanes DEF RunInv
<1>2. /\ tx'[p] = None /\ lane'[p] = {} /\ UNCHANGED <<status, runStatus>>
      /\ \A y \in Parties : y # p => tx'[y] = tx[y]
      /\ \A q \in Platforms : q # p => lane'[q] = lane[q]
  BY DEF Break, RunInv, LaneInv, TypeOK, TxTyped, Parties
<1>3. Fresh' /\ Verdicts'
  BY <1>2 DEF RunInv, Fresh, Verdicts
<1>4. LanesRun' /\ EndedRunHasEnded'
  BY <1>2 DEF RunInv, LanesRun, EndedRunHasEnded
<1> QED BY <1>1, <1>3, <1>4 DEF RunInv

LEMMA EndReadRun ==
    ASSUME RunInv, NEW x \in Others, EndRead(x)
    PROVE  RunInv'
<1>1. PICK w : \E run \in Statuses \cup {"later"} :
              /\ Decide(x, "end", w, run)
              /\ DOMAIN w = {s \in Tasks : status[s] = "waiting_for_auth"}
              /\ w \in [DOMAIN w -> Statuses] /\ \A t \in DOMAIN w : w[t] = "failed"
              /\ run \in Terminal => \A t \in Tasks : With(w)[t] \in Terminal
  BY EndDecided DEF RunInv
<1>2. DOMAIN w \subseteq Tasks /\ \A t \in DOMAIN w : status[t] = Before("end")
  BY <1>1 DEF Before
<1>3. UNCHANGED <<status, runStatus, lane>> /\ LaneInv'
  BY EndReadLanes DEF EndRead, RunInv
<1> QED BY <1>1, <1>2, <1>3, DecidingKeepsRun DEF Parties

LEMMA ResumeReadRun ==
    ASSUME RunInv, NEW x \in Others, ResumeRead(x)
    PROVE  RunInv'
<1>1. PICK p \in Platforms :
        Decide(x, "resume", [t \in On(p, "waiting_for_auth") |-> "queued"], "queued")
  BY DEF ResumeRead
<1> DEFINE w == [t \in On(p, "waiting_for_auth") |-> "queued"]
<1>2. /\ DOMAIN w \subseteq Tasks /\ w \in [DOMAIN w -> Statuses]
      /\ "queued" \in Statuses \ Terminal
      /\ \A t \in DOMAIN w : status[t] = Before("resume")
  BY DEF On, Statuses, Terminal, Before
<1>3. Decide(x, "resume", w, "queued")
  BY <1>1
<1> HIDE DEF w
<1>4. UNCHANGED <<status, runStatus, lane>> /\ LaneInv'
  BY ResumeReadLanes DEF ResumeRead, RunInv
<1> QED BY <1>2, <1>3, <1>4, DecidingKeepsRun DEF Parties

LEMMA CommitRun ==
    ASSUME RunInv, "import" \notin Others, NEW x \in Parties, Commit(x)
    PROVE  RunInv'
<1> DEFINE w == tx[x].writes
<1>1. /\ tx[x] # None /\ tx'[x] = None
      /\ \A y \in Parties : y # x => tx'[y] = tx[y]
      /\ \A p \in Platforms : p # x => lane'[p] = lane[p]
      /\ status' \in [Tasks -> Statuses]
      /\ \A t \in Tasks : status'[t] = IF t \in DOMAIN w THEN w[t] ELSE status[t]
  BY Committing DEF RunInv
<1>2. LaneInv'
  BY CommitLanes DEF RunInv
<1>3. \A y \in Parties : tx[y] # None => DOMAIN tx[y].writes \subseteq Tasks
  BY DecidedForm DEF RunInv, LaneInv
<1>4. \A y \in Parties : y # x /\ tx[y] # None => DOMAIN tx[y].writes \cap DOMAIN w = {}
  BY <1>1, WritesApart DEF RunInv
<1>5. \A t \in DOMAIN w : status[t] \notin Terminal
  BY <1>1 DEF RunInv, Fresh, Before, Terminal
<1>6. Fresh'
  <2> SUFFICES ASSUME NEW y \in Parties, tx'[y] # None, NEW t \in DOMAIN tx'[y].writes
               PROVE  status'[t] = Before(tx'[y].kind)
    BY DEF Fresh, Before
  <2>1. y # x /\ tx'[y] = tx[y] /\ t \in Tasks /\ t \notin DOMAIN w
    BY <1>1, <1>3, <1>4
  <2> QED BY <1>1, <2>1 DEF RunInv, Fresh
<1>7. LanesRun'
  <2> SUFFICES ASSUME NEW p \in Platforms, NEW t \in lane'[p]
               PROVE  status'[t] = "running"
    BY DEF LanesRun
  <2>1. t \in Tasks
    BY <1>2 DEF LaneInv, TypeOK
  <2>2. CASE p = x
    <3>1. \/ tx[x].kind = "claim" /\ t \in DOMAIN w /\ w[t] = "running"
          \/ tx[x].kind = "progress" /\ t \in lane[x] /\ DOMAIN w = {}
      <4>1. lane'[x] = CASE tx[x].kind = "claim" -> DOMAIN tx[x].writes
                         [] tx[x].kind = "progress" -> lane[x]
                         [] OTHER -> {}
        BY <2>2, Committing DEF RunInv
      <4>2. LaneDecision(x)
        BY <1>1, <2>2 DEF RunInv, LaneInv, Decisions
      <4> QED BY <2>2, <4>1, <4>2 DEF LaneDecision
    <3> QED BY <1>1, <2>1, <2>2, <3>1 DEF RunInv, LanesRun
  <2>3. CASE p # x
    <3>1. t \in lane[p] /\ status[t] = "running" /\ PlatformOf[t] = p
      BY <1>1, <2>3 DEF RunInv, LanesRun, LaneInv, LanesApart
    <3>2. t \notin DOMAIN w
      <4> SUFFICES ASSUME t \in DOMAIN w PROVE FALSE
        OBVIOUS
      <4>1. Before(tx[x].kind) = "running"
        BY <1>1, <3>1 DEF RunInv, Fresh
      <4>2. \/ x \in Platforms /\ LaneDecision(x)
            \/ x \in Others /\ UserDecision(x)
        BY <1>1 DEF RunInv, LaneInv, Decisions, Parties
      <4>3. x \in Platforms /\ t \in lane[x]
        BY <4>1, <4>2 DEF Before, LaneDecision, UserDecision
      <4> QED BY <2>3, <3>1, <4>3 DEF RunInv, LaneInv, LanesApart
    <3> QED BY <1>1, <2>1, <3>1, <3>2
  <2> QED BY <2>2, <2>3
<1>8. Verdicts'
  <2> SUFFICES ASSUME NEW y \in Parties, tx'[y] # None, tx'[y].run \in Terminal,
                      NEW t \in Tasks
               PROVE  IF t \in DOMAIN tx'[y].writes THEN tx'[y].writes[t] \in Terminal
                                                    ELSE status'[t] \in Terminal
    BY DEF Verdicts, Terminal
  <2>1. y # x /\ tx'[y] = tx[y]
    BY <1>1
  <2>2. IF t \in DOMAIN tx[y].writes THEN tx[y].writes[t] \in Terminal
                                     ELSE status[t] \in Terminal
    BY <2>1 DEF RunInv, Verdicts
  <2> QED BY <1>1, <1>5, <2>1, <2>2
<1>9. EndedRunHasEnded'
  <2> SUFFICES ASSUME runStatus' \in Terminal, NEW t \in Tasks
               PROVE  status'[t] \in Terminal
    BY DEF EndedRunHasEnded, Terminal
  <2>1. PICK new \in Statuses :
          /\ runStatus' = IF new # tx[x].seen THEN new ELSE runStatus
          /\ new = tx[x].run \/ new \in Aggregate(status')
    BY Committing DEF RunInv
  <2>2. CASE runStatus' = new /\ new \in Aggregate(status')
    BY <1>1, <2>2, AggregateEnds
  <2>3. CASE runStatus' = new /\ new = tx[x].run
    <3>1. IF t \in DOMAIN w THEN w[t] \in Terminal ELSE status[t] \in Terminal
      BY <1>1, <2>3 DEF RunInv, Verdicts
    <3> QED BY <1>1, <3>1
  <2>4. CASE runStatus' = runStatus
    <3>1. status[t] \in Terminal
      BY <2>4 DEF RunInv, EndedRunHasEnded
    <3> QED BY <1>1, <1>5, <3>1
  <2> QED BY <2>1, <2>2, <2>3, <2>4
<1> QED BY <1>2, <1>6, <1>7, <1>8, <1>9 DEF RunInv

LEMMA RestartRun == RunInv /\ Restart => RunInv'
<1> SUFFICES ASSUME RunInv, Restart PROVE RunInv'
  OBVIOUS
<1>1. LaneInv'
  BY RestartLanes DEF RunInv
<1>2. Fresh' /\ Verdicts' /\ LanesRun'
  BY DEF Restart, Fresh, Verdicts, LanesRun
<1>3. EndedRunHasEnded'
  BY DEF Restart, RunInv, EndedRunHasEnded, Terminal
<1> QED BY <1>1, <1>2, <1>3 DEF RunInv

LEMMA RunUnchanged == RunInv /\ UNCHANGED vars => RunInv'
<1> SUFFICES ASSUME RunInv, UNCHANGED vars PROVE RunInv'
  OBVIOUS
<1>1. LaneInv'
  BY LanesUnchanged DEF RunInv
<1>2. Fresh' /\ Verdicts' /\ LanesRun' /\ EndedRunHasEnded'
  BY DEF vars, RunInv, Fresh, Verdicts, LanesRun, EndedRunHasEnded
<1> QED BY <1>1, <1>2 DEF RunInv

LEMMA RunStep ==
    ASSUME RunInv, "import" \notin Others, [Next]_vars
    PROVE  RunInv'
<1>1. ASSUME NEW p \in Platforms, LaneStep(p) PROVE RunInv'
  BY <1>1, ClaimReadRun, ProgressReadRun, StoreReadRun, BreakRun DEF LaneStep
<1>2. ASSUME NEW x \in Others, OtherStep(x) PROVE RunInv'
  BY <1>2, EndReadRun, ResumeReadRun DEF OtherStep
<1>3. ASSUME NEW x \in Parties, Commit(x) PROVE RunInv'
  BY <1>3, CommitRun
<1>4. CASE Restart
  BY <1>4, RestartRun
<1>5. CASE UNCHANGED vars
  BY <1>5, RunUnchanged
<1> QED BY <1>1, <1>2, <1>3, <1>4, <1>5 DEF Next

\* When no import runs beside the event loop: nobody writes a row somebody else
\* is about to write, and whoever is about to call the run finished is right.
THEOREM RunInvariant ==
    ASSUME "import" \notin Others
    PROVE  Spec => []RunInv
<1> QED BY InitRun, RunStep, PTL DEF Spec

\* When no import runs beside the event loop: a run is never called finished
\* while one of its tasks is not, however the transactions of lanes and user
\* interleave (aggregate_run, store_results, end_auth_wait).
THEOREM RunEndsLast ==
    ASSUME "import" \notin Others
    PROVE  Spec => []EndedRunHasEnded
<1>1. RunInv => EndedRunHasEnded
  BY DEF RunInv
<1> QED BY <1>1, RunInvariant, PTL

\* When no import runs beside the event loop: a task that is final stays as it
\* is, whoever has read it before.
THEOREM FinalStays ==
    ASSUME "import" \notin Others
    PROVE  Spec => FinalIsFinal
<1> DEFINE Stay == \A t \in Tasks : status[t] \in Terminal => status'[t] = status[t]
<1>1. ASSUME RunInv, [Next]_vars PROVE Stay \/ UNCHANGED vars
  <2>1. ASSUME NEW x \in Parties, Commit(x) PROVE Stay
    <3>1. \A t \in Tasks : status'[t] = IF t \in DOMAIN tx[x].writes
                                        THEN tx[x].writes[t] ELSE status[t]
      BY <1>1, <2>1, Committing DEF RunInv
    <3>2. \A t \in DOMAIN tx[x].writes : status[t] \notin Terminal
      BY <1>1, <2>1 DEF RunInv, Fresh, Before, Terminal, Commit
    <3> QED BY <3>1, <3>2
  <2>2. CASE Restart
    BY <2>2 DEF Restart, Terminal
  <2>3. ASSUME NEW p \in Platforms, LaneStep(p) PROVE Stay
    BY <2>3 DEF LaneStep, ClaimRead, ProgressRead, StoreRead, Break
  <2>4. ASSUME NEW x \in Others, OtherStep(x) PROVE Stay
    BY <2>4 DEF OtherStep, EndRead, ResumeRead
  <2> QED BY <1>1, <2>1, <2>2, <2>3, <2>4 DEF Next
<1>2. Spec => [][Stay]_vars
  BY <1>1, RunInvariant, PTL DEF Spec
<1> QED BY <1>2 DEF FinalIsFinal
=============================================================================
