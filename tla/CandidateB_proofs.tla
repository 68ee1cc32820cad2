---------------------------- MODULE CandidateB_proofs -----------------------
(***************************************************************************)
(* Proofs about the commands of the second collector candidate, for any    *)
(* number of URLs, pages, attempts, calls and mishaps: the rows of a crawl *)
(* are explained, no session is lost to the making of a new one, the       *)
(* report of a bounded recovery tells of every URL, and that of a probe    *)
(* what was brought for each line.                                         *)
(***************************************************************************)
EXTENDS MCCandidateB, FiniteSetTheorems, SequenceTheorems, WellFoundedInduction, TLAPS

-----------------------------------------------------------------------------
(* The crawl counts with the same operators.                               *)

LEMMA SameCardinality == \A S : Crawl!Cardinality(S) = Cardinality(S)
BY DEF Crawl!Cardinality, Cardinality

LEMMA SameFinite == \A S : Crawl!IsFiniteSet(S) = IsFiniteSet(S)
BY DEF Crawl!IsFiniteSet, IsFiniteSet

-----------------------------------------------------------------------------
(* One command runs; the others' variables stay as they are.               *)

LEMMA StepsOfCommands ==
  ASSUME [CommandNext]_all
  PROVE  [Next]_vars /\ [Crawl!Next]_crawl /\ [Probe!Next]_probe
  BY DEF CommandNext, all, Recover, Visit, Look

-----------------------------------------------------------------------------
(* The browser crawl.                                                      *)

CrawlStates == [at : {"queued", "page", "cookies", "done"}, attempt : {0} \cup Crawl!Attempts]
Profiles == [target : Crawl!Contents, source : Crawl!Contents, backup : Crawl!Contents]

CrawlTyped ==
  /\ phase \in {"start", "refused", "login", "crawl", "fill", "exit", "sms", "code",
                "verify", "promote", "aside", "ended"}
  /\ rows \in [Pages -> Seq(Crawl!RowKinds)] /\ finalized \subseteq Pages
  /\ request \in [Pages -> CrawlStates] /\ strays \in [Pages -> SUBSET Crawl!Attempts]
  /\ deadline \in BOOLEAN /\ profile \in Profiles
  /\ calls \in 0..MaxCalls /\ mishaps \in 0..MaxMishaps

\* Once the file is read the process knows which URLs have a row.
RowsKnown ==
  phase \in {"login", "crawl", "fill", "exit"} => finalized = {u \in Pages : rows[u] # <<>>}

\* Further rows of a URL are handlers', and for each there is one of a stray handler.
OnlyStrays(row) == \A i \in DOMAIN row : row[i] = "stray"
Explained(row) ==
  /\ Cardinality({i \in DOMAIN row : row[i] = "stray"}) >= Len(row) - 1
  /\ \A i \in DOMAIN row : i > 1 => row[i] \in {"answer", "stray"}

\* While a URL's request is open only handlers that were given up on have written a row.
OpenRequests ==
  \A u \in Pages : request[u] # Crawl!Done =>
    /\ phase = "crawl" /\ request[u].attempt \in Crawl!Attempts
    /\ OnlyStrays(rows[u])

RowsInv == CrawlTyped /\ RowsKnown /\ OpenRequests /\ Crawl!RowsExplained

\* One more row.
LEMMA RowAdded ==
  ASSUME NEW old \in Seq(Crawl!RowKinds), NEW kind \in Crawl!RowKinds, Explained(old),
         kind = "stray" \/ old = <<>> \/ (kind = "answer" /\ OnlyStrays(old))
  PROVE  /\ Append(old, kind) \in Seq(Crawl!RowKinds) /\ Append(old, kind) # <<>>
         /\ Explained(Append(old, kind))
         /\ kind = "stray" /\ OnlyStrays(old) => OnlyStrays(Append(old, kind))
<1> DEFINE new == Append(old, kind)
           before == {i \in DOMAIN old : old[i] = "stray"}
           after == {i \in DOMAIN new : new[i] = "stray"}
           last == Len(old) + 1
<1>1. /\ new \in Seq(Crawl!RowKinds) /\ Len(new) = last /\ Len(old) \in Nat
      /\ DOMAIN old = 1..Len(old) /\ DOMAIN new = 1..last
      /\ new[last] = kind /\ \A i \in 1..Len(old) : new[i] = old[i]
  BY AppendProperties
<1>2. IsFiniteSet(DOMAIN old) /\ Cardinality(DOMAIN old) = Len(old)
  BY <1>1, FS_Interval
<1>3. IsFiniteSet(before) /\ Cardinality(before) \in Nat
  BY <1>2, FS_Subset, FS_CardinalityType
<1>4. last \notin before /\ Cardinality(before) >= Len(old) - 1 /\ new # <<>>
  BY <1>1 DEF Explained
<1>5. \A i \in DOMAIN new : i > 1 => new[i] \in {"answer", "stray"}
  <2>1. \A i \in DOMAIN old : i > 1 => old[i] \in {"answer", "stray"}
    BY DEF Explained
  <2>2. last > 1 => kind \in {"answer", "stray"}
    BY <1>1
  <2> QED BY <1>1, <2>1, <2>2
<1>6. Cardinality(after) >= Len(new) - 1
  <2>1. CASE kind = "stray"
    <3>1. after = before \cup {last}
      BY <1>1, <2>1
    <3>2. Cardinality(after) = Cardinality(before) + 1
      BY <1>3, <1>4, <3>1, FS_AddElement
    <3> HIDE DEF new, before, after
    <3> QED BY <1>1, <1>3, <1>4, <3>2
  <2>2. CASE kind # "stray"
    <3>1. after = before
      BY <1>1, <2>2
    <3>2. Len(old) = 0 \/ before = DOMAIN old
      BY <1>1, <2>2 DEF OnlyStrays
    <3> HIDE DEF new, before, after
    <3>3. Cardinality(before) >= Len(old)
      BY <1>1, <1>2, <1>3, <3>2
    <3> QED BY <1>1, <3>1, <3>3
  <2> QED BY <2>1, <2>2
<1>7. kind = "stray" /\ OnlyStrays(old) => OnlyStrays(new)
  BY <1>1 DEF OnlyStrays
<1>8. Explained(new)
  BY <1>5, <1>6 DEF Explained
<1> QED BY <1>1, <1>4, <1>7, <1>8

LEMMA RowsParts ==
  Crawl!RowsExplained <=> /\ \A u \in Pages : Explained(rows[u])
                          /\ phase = "exit" => \A u \in Pages : rows[u] # <<>>
BY SameCardinality DEF Crawl!RowsExplained, Crawl!StrayRows, Crawl!HasRow, Explained

LEMMA RowsInits == Crawl!Init => RowsInv
<1> SUFFICES ASSUME Crawl!Init PROVE RowsInv
  OBVIOUS
<1>1. /\ phase = "start" /\ finalized = {} /\ deadline = FALSE /\ calls = 1 /\ mishaps = 0
      /\ rows = [u \in Pages |-> <<>>] /\ strays = [u \in Pages |-> {}]
      /\ request = [u \in Pages |-> Crawl!Done]
  BY DEF Crawl!Init
<1>2. profile \in Profiles
  BY DEF Crawl!Init, Profiles, Crawl!Contents
<1>3. Crawl!Done \in CrawlStates
  BY DEF Crawl!Done, CrawlStates
<1>4. calls \in 0..MaxCalls /\ mishaps \in 0..MaxMishaps
  BY <1>1, CrawlNumbers DEF Crawl!Numbers
<1>5. CrawlTyped
  <2>1. <<>> \in Seq(Crawl!RowKinds)
    OBVIOUS
  <2>2. rows \in [Pages -> Seq(Crawl!RowKinds)]
    BY <1>1, <2>1
  <2>3. request \in [Pages -> CrawlStates] /\ strays \in [Pages -> SUBSET Crawl!Attempts]
    BY <1>1, <1>3
  <2> QED BY <1>1, <1>2, <1>4, <2>2, <2>3 DEF CrawlTyped
<1>6. Explained(<<>>)
  <2>1. Cardinality({i \in DOMAIN <<>> : <<>>[i] = "stray"}) = 0
    BY FS_EmptySet
  <2> QED BY <2>1 DEF Explained
<1>7. RowsKnown /\ OpenRequests /\ Crawl!RowsExplained
  BY <1>1, <1>6, RowsParts DEF RowsKnown, OpenRequests
<1> QED BY <1>5, <1>7 DEF RowsInv

\* Rows of one kind are written for some URLs.
LEMMA RowsWritten ==
  ASSUME RowsInv, NEW U \in SUBSET Pages, NEW kind \in Crawl!RowKinds,
         rows' = [u \in Pages |-> IF u \in U THEN Append(rows[u], kind) ELSE rows[u]],
         \A u \in U : \/ kind = "stray" \/ rows[u] = <<>>
                      \/ kind = "answer" /\ OnlyStrays(rows[u])
  PROVE  /\ rows' \in [Pages -> Seq(Crawl!RowKinds)]
         /\ \A u \in Pages :
              /\ Explained(rows'[u])
              /\ OnlyStrays(rows[u]) /\ (u \in U => kind = "stray") => OnlyStrays(rows'[u])
         /\ \A u \in Pages : rows'[u] # <<>> <=> u \in U \/ rows[u] # <<>>
<1>1. \A u \in Pages : rows[u] \in Seq(Crawl!RowKinds) /\ Explained(rows[u])
  BY RowsParts DEF RowsInv, CrawlTyped
<1>2. \A u \in Pages : rows'[u] = IF u \in U THEN Append(rows[u], kind) ELSE rows[u]
  OBVIOUS
<1>3. \A u \in U : /\ Append(rows[u], kind) \in Seq(Crawl!RowKinds) /\ Append(rows[u], kind) # <<>>
                   /\ Explained(Append(rows[u], kind))
                   /\ kind = "stray" /\ OnlyStrays(rows[u]) => OnlyStrays(Append(rows[u], kind))
  BY <1>1, RowAdded
<1> QED BY <1>1, <1>2, <1>3

\* A step that writes no row.
LEMMA RowsStay ==
  ASSUME RowsInv, CrawlTyped', rows' = rows, RowsKnown', phase' # "exit" \/ phase = "exit",
         \A u \in Pages : request'[u] # Crawl!Done =>
           /\ phase' = "crawl" /\ request'[u].attempt \in Crawl!Attempts
           /\ request[u] # Crawl!Done \/ rows[u] = <<>>
  PROVE  RowsInv'
<1>1. Crawl!RowsExplained'
  BY RowsParts DEF RowsInv, Crawl!RowsExplained, Crawl!StrayRows, Crawl!HasRow
<1>2. OpenRequests'
  BY DEF RowsInv, OpenRequests, OnlyStrays
<1> QED BY <1>1, <1>2 DEF RowsInv

\* The beginning of a call, and the making of a profile.
LEMMA BeginningKeeps ==
  ASSUME RowsInv, Crawl!LoadCompleted \/ Crawl!LoggedIn
  PROVE  RowsInv'
<1>1. /\ CrawlTyped /\ OpenRequests /\ RowsKnown /\ phase \in {"start", "login"}
      /\ UNCHANGED <<rows, strays, deadline, calls, mishaps>>
  BY DEF RowsInv, Crawl!LoadCompleted, Crawl!LoggedIn, Crawl!counters
<1>2. profile' \in Profiles
  BY <1>1 DEF Crawl!LoadCompleted, Crawl!LoggedIn, CrawlTyped, Profiles, Crawl!Contents
<1>3. CASE Crawl!LoadCompleted
  <2>1. /\ request' = request /\ phase' \in {"refused", "login", "sms"}
        /\ finalized' = finalized \/ finalized' = {u \in Pages : rows[u] # <<>>}
        /\ phase' = "login" => finalized' = {u \in Pages : rows[u] # <<>>}
    BY <1>3 DEF Crawl!LoadCompleted, Crawl!Modes, Crawl!HasRow
  <2>2. \A u \in Pages : request'[u] = Crawl!Done
    BY <1>1, <1>3, <2>1 DEF OpenRequests, Crawl!LoadCompleted
  <2>3. CrawlTyped' /\ RowsKnown'
    BY <1>1, <1>2, <2>1 DEF CrawlTyped, RowsKnown
  <2> QED BY <1>1, <2>1, <2>2, <2>3, RowsStay
<1>4. CASE Crawl!LoggedIn
  <2>1. /\ finalized' = finalized /\ phase' = "crawl" /\ phase = "login"
        /\ request' = [u \in Pages |-> IF u \in finalized THEN Crawl!Done ELSE Crawl!Queued(1)]
    BY <1>4 DEF Crawl!LoggedIn
  <2>2. Crawl!Done \in CrawlStates /\ Crawl!Queued(1) \in CrawlStates /\ 1 \in Crawl!Attempts
        /\ Crawl!Queued(1).attempt = 1
    BY CrawlNumbers DEF Crawl!Numbers, Crawl!Done, Crawl!Queued, CrawlStates, Crawl!Attempts
  <2>3. CrawlTyped' /\ RowsKnown'
    BY <1>1, <1>2, <2>1, <2>2 DEF CrawlTyped, RowsKnown
  <2>4. \A u \in Pages : request'[u] # Crawl!Done =>
           /\ request'[u].attempt \in Crawl!Attempts /\ rows[u] = <<>>
    BY <1>1, <2>1, <2>2 DEF RowsKnown
  <2> QED BY <1>1, <2>1, <2>3, <2>4, RowsStay
<1> QED BY <1>3, <1>4

LEMMA ProfilesKeep ==
  ASSUME RowsInv, \/ Crawl!SmsStep \/ Crawl!SetAside \/ Crawl!Promote \/ Crawl!RenameFails
                  \/ Crawl!Again
  PROVE  RowsInv'
<1>1. CrawlTyped /\ OpenRequests /\ UNCHANGED <<rows, finalized, request, strays, deadline>>
  BY DEF RowsInv, Crawl!SmsStep, Crawl!SmsSent, Crawl!SmsEntered, Crawl!SmsLoggedIn,
         Crawl!SmsFailed,
         Crawl!SetAside, Crawl!Promote, Crawl!RenameFails, Crawl!Again, Crawl!progress
<1>2. phase # "crawl" /\ phase' \in {"code", "verify", "promote", "aside", "ended", "start"}
  BY DEF Crawl!SmsStep, Crawl!SmsSent, Crawl!SmsEntered, Crawl!SmsLoggedIn, Crawl!SmsFailed,
         Crawl!SetAside, Crawl!Promote, Crawl!RenameFails, Crawl!Again
<1>3. profile' \in Profiles
  <2>1. profile \in Profiles
    BY <1>1 DEF CrawlTyped
  <2>2. \A c \in Crawl!Contents : [profile EXCEPT !.source = c] \in Profiles
    BY <2>1 DEF Profiles
  <2>3. /\ Crawl!PutAside \in Profiles
        /\ [profile EXCEPT !.target = profile.backup, !.backup = "absent"] \in Profiles
        /\ [target |-> profile.source, source |-> "absent", backup |-> "absent"] \in Profiles
    BY <2>1 DEF Crawl!PutAside, Profiles, Crawl!Contents
  <2>4. "session" \in Crawl!Contents
    BY DEF Crawl!Contents
  <2> HIDE DEF Crawl!PutAside
  <2> QED BY <2>1, <2>2, <2>3, <2>4
      DEF Crawl!SmsStep, Crawl!SmsSent, Crawl!SmsEntered, Crawl!SmsLoggedIn, Crawl!SmsFailed,
          Crawl!SetAside, Crawl!Promote, Crawl!RenameFails, Crawl!Again
<1>4. calls' \in 0..MaxCalls /\ mishaps' \in 0..MaxMishaps
  BY <1>1, CrawlNumbers
  DEF CrawlTyped, Crawl!Numbers, Crawl!counters, Crawl!SmsStep, Crawl!SmsSent, Crawl!SmsEntered,
      Crawl!SmsLoggedIn, Crawl!SmsFailed, Crawl!SetAside, Crawl!Promote, Crawl!RenameFails,
      Crawl!Again
<1>5. CrawlTyped' /\ RowsKnown'
  BY <1>1, <1>2, <1>3, <1>4 DEF CrawlTyped, RowsKnown
<1>6. \A u \in Pages : request'[u] = Crawl!Done
  BY <1>1, <1>2 DEF OpenRequests
<1> QED BY <1>1, <1>2, <1>5, <1>6, RowsStay

\* The process comes to its end, or the crawler to be torn down.
LEMMA EndingKeeps ==
  ASSUME RowsInv, Crawl!Exit \/ Crawl!Killed \/ Crawl!Deadline \/ Crawl!RunReturns
  PROVE  RowsInv'
<1>1. CrawlTyped /\ OpenRequests /\ RowsKnown /\ UNCHANGED <<rows, profile, calls>>
  BY DEF RowsInv, Crawl!Exit, Crawl!Killed, Crawl!Deadline, Crawl!RunReturns, Crawl!counters
<1>2. Crawl!Done \in CrawlStates
  BY DEF Crawl!Done, CrawlStates
<1>3. mishaps' \in 0..MaxMishaps
  BY <1>1, CrawlNumbers DEF CrawlTyped, Crawl!Numbers, Crawl!counters, Crawl!Exit, Crawl!Killed,
     Crawl!Deadline, Crawl!RunReturns
<1>4. CASE Crawl!Exit \/ Crawl!Killed
  <2>1. phase' = "ended" /\ Crawl!Forget
    BY <1>4 DEF Crawl!Exit, Crawl!Killed
  <2>2. CrawlTyped' /\ RowsKnown'
    BY <1>1, <1>2, <1>3, <2>1 DEF CrawlTyped, RowsKnown, Crawl!Forget
  <2>3. \A u \in Pages : request'[u] = Crawl!Done
    BY <2>1 DEF Crawl!Forget
  <2> QED BY <1>1, <2>1, <2>2, <2>3, RowsStay
<1>5. CASE Crawl!Deadline
  <2>1. phase' = phase /\ deadline' = TRUE /\ UNCHANGED <<finalized, request, strays>>
    BY <1>5 DEF Crawl!Deadline
  <2>2. CrawlTyped' /\ RowsKnown'
    BY <1>1, <1>3, <2>1 DEF CrawlTyped, RowsKnown
  <2> QED BY <1>1, <2>1, <2>2, RowsStay DEF OpenRequests
<1>6. CASE Crawl!RunReturns
  <2>1. /\ phase = "crawl" /\ phase' = "fill" /\ UNCHANGED <<finalized, deadline>>
        /\ request' = [u \in Pages |-> Crawl!Done] /\ strays' = Crawl!Strayed(Pages)
    BY <1>6 DEF Crawl!RunReturns
  <2>2. strays' \in [Pages -> SUBSET Crawl!Attempts]
    <3>1. \A u \in Pages : request[u].at = "cookies" => request[u].attempt \in Crawl!Attempts
      BY <1>1 DEF OpenRequests, Crawl!Done
    <3> QED BY <1>1, <2>1, <3>1 DEF Crawl!Strayed, Crawl!In, CrawlTyped
  <2>3. CrawlTyped' /\ RowsKnown'
    BY <1>1, <1>2, <1>3, <2>1, <2>2 DEF CrawlTyped, RowsKnown
  <2> QED BY <1>1, <2>1, <2>3, RowsStay
<1> QED BY <1>4, <1>5, <1>6

\* The URLs without a row get one.
LEMMA FillingKeeps ==
  ASSUME RowsInv, Crawl!NotLoggedIn \/ Crawl!Fill
  PROVE  RowsInv'
<1>1. /\ CrawlTyped /\ OpenRequests /\ RowsKnown /\ phase \in {"login", "fill"}
      /\ UNCHANGED <<request, strays, deadline, profile, calls, mishaps>>
  BY DEF RowsInv, Crawl!NotLoggedIn, Crawl!Fill, Crawl!counters
<1>2. PICK kind \in Crawl!RowKinds : rows' = Crawl!WithRows(Pages \ finalized, kind)
  BY DEF Crawl!NotLoggedIn, Crawl!Fill, Crawl!RowKinds
<1>3. rows' = [u \in Pages |-> IF u \in Pages \ finalized THEN Append(rows[u], kind) ELSE rows[u]]
  BY <1>2 DEF Crawl!WithRows
<1>4. finalized = {u \in Pages : rows[u] # <<>>}
  BY <1>1 DEF RowsKnown
<1>5. /\ rows' \in [Pages -> Seq(Crawl!RowKinds)] /\ \A u \in Pages : Explained(rows'[u])
      /\ \A u \in Pages : rows'[u] # <<>>
  <2>1. \A u \in Pages \ finalized : rows[u] = <<>>
    BY <1>4
  <2> QED BY <1>3, <1>4, <2>1, RowsWritten
<1>6. /\ finalized' \in {finalized, Pages} /\ phase' \in {"ended", "exit"}
      /\ phase' = "exit" => finalized' = Pages
  BY DEF Crawl!NotLoggedIn, Crawl!Fill
<1>7. CrawlTyped' /\ RowsKnown'
  BY <1>1, <1>5, <1>6 DEF CrawlTyped, RowsKnown
<1>8. Crawl!RowsExplained'
  BY <1>5, SameCardinality
  DEF Crawl!RowsExplained, Crawl!StrayRows, Crawl!HasRow, Explained
<1>9. OpenRequests'
  BY <1>1 DEF OpenRequests
<1> QED BY <1>7, <1>8, <1>9 DEF RowsInv

\* One request goes on, or ends with a row.
LEMMA RequestMoves ==
  ASSUME RowsInv, NEW u \in Pages, NEW now \in CrawlStates, phase = "crawl", phase' = phase,
         request[u] # Crawl!Done, request' = [request EXCEPT ![u] = now],
         strays' \in [Pages -> SUBSET Crawl!Attempts],
         UNCHANGED <<deadline, profile, calls, mishaps>>,
         \/ UNCHANGED <<rows, finalized>> /\ (now = Crawl!Done \/ now.attempt \in Crawl!Attempts)
         \/ /\ now = Crawl!Done /\ finalized' = finalized \cup {u}
            /\ \/ rows' = rows /\ u \in finalized
               \/ rows' = Crawl!WithRow(u, "answer")
               \/ rows' = Crawl!WithRow(u, "failed") /\ u \notin finalized
  PROVE  RowsInv'
<1>1. /\ CrawlTyped /\ OpenRequests /\ finalized = {v \in Pages : rows[v] # <<>>}
      /\ OnlyStrays(rows[u])
  BY DEF RowsInv, RowsKnown, OpenRequests
<1>2. request' \in [Pages -> CrawlStates]
  BY <1>1 DEF CrawlTyped
<1>3. request'[u] = now /\ \A v \in Pages : v # u => request'[v] = request[v]
  BY <1>1 DEF CrawlTyped
<1>4. CASE UNCHANGED <<rows, finalized>> /\ (now = Crawl!Done \/ now.attempt \in Crawl!Attempts)
  <2>1. finalized' = finalized
    BY <1>4
  <2>2. now = Crawl!Done \/ now.attempt \in Crawl!Attempts
    BY <1>4
  <2>3. CrawlTyped' /\ RowsKnown'
    BY <1>1, <1>2, <1>4, <2>1 DEF CrawlTyped, RowsKnown
  <2>4. \A v \in Pages : request'[v] # Crawl!Done =>
           /\ phase' = "crawl" /\ request'[v].attempt \in Crawl!Attempts
           /\ request[v] # Crawl!Done \/ rows[v] = <<>>
    BY <1>1, <1>3, <2>2 DEF OpenRequests
  <2> QED BY <1>4, <2>3, <2>4, RowsStay
<1>5. ASSUME NEW kind \in {"answer", "failed"}, rows' = Crawl!WithRow(u, kind),
             kind = "failed" => u \notin finalized, finalized' = finalized \cup {u},
             now = Crawl!Done
      PROVE  RowsInv'
  <2> DEFINE U == {u}
  <2>1. rows' = [v \in Pages |-> IF v \in U THEN Append(rows[v], kind) ELSE rows[v]]
    BY <1>1, <1>5 DEF Crawl!WithRow, CrawlTyped
  <2>2. U \in SUBSET Pages /\ \A v \in U : rows[v] = rows[u]
    OBVIOUS
  <2>3. kind \in Crawl!RowKinds /\ (kind = "answer" \/ rows[u] = <<>>)
    BY <1>1, <1>5 DEF Crawl!RowKinds
  <2>4. /\ rows' \in [Pages -> Seq(Crawl!RowKinds)] /\ \A v \in Pages : Explained(rows'[v])
        /\ \A v \in Pages : rows'[v] # <<>> <=> v \in {u} \/ rows[v] # <<>>
    <3>1. \A v \in U : \/ kind = "stray" \/ rows[v] = <<>>
                       \/ kind = "answer" /\ OnlyStrays(rows[v])
      BY <1>1, <2>2, <2>3
    <3>2. \A v : v \in U <=> v \in {u}
      OBVIOUS
    <3> HIDE DEF U
    <3>3. /\ rows' \in [Pages -> Seq(Crawl!RowKinds)] /\ \A v \in Pages : Explained(rows'[v])
          /\ \A v \in Pages : rows'[v] # <<>> <=> v \in U \/ rows[v] # <<>>
      BY <2>1, <2>2, <2>3, <3>1, RowsWritten
    <3> QED BY <3>2, <3>3
  <2>5. CrawlTyped' /\ RowsKnown'
    BY <1>1, <1>2, <1>5, <2>4 DEF CrawlTyped, RowsKnown
  <2>6. Crawl!RowsExplained'
    BY <2>4, SameCardinality DEF Crawl!RowsExplained, Crawl!StrayRows, Crawl!HasRow, Explained
  <2>7. \A v \in Pages : v # u => rows'[v] = rows[v]
    BY <2>1
  <2>8. OpenRequests'
    BY <1>1, <1>3, <1>5, <2>7 DEF OpenRequests
  <2> QED BY <2>5, <2>6, <2>8 DEF RowsInv
<1>6. CASE UNCHANGED <<rows, finalized>> /\ now = Crawl!Done
  BY <1>4, <1>6
<1> QED BY <1>1, <1>4, <1>5, <1>6

\* What an open request can become.
LEMMA RequestForms ==
  ASSUME CrawlTyped, OpenRequests, NEW u \in Pages, request[u] # Crawl!Done
  PROVE  /\ request[u].attempt \in Crawl!Attempts /\ request[u] \in CrawlStates
         /\ Crawl!Done \in CrawlStates
         /\ request[u].attempt < MaxAttempts =>
              /\ Crawl!Queued(request[u].attempt + 1) \in CrawlStates
              /\ Crawl!Queued(request[u].attempt + 1).attempt \in Crawl!Attempts
         /\ \A at0 \in {"page", "cookies"} :
              /\ [request[u] EXCEPT !.at = at0] \in CrawlStates
              /\ [request[u] EXCEPT !.at = at0].attempt \in Crawl!Attempts
<1>1. request[u].attempt \in Crawl!Attempts /\ request[u] \in CrawlStates
  BY DEF OpenRequests, CrawlTyped
<1>2. MaxAttempts \in Nat
  BY CrawlNumbers DEF Crawl!Numbers
<1>3. Crawl!Done \in CrawlStates
  BY DEF Crawl!Done, CrawlStates
<1>4. request[u].attempt < MaxAttempts => request[u].attempt + 1 \in Crawl!Attempts
  BY <1>1, <1>2 DEF Crawl!Attempts
<1>5. \A n \in Crawl!Attempts : Crawl!Queued(n) \in CrawlStates /\ Crawl!Queued(n).attempt = n
  BY DEF Crawl!Queued, CrawlStates
<1>6. \A at0 \in {"page", "cookies"} :
         /\ [request[u] EXCEPT !.at = at0] \in CrawlStates
         /\ [request[u] EXCEPT !.at = at0].attempt \in Crawl!Attempts
  BY <1>1 DEF CrawlStates
<1> QED BY <1>1, <1>3, <1>4, <1>5, <1>6

\* A handler that the crawler still waits for concludes.
LEMMA ConcludeKeeps ==
  ASSUME RowsInv, NEW u \in Pages, NEW kind, request[u] # Crawl!Done, Crawl!Conclude(u, kind),
         UNCHANGED <<phase, strays, deadline, profile, calls, mishaps>>
  PROVE  RowsInv'
<1>1. CrawlTyped /\ OpenRequests /\ phase = "crawl"
  BY DEF RowsInv, OpenRequests
<1>2. CASE Crawl!Retryable(kind, request[u].attempt)
  <2>1. /\ request[u].attempt < MaxAttempts
        /\ request' = [request EXCEPT ![u] = Crawl!Queued(request[u].attempt + 1)]
        /\ UNCHANGED <<rows, finalized>>
    BY <1>2 DEF Crawl!Conclude, Crawl!Retryable
  <2> QED BY <1>1, <2>1, RequestForms, RequestMoves DEF CrawlTyped
<1>3. CASE ~Crawl!Retryable(kind, request[u].attempt)
  <2>1. /\ request' = [request EXCEPT ![u] = Crawl!Done] /\ rows' = Crawl!WithRow(u, "answer")
        /\ finalized' = finalized \cup {u}
    BY <1>3 DEF Crawl!Conclude
  <2> QED BY <1>1, <2>1, RequestForms, RequestMoves DEF CrawlTyped
<1> QED BY <1>2, <1>3

LEMMA HandlersKeep ==
  ASSUME RowsInv, NEW u \in Pages, Crawl!Step(u)
  PROVE  RowsInv'
<1>1. CrawlTyped /\ OpenRequests
  BY DEF RowsInv
<1>2. /\ request[u] # Crawl!Done /\ phase' = phase
      /\ UNCHANGED <<deadline, profile, calls, mishaps>>
  BY DEF Crawl!Step, Crawl!Visit, Crawl!Loaded, Crawl!Sampled, Crawl!Fails, Crawl!In,
         Crawl!InFlight,
         Crawl!Done, Crawl!counters
<1>3. phase = "crawl"
  BY <1>1, <1>2 DEF OpenRequests
<1>4. CASE Crawl!Visit(u)
  <2>1. request' = [request EXCEPT ![u].at = "page"] /\ UNCHANGED <<rows, finalized, strays>>
    BY <1>4 DEF Crawl!Visit
  <2>2. request' = [request EXCEPT ![u] = [request[u] EXCEPT !.at = "page"]]
    BY <2>1
  <2> QED BY <1>1, <1>2, <1>3, <2>1, <2>2, RequestForms, RequestMoves DEF CrawlTyped
<1>5. ASSUME NEW kind \in Crawl!Kinds, Crawl!Loaded(u, kind) PROVE RowsInv'
  <2>1. CASE Crawl!Conclude(u, kind)
    BY <1>2, <1>5, <2>1, ConcludeKeeps DEF Crawl!Loaded
  <2>2. CASE /\ request' = [request EXCEPT ![u].at = "cookies"]
             /\ UNCHANGED <<rows, finalized>>
    <3>1. /\ request' = [request EXCEPT ![u] = [request[u] EXCEPT !.at = "cookies"]]
          /\ strays' = strays
      BY <1>5, <2>2 DEF Crawl!Loaded
    <3> QED BY <1>1, <1>2, <1>3, <2>2, <3>1, RequestForms, RequestMoves DEF CrawlTyped
  <2> QED BY <1>5, <2>1, <2>2 DEF Crawl!Loaded
<1>6. CASE Crawl!Sampled(u)
  BY <1>2, <1>6, ConcludeKeeps DEF Crawl!Sampled
<1>7. CASE Crawl!Fails(u)
  <2>1. strays' \in [Pages -> SUBSET Crawl!Attempts]
    <3>1. request[u].attempt \in Crawl!Attempts
      BY <1>1, <1>2, RequestForms
    <3> QED BY <1>1, <1>7, <3>1 DEF Crawl!Fails, Crawl!Strayed, Crawl!In, CrawlTyped
  <2>2. CASE request[u].attempt < MaxAttempts
    <3>1. /\ request' = [request EXCEPT ![u] = Crawl!Queued(request[u].attempt + 1)]
          /\ UNCHANGED <<rows, finalized>>
      BY <1>1, <1>7, <2>2 DEF Crawl!Fails, CrawlTyped
    <3> QED BY <1>1, <1>2, <1>3, <2>1, <2>2, <3>1, RequestForms, RequestMoves
  <2>3. CASE ~(request[u].attempt < MaxAttempts)
    <3>1. /\ request' = [request EXCEPT ![u] = Crawl!Done] /\ finalized' = finalized \cup {u}
          /\ rows' = IF u \in finalized THEN rows ELSE Crawl!WithRow(u, "failed")
      BY <1>7, <2>3 DEF Crawl!Fails, Crawl!Failed
    <3> QED BY <1>1, <1>2, <1>3, <2>1, <3>1, RequestForms, RequestMoves
  <2> QED BY <2>2, <2>3
<1> QED BY <1>4, <1>5, <1>6, <1>7 DEF Crawl!Step

\* A handler that was given up on writes its row.
LEMMA StrayKeeps ==
  ASSUME RowsInv, NEW u \in Pages, Crawl!Stray(u)
  PROVE  RowsInv'
<1>1. PICK n \in strays[u] :
        /\ strays' = [strays EXCEPT ![u] = @ \ {n}]
        /\ \/ UNCHANGED <<rows, finalized>>
           \/ rows' = Crawl!WithRow(u, "stray") /\ finalized' = finalized \cup {u}
  BY DEF Crawl!Stray
<1>2. CrawlTyped /\ OpenRequests /\ RowsKnown
      /\ UNCHANGED <<phase, request, deadline, profile, calls, mishaps>>
  BY DEF RowsInv, Crawl!Stray, Crawl!counters
<1>3. strays' \in [Pages -> SUBSET Crawl!Attempts]
  BY <1>1, <1>2 DEF CrawlTyped
<1>4. CASE UNCHANGED <<rows, finalized>>
  <2>1. CrawlTyped' /\ RowsKnown'
    BY <1>2, <1>3, <1>4 DEF CrawlTyped, RowsKnown
  <2> QED BY <1>2, <1>4, <2>1, RowsStay DEF OpenRequests
<1>5. CASE rows' = Crawl!WithRow(u, "stray") /\ finalized' = finalized \cup {u}
  <2>1. rows' = [v \in Pages |-> IF v \in {u} THEN Append(rows[v], "stray") ELSE rows[v]]
    BY <1>2, <1>5 DEF Crawl!WithRow, CrawlTyped
  <2>2. /\ rows' \in [Pages -> Seq(Crawl!RowKinds)]
        /\ \A v \in Pages : Explained(rows'[v]) /\ (OnlyStrays(rows[v]) => OnlyStrays(rows'[v]))
        /\ \A v \in Pages : rows'[v] # <<>> <=> v \in {u} \/ rows[v] # <<>>
    BY <2>1, RowsWritten DEF Crawl!RowKinds
  <2>3. CrawlTyped' /\ RowsKnown'
    BY <1>2, <1>3, <1>5, <2>2 DEF CrawlTyped, RowsKnown
  <2>4. Crawl!RowsExplained'
    <3>1. phase = "exit" => \A v \in Pages : rows[v] # <<>>
      BY RowsParts DEF RowsInv
    <3> QED BY <1>2, <2>2, <3>1, SameCardinality
        DEF Crawl!RowsExplained, Crawl!StrayRows, Crawl!HasRow, Explained
  <2>5. OpenRequests'
    BY <1>2, <2>2 DEF OpenRequests
  <2> QED BY <2>3, <2>4, <2>5 DEF RowsInv
<1> QED BY <1>1, <1>4, <1>5

LEMMA RowsKeep == RowsInv /\ [Crawl!Next]_crawl => RowsInv'
<1>1. ASSUME RowsInv, UNCHANGED crawl PROVE RowsInv'
  <2>1. UNCHANGED <<phase, rows, finalized, request, strays, deadline, profile, calls, mishaps>>
    BY <1>1 DEF crawl
  <2>2. CrawlTyped' /\ RowsKnown'
    BY <1>1, <2>1 DEF RowsInv, CrawlTyped, RowsKnown
  <2> QED BY <1>1, <2>1, <2>2, RowsStay DEF RowsInv, OpenRequests
<1> QED BY <1>1, BeginningKeeps, ProfilesKeep, EndingKeeps, FillingKeeps, HandlersKeep, StrayKeeps
        DEF Crawl!Next, Crawl!Main

-----------------------------------------------------------------------------
(* The profiles.                                                           *)

\* A profile that is put in place has a session, the place is free while that is done, and
\* an old profile stays aside only after a mishap.
ProfilesInv ==
  /\ phase \in {"promote", "aside"} => profile.source = "session"
  /\ phase = "aside" => profile.target = "absent"
  /\ phase # "aside" /\ profile.backup # "absent" => mishaps > 0

\* What the step of SessionSurvives says.
Survives ==
  Crawl!HeldIn({"target", "backup"}) =>
    \/ Crawl!HeldIn({"target", "backup"})'
    \/ /\ mishaps > 0 /\ ~Crawl!HeldIn({"target"})
       /\ phase' = "aside" /\ Crawl!HeldIn({"source"})'

LEMMA ProfilesInits == Crawl!Init => ProfilesInv
BY DEF Crawl!Init, ProfilesInv, Profiles, Crawl!Contents

\* What the steps of a call do to the profiles.
LEMMA ProfileSteps ==
  ASSUME [Crawl!Next]_crawl, profile \in Profiles
  PROVE  \/ profile' = profile /\ phase' = phase /\ mishaps' = mishaps
         \/ profile' = profile /\ phase' \notin {"promote", "aside"} /\ mishaps' = mishaps
            /\ phase # "aside"
         \/ profile' = profile /\ phase' = "ended" /\ mishaps' = mishaps + 1
         \/ /\ phase = "start" /\ phase' \notin {"promote", "aside"} /\ mishaps' = mishaps
            /\ profile'.target = IF profile.target = "absent" THEN "empty" ELSE profile.target
            /\ profile'.source \in {profile.source, "empty"} /\ profile'.backup = profile.backup
         \/ /\ phase = "login" /\ phase' = "crawl" /\ mishaps' = mishaps
            /\ profile' = [profile EXCEPT !.target = "session"]
         \/ /\ phase \in {"sms", "verify"} /\ phase' = "promote" /\ mishaps' = mishaps
            /\ profile' = [profile EXCEPT !.source = "session"]
         \/ phase = "promote" /\ phase' = "aside" /\ mishaps' = mishaps
            /\ profile' = [profile EXCEPT !.backup = profile.target, !.target = "absent"]
         \/ /\ phase = "aside" /\ phase' = "ended" /\ mishaps' = mishaps
            /\ profile' = [target |-> profile.source, source |-> "absent", backup |-> "absent"]
         \/ /\ phase = "aside" /\ phase' = "ended" /\ mishaps' = mishaps + 1
            /\ profile' = [profile EXCEPT !.target = profile.backup, !.backup = "absent"]
<1>1. CASE UNCHANGED crawl
  BY <1>1 DEF crawl
<1>2. CASE Crawl!LoadCompleted
  <2>1. phase = "start" /\ mishaps' = mishaps /\ phase' \in {"refused", "login", "sms"}
    BY <1>2 DEF Crawl!LoadCompleted, Crawl!Modes, Crawl!counters
  <2> DEFINE there == IF profile.target = "absent" THEN "empty" ELSE profile.target
             held == [profile EXCEPT !.target = there]
  <2>2. profile' = profile \/ profile' = held \/ profile' = [held EXCEPT !.source = "empty"]
    BY <1>2 DEF Crawl!LoadCompleted
  <2>3. /\ held.target = there /\ held.source = profile.source /\ held.backup = profile.backup
        /\ [held EXCEPT !.source = "empty"].target = there
        /\ [held EXCEPT !.source = "empty"].source = "empty"
        /\ [held EXCEPT !.source = "empty"].backup = profile.backup
    BY DEF Profiles
  <2> HIDE DEF held
  <2>4. \/ profile' = profile
        \/ /\ profile'.target = there /\ profile'.backup = profile.backup
           /\ profile'.source \in {profile.source, "empty"}
    BY <2>2, <2>3
  <2> QED BY <2>1, <2>4
<1>3. CASE Crawl!LoggedIn \/ Crawl!NotLoggedIn
  BY <1>3 DEF Crawl!LoggedIn, Crawl!NotLoggedIn, Crawl!counters
<1>4. CASE Crawl!SmsStep
  BY <1>4 DEF Crawl!SmsStep, Crawl!SmsSent, Crawl!SmsEntered, Crawl!SmsLoggedIn, Crawl!SmsFailed,
              Crawl!counters
<1>5. CASE Crawl!SetAside \/ Crawl!Promote \/ Crawl!RenameFails
  BY <1>5 DEF Crawl!SetAside, Crawl!PutAside, Crawl!Promote, Crawl!RenameFails, Crawl!counters
<1>6. CASE Crawl!RunReturns \/ Crawl!Fill \/ Crawl!Exit \/ Crawl!Deadline \/ Crawl!Again
  BY <1>6 DEF Crawl!RunReturns, Crawl!Fill, Crawl!Exit, Crawl!Deadline, Crawl!Again, Crawl!counters
<1>7. CASE Crawl!Killed
  BY <1>7 DEF Crawl!Killed
<1>8. CASE \E u \in Pages : Crawl!Step(u) \/ Crawl!Stray(u)
  BY <1>8 DEF Crawl!Step, Crawl!Stray, Crawl!Visit, Crawl!Loaded, Crawl!Sampled, Crawl!Fails,
              Crawl!counters
<1> QED BY <1>1, <1>2, <1>3, <1>4, <1>5, <1>6, <1>7, <1>8 DEF Crawl!Next, Crawl!Main

LEMMA ProfilesStay ==
  ASSUME CrawlTyped, CrawlTyped', ProfilesInv, [Crawl!Next]_crawl
  PROVE  ProfilesInv' /\ Survives
<1>1. profile \in Profiles /\ profile' \in Profiles /\ mishaps \in Nat /\ mishaps' \in Nat
  BY DEF CrawlTyped
<1>2. /\ Crawl!HeldIn({"target", "backup"})
           <=> profile.target = "session" \/ profile.backup = "session"
      /\ Crawl!HeldIn({"target", "backup"})'
           <=> profile'.target = "session" \/ profile'.backup = "session"
      /\ Crawl!HeldIn({"target"}) <=> profile.target = "session"
      /\ Crawl!HeldIn({"source"})' <=> profile'.source = "session"
  BY <1>1 DEF Crawl!HeldIn
<1> DEFINE Move(t, s, b) == profile'.target = t /\ profile'.source = s /\ profile'.backup = b
<1>3. /\ profile' = profile => Move(profile.target, profile.source, profile.backup)
      /\ profile' = [profile EXCEPT !.target = "session"]
           => Move("session", profile.source, profile.backup)
      /\ profile' = [profile EXCEPT !.source = "session"]
           => Move(profile.target, "session", profile.backup)
      /\ profile' = [profile EXCEPT !.backup = profile.target, !.target = "absent"]
           => Move("absent", profile.source, profile.target)
      /\ profile' = [target |-> profile.source, source |-> "absent", backup |-> "absent"]
           => Move(profile.source, "absent", "absent")
      /\ profile' = [profile EXCEPT !.target = profile.backup, !.backup = "absent"]
           => Move(profile.backup, profile.source, "absent")
  <2>1. ASSUME profile' = profile
       PROVE  Move(profile.target, profile.source, profile.backup)
    BY <1>1, <2>1 DEF Profiles
  <2>2. ASSUME profile' = [profile EXCEPT !.target = "session"]
       PROVE  Move("session", profile.source, profile.backup)
    BY <1>1, <2>2 DEF Profiles
  <2>3. ASSUME profile' = [profile EXCEPT !.source = "session"]
       PROVE  Move(profile.target, "session", profile.backup)
    BY <1>1, <2>3 DEF Profiles
  <2>4. ASSUME profile' = [profile EXCEPT !.backup = profile.target, !.target = "absent"]
       PROVE  Move("absent", profile.source, profile.target)
    BY <1>1, <2>4 DEF Profiles
  <2>5. ASSUME profile' = [target |-> profile.source, source |-> "absent", backup |-> "absent"]
       PROVE  Move(profile.source, "absent", "absent")
    BY <1>1, <2>5 DEF Profiles
  <2>6. ASSUME profile' = [profile EXCEPT !.target = profile.backup, !.backup = "absent"]
       PROVE  Move(profile.backup, profile.source, "absent")
    BY <1>1, <2>6 DEF Profiles
  <2> QED BY <2>1, <2>2, <2>3, <2>4, <2>5, <2>6
<1>4. ProfilesInv'
  BY <1>1, <1>3, ProfileSteps DEF ProfilesInv
<1>5. Survives
  BY <1>1, <1>2, <1>3, ProfileSteps DEF ProfilesInv, Survives
<1> QED BY <1>4, <1>5

\* throughput.ts, promoteBootstrappedProfile: wherever a mishap strikes, no step leaves
\* the profiles in use and aside without the session they had, unless it puts another one
\* in its place after an earlier mishap.
THEOREM SessionsSurvive == CommandSpec => SessionSurvives
<1>1. CommandInit => RowsInv /\ ProfilesInv
  BY RowsInits, ProfilesInits DEF CommandInit
<1>2. RowsInv /\ ProfilesInv /\ [CommandNext]_all => (RowsInv /\ ProfilesInv)'
  BY StepsOfCommands, RowsKeep, ProfilesStay DEF RowsInv
<1>3. RowsInv /\ ProfilesInv /\ [CommandNext]_all =>
        [Crawl!HeldIn({"target", "backup"}) =>
            \/ Crawl!HeldIn({"target", "backup"})'
            \/ /\ mishaps > 0 /\ ~Crawl!HeldIn({"target"})
               /\ phase' = "aside" /\ Crawl!HeldIn({"source"})']_(Crawl!crawl)
  BY <1>2, StepsOfCommands, ProfilesStay DEF RowsInv, Survives
<1> QED BY <1>1, <1>2, <1>3, PTL DEF CommandSpec, SessionSurvives, Crawl!SessionSurvives

-----------------------------------------------------------------------------
(* The samples of bad answers.                                             *)

\* A handler that is about to write its sample: of an open request or a stray one.
Holds(u, n) == n \in strays[u] \/ (request[u].at = "cookies" /\ request[u].attempt = n)
Holding == {h \in Pages \X Crawl!Attempts : Holds(h[1], h[2])}

\* A stray handler's attempt is an earlier one than that which is open.
StraysBefore ==
  /\ \A u \in Pages : request[u] # Crawl!Done => \A n \in strays[u] : n < request[u].attempt
  /\ phase \notin {"crawl", "fill", "exit"} => \A u \in Pages : strays[u] = {}

\* What is counted is written or still held.
SamplesCounted ==
  /\ sampled \in 0..Samples /\ samples \in Nat
  /\ samples + Cardinality(Holding) <= sampled

SamplesInv == RowsInv /\ StraysBefore /\ SamplesCounted

LEMMA HoldingFinite == IsFiniteSet(Holding) /\ Cardinality(Holding) \in Nat
<1>1. IsFiniteSet(Pages)
  BY CrawlNumbers, SameFinite DEF Crawl!Numbers
<1>2. IsFiniteSet(Crawl!Attempts)
  <2>1. MaxAttempts \in Nat
    BY CrawlNumbers DEF Crawl!Numbers
  <2> QED BY <2>1, FS_Interval DEF Crawl!Attempts
<1>3. IsFiniteSet(Pages \X Crawl!Attempts)
  BY <1>1, <1>2, FS_Product
<1>4. Holding \subseteq Pages \X Crawl!Attempts
  BY DEF Holding
<1> QED BY <1>3, <1>4, FS_Subset, FS_CardinalityType

LEMMA HoldingFiniteNext == IsFiniteSet(Holding') /\ Cardinality(Holding') \in Nat
<1>1. IsFiniteSet(Pages)
  BY CrawlNumbers, SameFinite DEF Crawl!Numbers
<1>2. IsFiniteSet(Crawl!Attempts)
  <2>1. MaxAttempts \in Nat
    BY CrawlNumbers DEF Crawl!Numbers
  <2> QED BY <2>1, FS_Interval DEF Crawl!Attempts
<1>3. IsFiniteSet(Pages \X Crawl!Attempts)
  BY <1>1, <1>2, FS_Product
<1>4. Holding' \subseteq Pages \X Crawl!Attempts
  BY DEF Holding
<1> QED BY <1>3, <1>4, FS_Subset, FS_CardinalityType

\* A step after which no other handler holds a sample.
LEMMA NoneMoreHeld ==
  ASSUME SamplesCounted, UNCHANGED <<sampled, samples>>, Holding' \subseteq Holding
  PROVE  SamplesCounted'
<1>1. Cardinality(Holding') <= Cardinality(Holding)
  BY HoldingFinite, FS_Subset
<1> QED BY <1>1, HoldingFinite, HoldingFiniteNext DEF SamplesCounted

\* A sample is counted.
LEMMA OneMoreHeld ==
  ASSUME SamplesCounted, sampled < Samples, sampled' = sampled + 1, samples' = samples, NEW h,
         Holding' \subseteq Holding \cup {h}
  PROVE  SamplesCounted'
<1>1. IsFiniteSet(Holding \cup {h}) /\ Cardinality(Holding \cup {h}) <= Cardinality(Holding) + 1
  BY HoldingFinite, FS_AddElement
<1>2. Cardinality(Holding') <= Cardinality(Holding \cup {h})
  BY <1>1, FS_Subset
<1>3. Cardinality(Holding \cup {h}) \in Nat
  BY <1>1, FS_CardinalityType
<1>4. Samples \in Nat
  BY CrawlNumbers DEF Crawl!Numbers
<1> QED BY <1>1, <1>2, <1>3, <1>4, HoldingFinite, HoldingFiniteNext DEF SamplesCounted

\* A sample is written.
LEMMA OneWritten ==
  ASSUME SamplesCounted, sampled' = sampled, samples' = samples + 1, NEW h \in Holding,
         Holding' \subseteq Holding \ {h}
  PROVE  SamplesCounted'
<1>1. IsFiniteSet(Holding \ {h}) /\ Cardinality(Holding \ {h}) = Cardinality(Holding) - 1
  BY HoldingFinite, FS_RemoveElement
<1>2. Cardinality(Holding') <= Cardinality(Holding \ {h})
  BY <1>1, FS_Subset
<1>3. Cardinality(Holding \ {h}) \in Nat
  BY <1>1, FS_CardinalityType
<1> QED BY <1>1, <1>2, <1>3, HoldingFinite, HoldingFiniteNext DEF SamplesCounted

\* Whatever is held is held of a URL in an attempt.
LEMMA HeldBy ==
  ASSUME NEW old, (\A u \in Pages, n \in Crawl!Attempts : Holds(u, n)' => <<u, n>> \in old)
  PROVE  Holding' \subseteq old
BY DEF Holding, Holds

LEMMA IsHeld ==
  \A u \in Pages, n \in Crawl!Attempts : <<u, n>> \in Holding <=> Holds(u, n)
BY DEF Holding

LEMMA NothingAdded == \A m, n \in Nat : \A k : m <= n /\ k = 0 => m + k <= n
OBVIOUS

\* Nothing is held.
LEMMA NothingHeld ==
  ASSUME \A u \in Pages : strays'[u] = {} /\ request'[u].at # "cookies",
         sampled' \in 0..Samples, samples' \in Nat, samples' <= sampled'
  PROVE  SamplesCounted'
<1>1. \A u \in Pages, n \in Crawl!Attempts : ~ Holds(u, n)'
  BY DEF Holds
<1>2. Holding' = {}
  BY <1>1, HeldBy
<1>3. Cardinality(Holding') = 0
  BY <1>2, FS_EmptySet
<1>4. Samples \in Nat
  BY CrawlNumbers DEF Crawl!Numbers
<1>5. samples' + Cardinality(Holding') <= sampled'
  <2>1. sampled' \in Nat /\ samples' \in Nat
    BY <1>4
  <2> QED BY <1>3, <2>1, NothingAdded
<1> QED BY <1>5 DEF SamplesCounted

LEMMA SamplesInits == Crawl!Init => StraysBefore /\ SamplesCounted
<1> SUFFICES ASSUME Crawl!Init PROVE StraysBefore /\ SamplesCounted
  OBVIOUS
<1>1. /\ sampled = 0 /\ samples = 0 /\ strays = [u \in Pages |-> {}]
      /\ request = [u \in Pages |-> Crawl!Done]
  BY DEF Crawl!Init
<1>2. Holding = {}
  BY <1>1 DEF Holding, Holds, Crawl!Done
<1>3. Cardinality(Holding) = 0
  BY <1>2, FS_EmptySet
<1>4. Samples \in Nat
  BY CrawlNumbers DEF Crawl!Numbers
<1> QED BY <1>1, <1>3, <1>4 DEF StraysBefore, SamplesCounted

\* A step outside the handlers.
LEMMA OthersHold ==
  ASSUME SamplesInv, UNCHANGED <<sampled, samples, request, strays>>,
         phase' \notin {"crawl", "fill", "exit"} => phase \notin {"crawl", "fill", "exit"}
  PROVE  StraysBefore' /\ SamplesCounted'
<1>1. SamplesCounted'
  BY NoneMoreHeld DEF SamplesInv, Holding, Holds
<1>2. StraysBefore'
  BY DEF SamplesInv, StraysBefore
<1> QED BY <1>1, <1>2

LEMMA MainHolds ==
  ASSUME SamplesInv, \/ Crawl!LoadCompleted \/ Crawl!NotLoggedIn \/ Crawl!SmsStep \/ Crawl!SetAside
                     \/ Crawl!Promote \/ Crawl!RenameFails \/ Crawl!Again \/ Crawl!Deadline
                     \/ Crawl!Fill
  PROVE  StraysBefore' /\ SamplesCounted'
<1>1. UNCHANGED <<sampled, samples, request, strays>>
  BY DEF Crawl!LoadCompleted, Crawl!NotLoggedIn, Crawl!SmsStep, Crawl!SmsSent, Crawl!SmsEntered,
         Crawl!SmsLoggedIn, Crawl!SmsFailed, Crawl!SetAside, Crawl!Promote, Crawl!RenameFails,
         Crawl!Again, Crawl!Deadline, Crawl!Fill, Crawl!progress, Crawl!diagnostics
<1>2. phase' \notin {"crawl", "fill", "exit"} => phase \notin {"crawl", "fill", "exit"}
  BY DEF Crawl!LoadCompleted, Crawl!NotLoggedIn, Crawl!SmsStep, Crawl!SmsSent, Crawl!SmsEntered,
         Crawl!SmsLoggedIn, Crawl!SmsFailed, Crawl!SetAside, Crawl!Promote, Crawl!RenameFails,
         Crawl!Again, Crawl!Deadline, Crawl!Fill, Crawl!Modes
<1> QED BY <1>1, <1>2, OthersHold

\* The crawler begins, and the process ends.
LEMMA EndsHold ==
  ASSUME SamplesInv, Crawl!LoggedIn \/ Crawl!Exit \/ Crawl!Killed
  PROVE  StraysBefore' /\ SamplesCounted'
<1>1. /\ \A u \in Pages : strays'[u] = {}
      /\ \A u \in Pages : request'[u] \in {Crawl!Done, Crawl!Queued(1)}
      /\ UNCHANGED <<sampled, samples>> \/ (sampled' = 0 /\ samples' = 0)
  BY DEF SamplesInv, StraysBefore, Crawl!LoggedIn, Crawl!Exit, Crawl!Killed, Crawl!Forget,
         Crawl!diagnostics
<1>2. \A u \in Pages : request'[u].at # "cookies"
  BY <1>1 DEF Crawl!Done, Crawl!Queued
<1>3. sampled' \in 0..Samples /\ samples' \in Nat /\ samples' <= sampled'
  <2>1. Samples \in Nat
    BY CrawlNumbers DEF Crawl!Numbers
  <2>2. sampled \in 0..Samples /\ samples \in Nat /\ samples <= sampled
    BY HoldingFinite DEF SamplesInv, SamplesCounted
  <2> QED BY <1>1, <2>1, <2>2
<1>4. SamplesCounted'
  BY <1>1, <1>2, <1>3, NothingHeld
<1>6. StraysBefore'
  BY <1>1 DEF StraysBefore
<1> QED BY <1>4, <1>6

\* What is held when the handlers of some requests are given up on.
LEMMA HeldByStrays ==
  ASSUME CrawlTyped, NEW U \in SUBSET Pages, NEW u \in Pages, NEW n,
         n \in Crawl!Strayed(U)[u]
  PROVE  Holds(u, n)
BY DEF Crawl!Strayed, Crawl!In, Holds

LEMMA RunReturnsHolds ==
  ASSUME SamplesInv, Crawl!RunReturns
  PROVE  StraysBefore' /\ SamplesCounted'
<1>1. /\ phase' = "fill" /\ strays' = Crawl!Strayed(Pages) /\ UNCHANGED <<sampled, samples>>
      /\ request' = [u \in Pages |-> Crawl!Done] /\ CrawlTyped
  BY DEF SamplesInv, RowsInv, Crawl!RunReturns, Crawl!diagnostics
<1>2. \A u \in Pages, n \in Crawl!Attempts : Holds(u, n)' => <<u, n>> \in Holding
  <2> SUFFICES ASSUME NEW u \in Pages, NEW n \in Crawl!Attempts, Holds(u, n)'
               PROVE  Holds(u, n)
    BY IsHeld
  <2>1. n \in strays'[u]
    BY <1>1 DEF Holds, Crawl!Done
  <2> QED BY <1>1, <2>1, HeldByStrays
<1>3. SamplesCounted'
  BY <1>1, <1>2, HeldBy, NoneMoreHeld DEF SamplesInv
<1>4. StraysBefore'
  BY <1>1 DEF StraysBefore
<1> QED BY <1>3, <1>4

\* The handler of an open request goes on: the request gets another state, of the same
\* attempt or, when it is tried again or over, of a later one or none.
LEMMA MovesHold ==
  ASSUME SamplesInv, NEW u \in Pages, request[u] # Crawl!Done, NEW now \in CrawlStates,
         request' = [request EXCEPT ![u] = now], phase' = phase,
         now = Crawl!Done \/ now.attempt >= request[u].attempt,
         \A v \in Pages \ {u} : strays'[v] = strays[v],
         \A n \in strays'[u] : n \in strays[u] \/ now = Crawl!Done \/ n < now.attempt
  PROVE  /\ StraysBefore'
         /\ \A n : \A v \in Pages \ {u} : Holds(v, n)' <=> Holds(v, n)
         /\ request'[u] = now
<1>1. CrawlTyped /\ OpenRequests /\ StraysBefore
  BY DEF SamplesInv, RowsInv
<1>2. request'[u] = now /\ \A v \in Pages \ {u} : request'[v] = request[v]
  BY <1>1 DEF CrawlTyped
<1>3. \A n : \A v \in Pages \ {u} : Holds(v, n)' <=> Holds(v, n)
  BY <1>2 DEF Holds
<1>4. phase' = "crawl"
  BY <1>1 DEF OpenRequests
<1>5. now.attempt \in Nat
  <2>1. MaxAttempts \in Nat
    BY CrawlNumbers DEF Crawl!Numbers
  <2> QED BY <2>1 DEF CrawlStates, Crawl!Attempts
<1>6. \A n \in strays'[u] : now # Crawl!Done => n < now.attempt
  <2> SUFFICES ASSUME NEW n \in strays[u], now # Crawl!Done, now.attempt >= request[u].attempt
               PROVE  n < now.attempt
    OBVIOUS
  <2>1. n < request[u].attempt /\ n \in Int /\ request[u].attempt \in Int
    BY <1>1 DEF StraysBefore, CrawlTyped, OpenRequests, Crawl!Attempts
  <2>2. now.attempt \in Int
    BY <1>5
  <2> QED BY <2>1, <2>2
<1>7. StraysBefore'
  BY <1>1, <1>2, <1>4, <1>6 DEF StraysBefore
<1> QED BY <1>2, <1>3, <1>7

\* What an open request can become, and in which attempt.
LEMMA NextForms ==
  ASSUME CrawlTyped, OpenRequests, NEW u \in Pages, request[u] # Crawl!Done, NEW now,
         \/ now = Crawl!Done
         \/ request[u].attempt < MaxAttempts /\ now = Crawl!Queued(request[u].attempt + 1)
         \/ \E at0 \in {"page", "cookies"} : now = [request[u] EXCEPT !.at = at0]
  PROVE  /\ now \in CrawlStates /\ request[u].attempt \in Nat
         /\ now = Crawl!Done \/ now.attempt >= request[u].attempt
         /\ now = Crawl!Queued(request[u].attempt + 1) => now.attempt = request[u].attempt + 1
<1>1. request[u].attempt \in Nat /\ request[u] \in CrawlStates
  <2>1. MaxAttempts \in Nat
    BY CrawlNumbers DEF Crawl!Numbers
  <2> QED BY <2>1 DEF OpenRequests, CrawlTyped, Crawl!Attempts
<1>2. now \in CrawlStates
  BY RequestForms
<1>3. ASSUME NEW at0, now = [request[u] EXCEPT !.at = at0] PROVE now.attempt = request[u].attempt
  BY <1>1, <1>3 DEF CrawlStates
<1>4. Crawl!Queued(request[u].attempt + 1).attempt = request[u].attempt + 1
  BY DEF Crawl!Queued
<1> QED BY <1>1, <1>2, <1>3, <1>4

\* The end of a handler the crawler waits for, with or without its sample.
LEMMA ConcludeForms ==
  ASSUME CrawlTyped, OpenRequests, NEW u \in Pages, request[u] # Crawl!Done, NEW kind,
         Crawl!Conclude(u, kind)
  PROVE  \E now \in {Crawl!Done, Crawl!Queued(request[u].attempt + 1)} :
            /\ now = Crawl!Done \/ request[u].attempt < MaxAttempts
            /\ request' = [request EXCEPT ![u] = now] /\ now.at # "cookies"
<1>1. Crawl!Done.at # "cookies" /\ Crawl!Queued(request[u].attempt + 1).at # "cookies"
  BY DEF Crawl!Done, Crawl!Queued
<1>2. CASE Crawl!Retryable(kind, request[u].attempt)
  BY <1>1, <1>2 DEF Crawl!Conclude, Crawl!Retryable
<1>3. CASE ~Crawl!Retryable(kind, request[u].attempt)
  BY <1>1, <1>3 DEF Crawl!Conclude
<1> QED BY <1>2, <1>3

\* The request goes on to where nothing is held of it.
LEMMA LetsGo ==
  ASSUME SamplesInv, NEW u \in Pages, request[u] # Crawl!Done, NEW now \in CrawlStates,
         request' = [request EXCEPT ![u] = now], phase' = phase, strays' = strays,
         now = Crawl!Done \/ now.attempt >= request[u].attempt, now.at # "cookies",
         \/ UNCHANGED <<sampled, samples>>
         \/ request[u].at = "cookies" /\ sampled' = sampled /\ samples' = samples + 1
  PROVE  StraysBefore' /\ SamplesCounted'
<1>1. CrawlTyped /\ OpenRequests /\ StraysBefore /\ SamplesCounted
  BY DEF SamplesInv, RowsInv
<1>2. \A n \in strays[u] : n < request[u].attempt /\ n \in Nat
  <2>1. MaxAttempts \in Nat
    BY CrawlNumbers DEF Crawl!Numbers
  <2> QED BY <1>1, <2>1 DEF StraysBefore, CrawlTyped, Crawl!Attempts
<1>3. /\ StraysBefore' /\ request'[u] = now
      /\ \A n : \A v \in Pages \ {u} : Holds(v, n)' <=> Holds(v, n)
  BY MovesHold
<1>4. \A n : Holds(u, n)' <=> n \in strays[u]
  BY <1>3 DEF Holds
<1>5. request[u].attempt \in Crawl!Attempts /\ request[u].attempt \notin strays[u]
  BY <1>1, <1>2 DEF OpenRequests, StraysBefore
<1>6. CASE UNCHANGED <<sampled, samples>>
  <2>1. \A v \in Pages, n \in Crawl!Attempts : Holds(v, n)' => <<v, n>> \in Holding
    BY <1>3, <1>4, IsHeld DEF Holds
  <2> QED BY <1>1, <1>3, <1>6, <2>1, HeldBy, NoneMoreHeld
<1>7. CASE request[u].at = "cookies" /\ sampled' = sampled /\ samples' = samples + 1
  <2> DEFINE h == <<u, request[u].attempt>>
  <2>1. h \in Holding
    BY <1>5, <1>7, IsHeld DEF Holds
  <2>2. \A v \in Pages, n \in Crawl!Attempts : Holds(v, n)' => <<v, n>> \in Holding \ {h}
    <3> SUFFICES ASSUME NEW v \in Pages, NEW n \in Crawl!Attempts, Holds(v, n)'
                 PROVE  Holds(v, n) /\ <<v, n>> # h
      BY IsHeld
    <3> QED BY <1>3, <1>4, <1>5 DEF Holds
  <2> QED BY <1>1, <1>3, <1>7, <2>1, <2>2, HeldBy, OneWritten
<1> QED BY <1>6, <1>7

LEMMA HandlersHold ==
  ASSUME SamplesInv, NEW u \in Pages, Crawl!Step(u)
  PROVE  StraysBefore' /\ SamplesCounted'
<1>1. /\ CrawlTyped /\ OpenRequests /\ StraysBefore /\ SamplesCounted
      /\ request[u] # Crawl!Done /\ phase' = phase
  BY DEF SamplesInv, RowsInv, Crawl!Step, Crawl!Visit, Crawl!Loaded, Crawl!Sampled, Crawl!Fails,
         Crawl!In, Crawl!InFlight, Crawl!Done
<1>2. CASE Crawl!Visit(u)
  <2> DEFINE now == [request[u] EXCEPT !.at = "page"]
  <2>1. request' = [request EXCEPT ![u] = now] /\ UNCHANGED <<strays, sampled, samples>>
    BY <1>2 DEF Crawl!Visit, Crawl!diagnostics
  <2>2. now \in CrawlStates /\ (now = Crawl!Done \/ now.attempt >= request[u].attempt)
    BY <1>1, NextForms
  <2>3. now.at # "cookies"
    BY <1>1, RequestForms DEF CrawlStates
  <2> HIDE DEF now
  <2> QED BY <1>1, <2>1, <2>2, <2>3, LetsGo
<1>3. ASSUME NEW kind, Crawl!Conclude(u, kind), strays' = strays,
             \/ UNCHANGED <<sampled, samples>>
             \/ request[u].at = "cookies" /\ sampled' = sampled /\ samples' = samples + 1
      PROVE  StraysBefore' /\ SamplesCounted'
  <2>1. PICK now \in {Crawl!Done, Crawl!Queued(request[u].attempt + 1)} :
            /\ now = Crawl!Done \/ request[u].attempt < MaxAttempts
            /\ request' = [request EXCEPT ![u] = now] /\ now.at # "cookies"
    BY <1>1, <1>3, ConcludeForms
  <2>2. now \in CrawlStates /\ (now = Crawl!Done \/ now.attempt >= request[u].attempt)
    BY <1>1, <2>1, NextForms
  <2> QED BY <1>1, <1>3, <2>1, <2>2, LetsGo
<1>4. ASSUME NEW kind \in Crawl!Kinds, Crawl!Loaded(u, kind)
      PROVE  StraysBefore' /\ SamplesCounted'
  <2>1. strays' = strays /\ samples' = samples
    BY <1>4 DEF Crawl!Loaded
  <2>2. CASE Crawl!Conclude(u, kind) /\ UNCHANGED sampled
    BY <1>3, <2>1, <2>2
  <2>3. CASE /\ sampled < Samples /\ request' = [request EXCEPT ![u].at = "cookies"]
             /\ sampled' = sampled + 1
    <3> DEFINE now == [request[u] EXCEPT !.at = "cookies"]
               h == <<u, request[u].attempt>>
    <3>1. request' = [request EXCEPT ![u] = now]
      BY <2>3
    <3>2. now \in CrawlStates /\ (now = Crawl!Done \/ now.attempt >= request[u].attempt)
      BY <1>1, NextForms
    <3>3. now.attempt = request[u].attempt
      BY <1>1, RequestForms DEF CrawlStates
    <3>4. \A n \in strays'[u] : n \in strays[u]
      BY <2>1
    <3>5. now = Crawl!Done \/ now.attempt >= request[u].attempt
      BY <3>2
    <3> HIDE DEF now
    <3>6. /\ StraysBefore' /\ request'[u] = now
          /\ \A n : \A v \in Pages \ {u} : Holds(v, n)' <=> Holds(v, n)
      BY <1>1, <2>1, <3>1, <3>2, <3>4, <3>5, MovesHold
    <3>7. \A v \in Pages, n \in Crawl!Attempts : Holds(v, n)' => <<v, n>> \in Holding \cup {h}
      BY <2>1, <3>3, <3>6, IsHeld DEF Holds
    <3>8. Holding' \subseteq Holding \cup {h}
      BY <3>7, HeldBy
    <3> QED BY <1>1, <2>1, <2>3, <3>6, <3>8, OneMoreHeld
  <2> QED BY <1>4, <2>2, <2>3 DEF Crawl!Loaded
<1>5. CASE Crawl!Sampled(u)
  BY <1>3, <1>5 DEF Crawl!Sampled, Crawl!WriteSample, Crawl!In
<1>6. CASE Crawl!Fails(u)
  <2>1. strays' = Crawl!Strayed({u}) /\ UNCHANGED <<sampled, samples>>
    BY <1>6 DEF Crawl!Fails, Crawl!diagnostics
  <2>2. PICK now \in {Crawl!Done, Crawl!Queued(request[u].attempt + 1)} :
          /\ now = Crawl!Done \/ request[u].attempt < MaxAttempts
          /\ request' = [request EXCEPT ![u] = now]
    BY <1>1, <1>6 DEF Crawl!Fails, CrawlTyped
  <2>3. /\ now \in CrawlStates /\ (now = Crawl!Done \/ now.attempt >= request[u].attempt)
        /\ now = Crawl!Done \/ now.attempt = request[u].attempt + 1
        /\ request[u].attempt \in Nat
    BY <1>1, <2>2, NextForms
  <2>4. now.at # "cookies"
    BY <2>2 DEF Crawl!Done, Crawl!Queued
  <2>5. \A v \in Pages \ {u} : strays'[v] = strays[v]
    BY <2>1 DEF Crawl!Strayed
  <2>6. \A n \in strays'[u] : n \in strays[u] \/ now = Crawl!Done \/ n < now.attempt
    BY <2>1, <2>3 DEF Crawl!Strayed
  <2>7. /\ StraysBefore' /\ request'[u] = now
        /\ \A n : \A v \in Pages \ {u} : Holds(v, n)' <=> Holds(v, n)
    BY <1>1, <2>2, <2>3, <2>5, <2>6, MovesHold
  <2>8. \A n : Holds(u, n)' => Holds(u, n)
    BY <1>1, <2>1, <2>4, <2>7, HeldByStrays DEF Holds
  <2>9. \A v \in Pages, n \in Crawl!Attempts : Holds(v, n)' => <<v, n>> \in Holding
    BY <2>7, <2>8, IsHeld
  <2> QED BY <1>1, <2>1, <2>7, <2>9, HeldBy, NoneMoreHeld
<1> QED BY <1>2, <1>4, <1>5, <1>6 DEF Crawl!Step

LEMMA StraysHold ==
  ASSUME SamplesInv, NEW u \in Pages, Crawl!Stray(u)
  PROVE  StraysBefore' /\ SamplesCounted'
<1>1. PICK n \in strays[u] : strays' = [strays EXCEPT ![u] = @ \ {n}]
  BY DEF Crawl!Stray
<1>2. /\ CrawlTyped /\ OpenRequests /\ StraysBefore /\ SamplesCounted
      /\ sampled' = sampled /\ samples' = samples + 1 /\ UNCHANGED <<phase, request>>
  BY DEF SamplesInv, RowsInv, Crawl!Stray, Crawl!WriteSample
<1> DEFINE h == <<u, n>>
<1>3. n \in Crawl!Attempts /\ strays'[u] = strays[u] \ {n}
      /\ \A v \in Pages \ {u} : strays'[v] = strays[v]
  BY <1>1, <1>2 DEF CrawlTyped
<1>4. request[u].at = "cookies" => request[u].attempt # n
  <2>1. MaxAttempts \in Nat
    BY CrawlNumbers DEF Crawl!Numbers
  <2>2. request[u].at = "cookies" => request[u] # Crawl!Done
    BY DEF Crawl!Done
  <2> QED BY <1>1, <1>2, <1>3, <2>1, <2>2 DEF StraysBefore, Crawl!Attempts
<1>5. h \in Holding
  BY <1>3, IsHeld DEF Holds
<1>6. \A v \in Pages, m \in Crawl!Attempts : Holds(v, m)' => <<v, m>> \in Holding \ {h}
  <2> SUFFICES ASSUME NEW v \in Pages, NEW m \in Crawl!Attempts, Holds(v, m)'
               PROVE  Holds(v, m) /\ <<v, m>> # h
    BY IsHeld
  <2> QED BY <1>2, <1>3, <1>4 DEF Holds
<1>7. SamplesCounted'
  BY <1>2, <1>5, <1>6, HeldBy, OneWritten
<1>8. StraysBefore'
  BY <1>2, <1>3 DEF StraysBefore
<1> QED BY <1>7, <1>8

LEMMA SamplesKeep == SamplesInv /\ [Crawl!Next]_crawl => SamplesInv'
<1>1. ASSUME SamplesInv, UNCHANGED crawl PROVE StraysBefore' /\ SamplesCounted'
  <2>1. UNCHANGED <<phase, sampled, samples, request, strays>>
    BY <1>1 DEF crawl
  <2> QED BY <1>1, <2>1, OthersHold
<1>2. ASSUME SamplesInv, Crawl!Next PROVE StraysBefore' /\ SamplesCounted'
  BY <1>2, MainHolds, EndsHold, RunReturnsHolds, HandlersHold, StraysHold
  DEF Crawl!Next, Crawl!Main
<1> QED BY <1>1, <1>2, RowsKeep DEF SamplesInv

\* The types of the crawl, and no more samples in a process than are asked for.
LEMMA CrawlTypes == SamplesInv => Crawl!TypeOK
<1> SUFFICES ASSUME SamplesInv PROVE Crawl!TypeOK
  OBVIOUS
<1>1. CrawlTyped /\ SamplesCounted
  BY DEF SamplesInv, RowsInv
<1>2. sampled \in 0..Samples /\ samples \in 0..Samples
  <2>1. Samples \in Nat
    BY CrawlNumbers DEF Crawl!Numbers
  <2> QED BY <1>1, <2>1, HoldingFinite DEF SamplesCounted
<1>3. profile \in [{"target", "source", "backup"} -> Crawl!Contents]
  BY <1>1 DEF CrawlTyped, Profiles
<1> QED BY <1>1, <1>2, <1>3 DEF CrawlTyped, CrawlStates, Crawl!TypeOK

-----------------------------------------------------------------------------
(* The bounded recovery.                                                   *)

Events == [scope : {"initial", "gate", "bulk_state", "bulk_control"}, reason : Recoverable,
           url : {0} \cup Urls, success : BOOLEAN, recovered : BOOLEAN]

RecoveryTyped ==
  /\ at \in {"login", "head", "gate", "bulk", "report", "ended", "thrown"}
  /\ remaining \in Seq(Urls) /\ answered \in Seq(Answers) /\ final \in Results
  /\ session \in 1..(MaxRecoveries + 1) /\ gated \in 0..session
  /\ why \in Purposes /\ refreshes \in Seq(Events) /\ pending \in {0} \cup Urls
  /\ usable \in BOOLEAN /\ late \in BOOLEAN /\ exit \in {NotRunning, 0, 6}
  /\ at = "bulk" => gated = session

\* The URLs are dealt with in their order, and Gone of them are.
Gone == URLs - Len(remaining)
InOrder == Len(remaining) <= URLs /\ \A i \in DOMAIN remaining : remaining[i] = Gone + i

\* Only the last answer of a segment is of a pause class.
AnswersInOrder ==
  /\ \A i \in DOMAIN answered : i < Len(answered) => answered[i] \notin PauseClasses
  /\ at \in {"gate", "bulk"} => remaining # <<>> /\ Len(answered) <= Len(Segment)
  /\ at \in {"login", "head", "report", "ended"} => answered = <<>>

\* What is dealt with has a result that is no refusal; of the rest only the first has
\* one, and only when the command gave up at it.
ResultsInOrder ==
  /\ \A u \in Urls : u <= Gone => final[u] \in Classes \ PauseClasses
  /\ \A u \in Urls : u > Gone => final[u] = "none" \/ (u = Gone + 1 /\ stop # "none")
  /\ stop # "none" => at \in {"report", "ended"}

\* What was refused is dealt with, or is the next URL and pending, until the command gives
\* up; what is pending is in a refresh, or what the login under way is for.
RefusalsInOrder ==
  /\ pending # 0 => remaining # <<>> /\ pending = Gone + 1
  /\ why = Initial \/ why.reason \in Recoverable
  /\ why.url # 0 => why.url = pending /\ why.reason \in Classes
  /\ at # "login" => why = Initial
  /\ \A i \in DOMAIN refreshes : LET u == refreshes[i].url IN
        u <= Gone \/ (u = Gone + 1 /\ (pending = u \/ stop # "none"))
  /\ pending # 0 /\ why.url = 0 => \E i \in DOMAIN refreshes : refreshes[i].url = pending

MarkedOnes == {i \in DOMAIN refreshes : refreshes[i].recovered}
RefusedOnes == {refreshes[i].url : i \in DOMAIN refreshes} \ {0}
AnsweredOnes == {u \in RefusedOnes : HasResult(u) /\ final[u] \notin Recoverable}
Counted == Cardinality(MarkedOnes) = Cardinality(AnsweredOnes)

RecoveryInv == /\ RecoveryTyped /\ InOrder /\ AnswersInOrder /\ ResultsInOrder
               /\ RefusalsInOrder /\ Counted

\* What the properties say.
LEMMA RecoveryAccounts == RecoveryInv => UrlsAccounted
<1> SUFFICES ASSUME RecoveryInv PROVE UrlsAccounted
  OBVIOUS
<1>1. RecoveryTyped /\ InOrder /\ ResultsInOrder /\ Counted
  BY DEF RecoveryInv
<1>2. URLs \in Nat /\ Len(remaining) \in Nat /\ Gone \in Nat /\ DOMAIN remaining = 1..Len(remaining)
  BY <1>1, SizesType DEF RecoveryTyped, InOrder, Gone
<1>3. \A u \in Urls : u \in Left <=> u > Gone
  <2>1. Left = {remaining[i] : i \in DOMAIN remaining}
    BY DEF Left, Range
  <2>2. \A u \in Urls : u > Gone => u - Gone \in DOMAIN remaining /\ Gone + (u - Gone) = u
    BY <1>2, SizesType DEF Urls, Gone
  <2>3. \A i \in DOMAIN remaining : remaining[i] > Gone
    BY <1>1, <1>2 DEF InOrder
  <2>4. \A u \in Urls : u > Gone => remaining[u - Gone] = u
    BY <1>1, <2>2 DEF InOrder
  <2> QED BY <2>1, <2>2, <2>3, <2>4
<1>4. \A u \in Urls : u = Gone + 1 => u = remaining[1]
  <2>1. \A u \in Urls : u = Gone + 1 => 1 \in DOMAIN remaining
    BY <1>2, SizesType DEF Urls, Gone
  <2> QED BY <1>1, <2>1 DEF InOrder
<1>5. Left \subseteq Urls
  BY <1>1, <1>2 DEF Left, Range, RecoveryTyped
<1>6. \A u \in Urls : u \in Int
  BY SizesType DEF Urls
<1>7. EachOnce
  <2>1. \A u \in Urls : u <= Gone => HasResult(u)
    BY <1>1 DEF ResultsInOrder, HasResult, Classes
  <2>2. \A u \in Urls : HasResult(u) \/ u \in Left
    BY <1>2, <1>3, <1>6, <2>1
  <2>3. \A u \in Left : HasResult(u) => u = remaining[1] /\ stop # "none"
    BY <1>1, <1>3, <1>4, <1>5 DEF ResultsInOrder, HasResult
  <2>4. IsInjective(remaining)
    BY <1>1, <1>2 DEF IsInjective, InOrder
  <2> QED BY <2>2, <2>3, <2>4 DEF EachOnce
<1>8. RefusalsAreNotResults
  <2>1. "none" \notin PauseClasses
    BY DEF PauseClasses, Recoverable, NonRecoverable
  <2> QED BY <1>1, <1>2, <1>3, <1>4, <1>6, <2>1 DEF ResultsInOrder, RefusalsAreNotResults
<1>9. RecoveredIsAnswered
  BY <1>1 DEF Counted, MarkedOnes, AnsweredOnes, RefusedOnes, RecoveredIsAnswered
<1>10. SessionsAreProven
  <2>1. \A i \in DOMAIN refreshes : refreshes[i] \in Events
    BY <1>1 DEF RecoveryTyped
  <2>2. \A e \in Events : e.reason \in Recoverable
    BY DEF Events
  <2> QED BY <1>1, <2>1, <2>2 DEF RecoveryTyped, SessionsAreProven
<1> QED BY <1>7, <1>8, <1>9, <1>10 DEF UrlsAccounted

LEMMA RecoveryTypes == RecoveryInv => TypeOK
<1> SUFFICES ASSUME RecoveryInv PROVE TypeOK
  OBVIOUS
<1>1. RecoveryTyped
  BY DEF RecoveryInv
<1>2. \A i \in DOMAIN refreshes : refreshes[i] \in Events
  BY <1>1 DEF RecoveryTyped
<1>3. \A e \in Events : DOMAIN e = {"scope", "reason", "url", "success", "recovered"}
  BY DEF Events
<1> QED BY <1>1, <1>2, <1>3 DEF RecoveryTyped, TypeOK

LEMMA RecoveryInits == Init => RecoveryInv
<1> SUFFICES ASSUME Init PROVE RecoveryInv
  OBVIOUS
<1>1. /\ at \in {"login", "head"} /\ remaining = [i \in Urls |-> i] /\ answered = <<>>
      /\ final = [u \in Urls |-> "none"] /\ session = 1 /\ usable \in BOOLEAN /\ gated = 0
      /\ why = Initial /\ refreshes = <<>> /\ pending = 0 /\ late = FALSE /\ stop = "none"
      /\ exit = NotRunning
  BY DEF Init, Starts
<1>2. /\ remaining \in Seq(Urls) /\ Len(remaining) = URLs /\ URLs \in Nat /\ Urls = 1..URLs
  BY <1>1, SizesType DEF Urls
<1>3. why \in Purposes /\ why.url = 0
  BY <1>1 DEF Initial, Purposes
<1>4. RecoveryTyped
  <2>1. final \in Results /\ session \in 1..(MaxRecoveries + 1) /\ gated \in 0..session
    BY <1>1, SizesType DEF Results
  <2>2. answered \in Seq(Answers) /\ refreshes \in Seq(Events)
    BY <1>1
  <2> QED BY <1>1, <1>2, <1>3, <2>1, <2>2 DEF RecoveryTyped
<1>5. InOrder /\ Gone = 0
  BY <1>1, <1>2 DEF InOrder, Gone
<1>6. AnswersInOrder
  BY <1>1 DEF AnswersInOrder
<1>7. ResultsInOrder
  BY <1>1, <1>2, <1>5 DEF ResultsInOrder
<1>8. RefusalsInOrder
  BY <1>1, <1>3 DEF RefusalsInOrder
<1>9. Counted
  <2>1. MarkedOnes = {} /\ AnsweredOnes = {}
    BY <1>1 DEF MarkedOnes, AnsweredOnes, RefusedOnes
  <2> QED BY <2>1 DEF Counted
<1> QED BY <1>4, <1>5, <1>6, <1>7, <1>8, <1>9 DEF RecoveryInv

\* A step that deals with no URL and makes no refresh.
LEMMA NothingDealtWith ==
  ASSUME RecoveryInv, RecoveryTyped', AnswersInOrder',
         UNCHANGED <<remaining, final, refreshes, pending>>,
         stop' # "none" => at' \in {"report", "ended"}, stop # "none" => stop' # "none",
         why' = why \/ (why.url = 0 /\ why'.url = 0),
         why' = Initial \/ why'.reason \in Recoverable, at' # "login" => why' = Initial
  PROVE  RecoveryInv'
<1>1. InOrder /\ ResultsInOrder /\ RefusalsInOrder /\ Counted
  BY DEF RecoveryInv
<1>2. InOrder' /\ Gone' = Gone
  BY <1>1 DEF InOrder, Gone
<1>3. ResultsInOrder'
  BY <1>1, <1>2 DEF ResultsInOrder
<1>4. RefusalsInOrder'
  BY <1>1, <1>2 DEF RefusalsInOrder
<1>5. Counted'
  BY <1>1 DEF Counted, MarkedOnes, AnsweredOnes, RefusedOnes, HasResult
<1> QED BY <1>2, <1>3, <1>4, <1>5 DEF RecoveryInv

\* One more answer.
LEMMA AnswerKeeps ==
  ASSUME RecoveryInv, NEW c \in Answers, Answer(c)
  PROVE  RecoveryInv'
<1>1. /\ RecoveryTyped /\ AnswersInOrder /\ ResultsInOrder /\ RefusalsInOrder
      /\ answered' = Append(answered, c) /\ at \in {"gate", "bulk"} /\ ~Paused /\ ~Complete
      /\ UNCHANGED <<at, remaining, final, session, usable, gated, why, refreshes, pending,
                     late, stop, exit>>
  BY DEF RecoveryInv, Answer, Recorded
<1>2. /\ answered' \in Seq(Answers) /\ Len(answered') = Len(answered) + 1 /\ Len(answered) \in Nat
      /\ \A i \in 1..Len(answered) : answered'[i] = answered[i]
      /\ DOMAIN answered = 1..Len(answered) /\ DOMAIN answered' = 1..Len(answered')
  BY <1>1 DEF RecoveryTyped
<1>3. RecoveryTyped'
  BY <1>1, <1>2 DEF RecoveryTyped
<1>4. \A i \in DOMAIN answered : answered[i] \notin PauseClasses
  BY <1>1, <1>2 DEF AnswersInOrder, Paused, Last
<1>5. \A i \in DOMAIN answered' : i < Len(answered') => answered'[i] \notin PauseClasses
  BY <1>2, <1>4
<1>6. Len(answered') <= Len(Segment) /\ Segment' = Segment
  <2>1. Segment' = Segment
    BY <1>1 DEF Segment
  <2>2. Len(Segment) \in Nat
    <3>1. CASE at = "gate"
      BY <3>1, SizesType DEF Segment
    <3>2. CASE at # "gate"
      BY <1>1, <3>2 DEF Segment, RecoveryTyped
    <3> QED BY <3>1, <3>2
  <2>3. Len(answered) <= Len(Segment) /\ Len(answered) # Len(Segment)
    BY <1>1 DEF AnswersInOrder, Complete
  <2> QED BY <1>2, <2>1, <2>2, <2>3
<1>7. AnswersInOrder'
  BY <1>1, <1>5, <1>6 DEF AnswersInOrder
<1> QED BY <1>1, <1>3, <1>7, NothingDealtWith DEF ResultsInOrder, RefusalsInOrder

\* The clock, an exception, the beginning of a gate and the report.
LEMMA ClockKeeps ==
  ASSUME RecoveryInv, Gate \/ Throw \/ Report \/ CookiesExpire \/ DeadlinePasses
  PROVE  RecoveryInv'
<1>1. /\ RecoveryTyped /\ AnswersInOrder /\ ResultsInOrder /\ RefusalsInOrder
      /\ UNCHANGED <<remaining, final, refreshes, pending, why, session, gated>>
      /\ at' = at \/ (at # "login" /\ at' \notin {"login", "bulk"})
  BY DEF RecoveryInv, Gate, Throw, Report, CookiesExpire, DeadlinePasses
<1>2. RecoveryTyped'
  <2>1. at' \in {at, "gate", "thrown", "ended"} /\ (at' = "bulk" => at = "bulk")
        /\ answered' \in {answered, <<>>} /\ usable' \in {usable, FALSE}
        /\ late' \in {late, TRUE} /\ exit' \in {exit, 0, 6}
    BY DEF Gate, Throw, Report, CookiesExpire, DeadlinePasses
  <2>2. answered' \in Seq(Answers)
    <3>1. <<>> \in Seq(Answers) /\ answered \in Seq(Answers)
      BY <1>1 DEF RecoveryTyped
    <3> QED BY <2>1, <3>1
  <2>3. usable' \in BOOLEAN /\ late' \in BOOLEAN /\ exit' \in {NotRunning, 0, 6}
    BY <1>1, <2>1 DEF RecoveryTyped
  <2>4. /\ at' \in {"login", "head", "gate", "bulk", "report", "ended", "thrown"}
        /\ at' = "bulk" => gated' = session'
    BY <1>1, <2>1 DEF RecoveryTyped
  <2> QED BY <1>1, <2>2, <2>3, <2>4 DEF RecoveryTyped
<1>3. AnswersInOrder'
  <2>1. CASE Gate
    BY <1>1, <2>1, SizesType DEF Gate, AnswersInOrder, Segment
  <2>2. CASE Throw
    BY <1>1, <2>2 DEF Throw, AnswersInOrder
  <2>3. CASE Report
    BY <1>1, <2>3 DEF Report, AnswersInOrder
  <2>4. CASE CookiesExpire \/ DeadlinePasses
    BY <1>1, <2>4 DEF CookiesExpire, DeadlinePasses, AnswersInOrder, Segment
  <2> QED BY <2>1, <2>2, <2>3, <2>4
<1>4. stop' # "none" => at' \in {"report", "ended"}
  BY <1>1 DEF ResultsInOrder, Gate, Throw, Report, CookiesExpire, DeadlinePasses
<1>5. stop # "none" => stop' # "none"
  BY DEF Gate, Throw, Report, CookiesExpire, DeadlinePasses
<1>6. (why' = Initial \/ why'.reason \in Recoverable) /\ (at' # "login" => why' = Initial)
  BY <1>1 DEF RefusalsInOrder
<1> QED BY <1>1, <1>2, <1>3, <1>4, <1>5, <1>6, NothingDealtWith

\* A new session is tried, or the command gives up.
LEMMA RefreshForms ==
  ASSUME NEW p, NEW r, r # "none", session \in 1..(MaxRecoveries + 1),
         (Refresh(p) /\ UNCHANGED stop) \/ GiveUp(r)
  PROVE  /\ session' \in 1..(MaxRecoveries + 1) /\ session' \in {session, session + 1}
         /\ \/ at' = "login" /\ why' = p /\ p.reason \in Recoverable /\ stop' = stop
            \/ at' = "report" /\ why' = why /\ stop' # "none" /\ session' = session
<1>1. MaxRecoveries \in Nat
  BY SizesType
<1>2. CASE Refresh(p) /\ UNCHANGED stop
  BY <1>1, <1>2 DEF Refresh, Recoveries
<1>3. CASE GiveUp(r)
  BY <1>3 DEF GiveUp
<1> QED BY <1>2, <1>3

\* For a refusal before any URL was asked for.
LEMMA RenewalKeeps ==
  ASSUME RecoveryInv, at \in {"gate", "bulk"}, NEW p, p.url = 0,
         p.reason \in Recoverable => p \in Purposes, NEW r, r # "none",
         (Refresh(p) /\ UNCHANGED stop) \/ GiveUp(r), answered' = <<>>,
         UNCHANGED <<remaining, final, usable, gated, refreshes, pending, late, exit>>
  PROVE  RecoveryInv'
<1>1. /\ RecoveryTyped /\ AnswersInOrder /\ ResultsInOrder /\ RefusalsInOrder
      /\ why = Initial /\ stop = "none"
  BY DEF RecoveryInv, RefusalsInOrder, ResultsInOrder
<1>2. /\ session' \in 1..(MaxRecoveries + 1) /\ session' \in {session, session + 1}
      /\ \/ at' = "login" /\ why' = p /\ p.reason \in Recoverable /\ stop' = stop
         \/ at' = "report" /\ why' = why /\ stop' # "none" /\ session' = session
  BY <1>1, RefreshForms DEF RecoveryTyped
<1>3. gated' \in 0..session'
  BY <1>1, <1>2, SizesType DEF RecoveryTyped
<1>4. why' \in Purposes /\ answered' \in Seq(Answers)
  BY <1>1, <1>2 DEF RecoveryTyped
<1>5. RecoveryTyped'
  BY <1>1, <1>2, <1>3, <1>4 DEF RecoveryTyped
<1>6. AnswersInOrder'
  BY <1>2 DEF AnswersInOrder
<1>7. Initial.url = 0
  BY DEF Initial
<1> QED BY <1>1, <1>2, <1>5, <1>6, <1>7, NothingDealtWith

LEMMA GateOverKeeps ==
  ASSUME RecoveryInv, GateOver
  PROVE  RecoveryInv'
<1>1. /\ RecoveryTyped /\ AnswersInOrder /\ ResultsInOrder /\ RefusalsInOrder
      /\ UNCHANGED <<remaining, final, usable, refreshes, pending, late, exit>>
      /\ at = "gate" /\ answered' = <<>> /\ why = Initial /\ stop = "none" /\ remaining # <<>>
  BY DEF RecoveryInv, GateOver, RefusalsInOrder, ResultsInOrder, AnswersInOrder
<1>2. CASE at' = "bulk" /\ gated' = session /\ UNCHANGED <<session, why, stop>>
  <2>1. RecoveryTyped'
    BY <1>1, <1>2, SizesType DEF RecoveryTyped
  <2>2. AnswersInOrder'
    <3>1. Segment' = remaining
      BY <1>1, <1>2 DEF Segment
    <3> QED BY <1>1, <1>2, <3>1 DEF AnswersInOrder, RecoveryTyped
  <2> QED BY <1>1, <1>2, <2>1, <2>2, NothingDealtWith
<1>3. ASSUME NEW reason \in PauseClasses \cup {"none"}, UNCHANGED gated,
             \/ Refresh([scope |-> "gate", reason |-> reason, url |-> 0]) /\ UNCHANGED stop
             \/ GiveUp(IF reason = "none" THEN "gate_failed" ELSE reason)
      PROVE  RecoveryInv'
  <2> DEFINE p == [scope |-> "gate", reason |-> reason, url |-> 0]
             r == IF reason = "none" THEN "gate_failed" ELSE reason
  <2>1. p.url = 0 /\ (p.reason \in Recoverable => p \in Purposes) /\ r # "none"
    BY DEF Purposes
  <2>2. (Refresh(p) /\ UNCHANGED stop) \/ GiveUp(r)
    BY <1>3
  <2> HIDE DEF p, r
  <2> QED BY <1>1, <1>3, <2>1, <2>2, RenewalKeeps
<1> QED BY <1>2, <1>3 DEF GateOver

LEMMA BulkUnusableKeeps ==
  ASSUME RecoveryInv, BulkUnusable
  PROVE  RecoveryInv'
<1>1. PICK reason \in PauseClasses :
        \/ Refresh([scope |-> "bulk_state", reason |-> reason, url |-> 0]) /\ UNCHANGED stop
        \/ GiveUp(reason)
  BY DEF BulkUnusable
<1>2. /\ at = "bulk" /\ answered' = <<>>
      /\ UNCHANGED <<remaining, final, usable, gated, refreshes, pending, late, exit>>
  BY DEF BulkUnusable
<1> DEFINE p == [scope |-> "bulk_state", reason |-> reason, url |-> 0]
<1>3. p.url = 0 /\ (p.reason \in Recoverable => p \in Purposes)
  BY DEF Purposes
<1>4. reason # "none"
  BY DEF PauseClasses, Recoverable, NonRecoverable
<1>5. (Refresh(p) /\ UNCHANGED stop) \/ GiveUp(reason)
  BY <1>1
<1> HIDE DEF p
<1> QED BY <1>2, <1>3, <1>4, <1>5, RenewalKeeps

\* An event of the report.
LEMMA EventForm ==
  ASSUME NEW p \in Purposes, p.reason \in Recoverable, NEW ok \in BOOLEAN
  PROVE  /\ Event(p, ok) \in Events /\ Event(p, ok).url = p.url
         /\ Event(p, ok).recovered = FALSE
<1>1. p.scope \in {"initial", "gate", "bulk_state", "bulk_control"} /\ p.url \in {0} \cup Urls
  BY DEF Purposes
<1> QED BY <1>1 DEF Event, Events

\* A refresh is added to the events.
LEMMA OneMoreRefresh ==
  ASSUME refreshes \in Seq(Events), NEW e \in Events, refreshes' = Append(refreshes, e),
         e.recovered = FALSE
  PROVE  /\ refreshes' \in Seq(Events) /\ MarkedOnes' = MarkedOnes
         /\ RefusedOnes' = RefusedOnes \cup ({e.url} \ {0})
         /\ \A i \in DOMAIN refreshes' : \/ i \in DOMAIN refreshes /\ refreshes'[i] = refreshes[i]
                                       \/ refreshes'[i] = e
         /\ \E i \in DOMAIN refreshes' : refreshes'[i] = e
<1> DEFINE n == Len(refreshes)
<1>1. /\ n \in Nat /\ DOMAIN refreshes = 1..n /\ DOMAIN refreshes' = 1..(n + 1)
      /\ refreshes' \in Seq(Events) /\ refreshes'[n + 1] = e
      /\ \A i \in 1..n : refreshes'[i] = refreshes[i]
  BY AppendProperties
<1> HIDE DEF n
<1>2. MarkedOnes' = MarkedOnes
  BY <1>1 DEF MarkedOnes
<1>3. RefusedOnes' = RefusedOnes \cup ({e.url} \ {0})
  BY <1>1 DEF RefusedOnes
<1> QED BY <1>1, <1>2, <1>3

\* The login is over.
LEMMA LoginKeeps ==
  ASSUME RecoveryInv, LoggedIn \/ NotLoggedIn
  PROVE  RecoveryInv'
<1>1. /\ RecoveryTyped /\ InOrder /\ ResultsInOrder /\ RefusalsInOrder /\ Counted
      /\ at = "login" /\ stop = "none" /\ answered = <<>> /\ why' = Initial
      /\ UNCHANGED <<remaining, answered, session, gated, pending, late, exit>>
      /\ Initial.url = 0 /\ Initial \in Purposes
  BY DEF RecoveryInv, ResultsInOrder, AnswersInOrder, LoggedIn, NotLoggedIn, Initial, Purposes
<1>2. /\ LoggedIn => at' = "head" /\ usable' = TRUE /\ final' = final /\ stop' = "none"
      /\ NotLoggedIn => /\ at' = "report" /\ usable' = usable /\ stop' # "none"
                        /\ final' = [u \in Urls |-> IF u = why.url THEN why.reason ELSE final[u]]
  BY <1>1 DEF LoggedIn, NotLoggedIn
<1>3. \/ why = Initial /\ refreshes' = refreshes
      \/ /\ why # Initial
         /\ \E ok \in BOOLEAN : refreshes' = Append(refreshes, Event(why, ok))
  BY DEF LoggedIn, NotLoggedIn
<1>4. CASE why = Initial
  <2>1. refreshes' = refreshes /\ final' = final
    <3>1. \A u \in Urls : u # why.url
      BY <1>1, <1>4, SizesType DEF Urls
    <3>2. final = [u \in Urls |-> final[u]]
      BY <1>1 DEF RecoveryTyped, Results
    <3> QED BY <1>2, <1>3, <1>4, <3>1, <3>2
  <2>2. RecoveryTyped'
    BY <1>1, <1>2, <2>1 DEF RecoveryTyped
  <2>3. AnswersInOrder'
    BY <1>1, <1>2 DEF AnswersInOrder
  <2> QED BY <1>1, <1>2, <1>4, <2>1, <2>2, <2>3, NothingDealtWith
<1>5. CASE why # Initial
  <2>1. why \in Purposes /\ why.reason \in Recoverable
    BY <1>1, <1>5 DEF RecoveryTyped, RefusalsInOrder
  <2>2. PICK e \in Events : /\ refreshes' = Append(refreshes, e)
                            /\ e.url = why.url /\ e.recovered = FALSE
    BY <1>3, <1>5, <2>1, EventForm
  <2>3. /\ refreshes' \in Seq(Events) /\ MarkedOnes' = MarkedOnes
        /\ RefusedOnes' = RefusedOnes \cup ({e.url} \ {0})
        /\ \A i \in DOMAIN refreshes' : \/ i \in DOMAIN refreshes /\ refreshes'[i] = refreshes[i]
                                       \/ refreshes'[i] = e
        /\ \E i \in DOMAIN refreshes' : refreshes'[i] = e
    BY <1>1, <2>2, OneMoreRefresh DEF RecoveryTyped
  <2>4. why.url # 0 => why.url = pending /\ pending = Gone + 1 /\ why.reason \in Classes
    BY <1>1 DEF RefusalsInOrder
  <2>5. why.url # 0 => why.url \in Urls /\ final[why.url] = "none"
    <3>1. URLs \in Nat /\ Len(remaining) \in Nat
      BY <1>1, SizesType DEF RecoveryTyped
    <3>2. why.url \in {0} \cup Urls
      BY <2>1 DEF Purposes
    <3>3. Gone \in Int
      BY <3>1 DEF Gone
    <3> QED BY <1>1, <2>4, <3>2, <3>3 DEF ResultsInOrder
  <2>6. /\ final' \in Results
        /\ \A u \in Urls : u # why.url => final'[u] = final[u]
        /\ why.url # 0 => final'[why.url] \in {"none"} \cup Recoverable
    <3>1. CASE LoggedIn
      BY <1>1, <1>2, <2>5, <3>1 DEF RecoveryTyped
    <3>2. CASE NotLoggedIn
      BY <1>1, <1>2, <2>1, <2>4, <2>5, <3>2 DEF RecoveryTyped, Results
    <3> QED BY <3>1, <3>2
  <2>7. RecoveryTyped'
    BY <1>1, <1>2, <2>3, <2>6 DEF RecoveryTyped
  <2>8. InOrder' /\ Gone' = Gone /\ AnswersInOrder'
    BY <1>1, <1>2 DEF InOrder, Gone, AnswersInOrder
  <2>9. ResultsInOrder'
    <3>1. Gone \in Int
      BY <1>1, SizesType DEF Gone, RecoveryTyped
    <3>2. \A u \in Urls : u = why.url => u = Gone + 1
      BY <2>4, SizesType DEF Urls
    <3>3. CASE LoggedIn
      BY <1>1, <1>2, <2>8, <3>3 DEF ResultsInOrder
    <3>4. CASE NotLoggedIn
      BY <1>1, <1>2, <2>6, <2>8, <3>1, <3>2, <3>4 DEF ResultsInOrder
    <3> QED BY <3>3, <3>4
  <2>10. RefusalsInOrder'
    <3>1. pending' # 0 => remaining' # <<>> /\ pending' = Gone' + 1
      BY <1>1, <2>8 DEF RefusalsInOrder
    <3>2. \A i \in DOMAIN refreshes' : LET u == refreshes'[i].url IN
            u <= Gone' \/ (u = Gone' + 1 /\ (pending' = u \/ stop' # "none"))
      <4>1. 0 <= Gone
        BY <1>1, SizesType DEF InOrder, Gone, RecoveryTyped
      <4>2. e.url <= Gone \/ (e.url = Gone + 1 /\ pending = e.url)
        BY <2>2, <2>4, <4>1
      <4> QED BY <1>1, <1>2, <2>3, <2>8, <4>2 DEF RefusalsInOrder
    <3>3. pending' # 0 => \E i \in DOMAIN refreshes' : refreshes'[i].url = pending'
      <4>1. CASE why.url = 0
        <5>1. pending # 0 => \E i \in DOMAIN refreshes : refreshes[i].url = pending
          BY <1>1, <4>1 DEF RefusalsInOrder
        <5>2. \A i \in DOMAIN refreshes : i \in DOMAIN refreshes' /\ refreshes'[i] = refreshes[i]
          BY <1>1, <2>2 DEF RecoveryTyped
        <5> QED BY <1>1, <5>1, <5>2
      <4>2. CASE why.url # 0
        BY <1>1, <2>2, <2>3, <2>4, <4>2
      <4> QED BY <4>1, <4>2
    <3> QED BY <1>1, <3>1, <3>2, <3>3 DEF RefusalsInOrder
  <2>11. AnsweredOnes' = AnsweredOnes
    <3>1. RefusedOnes \subseteq Urls /\ (why.url # 0 => why.url \in Urls)
      <4>1. \A i \in DOMAIN refreshes : refreshes[i] \in Events
        BY <1>1 DEF RecoveryTyped
      <4> QED BY <2>5, <4>1 DEF RefusedOnes, Events
    <3>2. why.url \notin AnsweredOnes /\ why.url \notin AnsweredOnes'
      BY <2>5, <2>6 DEF AnsweredOnes, HasResult, RefusedOnes
    <3> QED BY <2>2, <2>3, <2>6, <3>1, <3>2 DEF AnsweredOnes, HasResult
  <2>12. Counted'
    BY <1>1, <2>3, <2>11 DEF Counted
  <2> QED BY <2>7, <2>8, <2>9, <2>10, <2>12 DEF RecoveryInv
<1> QED BY <1>4, <1>5

\* The results of the first k URLs, by their numbers.
LEMMA FinalizedIs ==
  ASSUME RecoveryTyped, InOrder, NEW k \in 0..Len(remaining), k <= Len(answered)
  PROVE  /\ Finalized(k) \in Results
         /\ \A u \in Urls : Finalized(k)[u] = IF Gone < u /\ u <= Gone + k
                                              THEN answered[u - Gone] ELSE final[u]
<1>1. /\ URLs \in Nat /\ Len(remaining) \in Nat /\ Gone \in Nat /\ Len(answered) \in Nat
      /\ DOMAIN remaining = 1..Len(remaining) /\ DOMAIN answered = 1..Len(answered)
      /\ \A i \in 1..Len(remaining) : remaining[i] = Gone + i
  BY SizesType DEF RecoveryTyped, InOrder, Gone
<1>2. \A u \in Urls : u \in Int
  BY SizesType DEF Urls
<1>3. \A u \in Urls : (\E i \in 1..k : remaining[i] = u) <=> Gone < u /\ u <= Gone + k
  <2>1. \A u \in Urls : Gone < u /\ u <= Gone + k => u - Gone \in 1..k /\ Gone + (u - Gone) = u
    BY <1>1, <1>2
  <2>2. \A i \in 1..k : i \in 1..Len(remaining) /\ Gone < Gone + i /\ Gone + i <= Gone + k
    BY <1>1
  <2> QED BY <1>1, <2>1, <2>2
<1>4. \A u \in Urls : (\E i \in 1..k : remaining[i] = u) =>
        (CHOOSE i \in 1..k : remaining[i] = u) = u - Gone
  <2> SUFFICES ASSUME NEW u \in Urls, \E i \in 1..k : remaining[i] = u
               PROVE  (CHOOSE i \in 1..k : remaining[i] = u) = u - Gone
    OBVIOUS
  <2> DEFINE c == CHOOSE i \in 1..k : remaining[i] = u
  <2>1. c \in 1..k /\ remaining[c] = u
    OBVIOUS
  <2> HIDE DEF c
  <2>2. c = u - Gone
    BY <1>1, <1>2, <2>1
  <2> QED BY <2>2 DEF c
<1>5. \A u \in Urls : Finalized(k)[u] = IF Gone < u /\ u <= Gone + k
                                        THEN answered[u - Gone] ELSE final[u]
  BY <1>3, <1>4 DEF Finalized
<1>6. \A u \in Urls : Gone < u /\ u <= Gone + k => answered[u - Gone] \in Classes
  <2>1. \A u \in Urls : Gone < u /\ u <= Gone + k => u - Gone \in 1..Len(answered)
    BY <1>1, <1>2
  <2> QED BY <1>1, <2>1, AnswersType DEF RecoveryTyped
<1>7. Finalized(k) \in Results
  <2>1. \A u \in Urls : Finalized(k)[u] \in Classes \cup {"none"}
    BY <1>5, <1>6 DEF RecoveryTyped, Results
  <2> QED BY <2>1 DEF Finalized, Results
<1> QED BY <1>5, <1>7

\* Of the refreshes that are not marked there is a last one.
LEMMA LastUnmarked ==
  ASSUME refreshes \in Seq(Events), NEW some \in DOMAIN refreshes, ~refreshes[some].recovered
  PROVE  LET last == SelectLastInSeq(refreshes, LAMBDA e : ~e.recovered)
         IN  last \in DOMAIN refreshes /\ ~refreshes[last].recovered
<1> DEFINE I == {i \in 1..Len(refreshes) : ~refreshes[i].recovered}
           After == {n \in Nat : \A i \in I : i <= n}
<1>1. some \in I /\ I \subseteq Nat /\ Len(refreshes) \in After
  OBVIOUS
<1>2. PICK m \in After : \A n \in After : <<n, m>> \notin OpToRel(<, Nat)
  BY <1>1, NatLessThanWellFounded, WFMin
<1>3. m \in I
  <2> SUFFICES ASSUME m \notin I PROVE FALSE
    OBVIOUS
  <2>0. m \in Nat /\ \A i \in I : i <= m /\ i # m /\ i \in Nat /\ i >= 1
    <3>1. m \in Nat /\ \A i \in I : i <= m
      BY <1>2
    <3>2. \A i \in I : i \in Nat /\ i >= 1
      OBVIOUS
    <3> HIDE DEF I, After
    <3> QED BY <3>1, <3>2
  <2>1. \A i \in I : i <= m - 1 /\ i >= 1
    <3> HIDE DEF I, After
    <3> QED BY <2>0
  <2>2. m - 1 \in Nat /\ m \in Nat /\ m - 1 < m
    <3> HIDE DEF I, After
    <3>1. m >= 1
      BY <1>1, <2>0
    <3> QED BY <2>0, <3>1
  <2>3. m - 1 \in After
    BY <2>1, <2>2
  <2>4. <<m - 1, m>> \in OpToRel(<, Nat)
    BY <2>2 DEF OpToRel
  <2> QED BY <1>2, <2>3, <2>4
<1>4. \A i \in I : m >= i
  BY <1>2
<1>5. Max(I) \in I
  BY <1>3, <1>4 DEF Max
<1>6. SelectLastInSeq(refreshes, LAMBDA e : ~e.recovered) = Max(I)
  BY <1>1 DEF SelectLastInSeq
<1> HIDE DEF I
<1>7. Max(I) \in DOMAIN refreshes /\ ~refreshes[Max(I)].recovered
  BY <1>5 DEF I
<1> QED BY <1>6, <1>7

\* There are not more URLs that were refused than refreshes.
LEMMA RefusedFinite ==
  ASSUME refreshes \in Seq(Events)
  PROVE  /\ IsFiniteSet(RefusedOnes) /\ IsFiniteSet(MarkedOnes)
         /\ Cardinality(RefusedOnes) <= Cardinality(DOMAIN refreshes)
         /\ IsFiniteSet(DOMAIN refreshes)
<1> DEFINE url == [i \in DOMAIN refreshes |-> refreshes[i].url]
           all_urls == {refreshes[i].url : i \in DOMAIN refreshes}
<1>1. IsFiniteSet(DOMAIN refreshes)
  BY FS_Interval
<1>2. url \in Surjection(DOMAIN refreshes, all_urls)
  BY DEF Surjection
<1>3. IsFiniteSet(all_urls) /\ Cardinality(all_urls) <= Cardinality(DOMAIN refreshes)
  BY <1>1, <1>2, FS_Surjection
<1>4. RefusedOnes \subseteq all_urls
  BY DEF RefusedOnes
<1>5. IsFiniteSet(RefusedOnes) /\ Cardinality(RefusedOnes) <= Cardinality(all_urls)
  BY <1>3, <1>4, FS_Subset
<1>6. IsFiniteSet(MarkedOnes)
  <2>1. MarkedOnes \subseteq DOMAIN refreshes
    BY DEF MarkedOnes
  <2> QED BY <1>1, <2>1, FS_Subset
<1>7. /\ Cardinality(RefusedOnes) \in Nat /\ Cardinality(all_urls) \in Nat
      /\ Cardinality(DOMAIN refreshes) \in Nat
  BY <1>1, <1>3, <1>5, FS_CardinalityType
<1> HIDE DEF all_urls
<1> QED BY <1>1, <1>3, <1>5, <1>6, <1>7

\* When a URL that was refused is not yet answered, some refresh is not marked.
LEMMA SomeUnmarked ==
  ASSUME RecoveryTyped, Counted, NEW p \in RefusedOnes \ AnsweredOnes
  PROVE  \E i \in DOMAIN refreshes : ~refreshes[i].recovered
<1> SUFFICES ASSUME \A i \in DOMAIN refreshes : refreshes[i].recovered PROVE FALSE
  OBVIOUS
<1>1. /\ IsFiniteSet(RefusedOnes) /\ Cardinality(RefusedOnes) <= Cardinality(DOMAIN refreshes)
  BY RefusedFinite DEF RecoveryTyped
<1>2. MarkedOnes = DOMAIN refreshes
  BY DEF MarkedOnes
<1>3. AnsweredOnes \subseteq RefusedOnes \ {p}
  BY DEF AnsweredOnes
<1>4. /\ IsFiniteSet(RefusedOnes \ {p})
      /\ Cardinality(RefusedOnes \ {p}) = Cardinality(RefusedOnes) - 1
  BY <1>1, FS_RemoveElement
<1>5. IsFiniteSet(AnsweredOnes) /\ Cardinality(AnsweredOnes) <= Cardinality(RefusedOnes \ {p})
  BY <1>3, <1>4, FS_Subset
<1>6. Cardinality(AnsweredOnes) \in Nat /\ Cardinality(RefusedOnes) \in Nat
  BY <1>1, <1>5, FS_CardinalityType
<1> QED BY <1>1, <1>2, <1>4, <1>5, <1>6 DEF Counted

\* The segment is over: the first k results are final, and when they settle what became of
\* a URL that was refused, a refresh is marked.
LEMMA SettlingCounts ==
  ASSUME RecoveryInv, at = "bulk", NEW k \in 0..Len(answered), Settled => k >= 1,
         final' = Finalized(k), refreshes' = Marked
  PROVE  /\ Counted' /\ refreshes' \in Seq(Events) /\ DOMAIN refreshes' = DOMAIN refreshes
         /\ \A i \in DOMAIN refreshes : refreshes'[i].url = refreshes[i].url
         /\ final' \in Results
         /\ \A u \in Urls : final'[u] = IF Gone < u /\ u <= Gone + k
                                        THEN answered[u - Gone] ELSE final[u]
<1>1. /\ RecoveryTyped /\ InOrder /\ AnswersInOrder /\ ResultsInOrder /\ RefusalsInOrder
      /\ Counted /\ why = Initial /\ stop = "none" /\ remaining # <<>>
      /\ Len(answered) <= Len(remaining)
  BY DEF RecoveryInv, AnswersInOrder, ResultsInOrder, RefusalsInOrder, Segment
<1>2. /\ URLs \in Nat /\ Len(remaining) \in Nat /\ Gone \in Nat /\ Len(answered) \in Nat
      /\ DOMAIN answered = 1..Len(answered) /\ k \in 0..Len(remaining) /\ k \in Nat
      /\ Urls = 1..URLs
  BY <1>1, SizesType DEF RecoveryTyped, InOrder, Gone, Urls
<1>3. /\ final' \in Results
      /\ \A u \in Urls : final'[u] = IF Gone < u /\ u <= Gone + k
                                     THEN answered[u - Gone] ELSE final[u]
  BY <1>1, <1>2, FinalizedIs
<1>4. \A i \in DOMAIN refreshes : refreshes[i] \in Events
  BY <1>1 DEF RecoveryTyped
<1>5. RefusedOnes \subseteq Urls
  BY <1>4 DEF RefusedOnes, Events
<1>6. \A u \in RefusedOnes : u <= Gone \/ (u = Gone + 1 /\ pending = u)
  BY <1>1 DEF RefusalsInOrder, RefusedOnes
<1>7. \A u \in RefusedOnes : u <= Gone => final'[u] = final[u]
  BY <1>2, <1>3, <1>5
<1>8. /\ pending # 0 => /\ pending = Gone + 1 /\ remaining[1] = pending /\ pending \in RefusedOnes
                        /\ final[pending] = "none"
  <2> SUFFICES ASSUME pending # 0
               PROVE  /\ pending = Gone + 1 /\ remaining[1] = pending /\ pending \in RefusedOnes
                      /\ final[pending] = "none"
    OBVIOUS
  <2>1. pending = Gone + 1 /\ pending \in Urls
    BY <1>1 DEF RefusalsInOrder, RecoveryTyped
  <2>2. remaining[1] = Gone + 1
    BY <1>1, <1>2 DEF InOrder, RecoveryTyped
  <2>3. Initial.url = 0
    BY DEF Initial
  <2>4. pending \in RefusedOnes
    BY <1>1, <2>3 DEF RefusalsInOrder, RefusedOnes
  <2>5. final[pending] = "none"
    BY <1>1, <1>2, <2>1 DEF ResultsInOrder
  <2> QED BY <2>1, <2>2, <2>4, <2>5
<1>9. answered # <<>> => answered[1] \in Classes /\ answered[1] # "none"
  <2>1. answered # <<>> => 1 \in DOMAIN answered
    BY <1>1, <1>2 DEF RecoveryTyped
  <2>2. answered # <<>> => answered[1] \in Answers
    BY <1>1, <2>1 DEF RecoveryTyped
  <2> QED BY <2>2, AnswersType DEF Classes, PauseClasses, Recoverable, NonRecoverable
<1>10. CASE Settled
  <2>1. pending # 0 /\ answered # <<>> /\ answered[1] \notin Recoverable /\ k >= 1
    BY <1>10 DEF Settled
  <2>2. final'[pending] = answered[1]
    BY <1>2, <1>3, <1>5, <1>8, <2>1
  <2>3. pending \in RefusedOnes \ AnsweredOnes
    BY <1>8, <2>1 DEF AnsweredOnes, HasResult
  <2> DEFINE last == SelectLastInSeq(refreshes, LAMBDA e : ~e.recovered)
  <2>4. last \in DOMAIN refreshes /\ ~refreshes[last].recovered
    BY <1>1, <2>3, SomeUnmarked, LastUnmarked DEF RecoveryTyped
  <2>5. refreshes' = [refreshes EXCEPT ![last].recovered = TRUE]
    <3>1. last # 0
      BY <1>1, <2>4 DEF RecoveryTyped
    <3> QED BY <1>10, <3>1 DEF Marked
  <2> HIDE DEF last
  <2>6. /\ DOMAIN refreshes' = DOMAIN refreshes
        /\ \A i \in DOMAIN refreshes : i # last => refreshes'[i] = refreshes[i]
        /\ refreshes'[last] = [refreshes[last] EXCEPT !.recovered = TRUE]
    BY <1>1, <2>4, <2>5 DEF RecoveryTyped
  <2>7. refreshes'[last] \in Events /\ refreshes'[last].url = refreshes[last].url
        /\ refreshes'[last].recovered
    BY <1>4, <2>4, <2>6 DEF Events
  <2>8. /\ refreshes' \in Seq(Events)
        /\ \A i \in DOMAIN refreshes : refreshes'[i].url = refreshes[i].url
    <3>1. refreshes \in [1..Len(refreshes) -> Events] /\ Len(refreshes) \in Nat
      BY <1>1 DEF RecoveryTyped
    <3>2. refreshes' \in [1..Len(refreshes) -> Events]
      BY <2>5, <2>6, <2>7, <3>1
    <3>3. refreshes' \in Seq(Events)
      BY <3>1, <3>2
    <3> QED BY <2>6, <2>7, <3>3
  <2>9. RefusedOnes' = RefusedOnes
    BY <2>6, <2>8 DEF RefusedOnes
  <2>10. MarkedOnes' = MarkedOnes \cup {last} /\ last \notin MarkedOnes
    BY <2>4, <2>6, <2>7 DEF MarkedOnes
  <2>11. AnsweredOnes' = AnsweredOnes \cup {pending} /\ pending \notin AnsweredOnes
    <3>1. \A u \in RefusedOnes : u # pending => final'[u] = final[u]
      BY <1>6, <1>7
    <3> QED BY <1>9, <2>1, <2>2, <2>3, <2>9, <3>1 DEF AnsweredOnes, HasResult
  <2>12. Counted'
    <3>1. IsFiniteSet(MarkedOnes) /\ IsFiniteSet(RefusedOnes)
      BY <1>1, RefusedFinite DEF RecoveryTyped
    <3>2. IsFiniteSet(AnsweredOnes)
      BY <3>1, FS_Subset DEF AnsweredOnes
    <3>3. /\ Cardinality(MarkedOnes') = Cardinality(MarkedOnes) + 1
          /\ Cardinality(AnsweredOnes') = Cardinality(AnsweredOnes) + 1
      BY <2>10, <2>11, <3>1, <3>2, FS_AddElement
    <3> QED BY <1>1, <3>3 DEF Counted
  <2> QED BY <1>3, <2>6, <2>8, <2>12
<1>11. CASE ~Settled
  <2>1. refreshes' = refreshes
    BY <1>11 DEF Marked
  <2>2. pending # 0 => final'[pending] = "none" \/ final'[pending] \in Recoverable
    <3>1. k >= 1 => answered # <<>>
      BY <1>2
    <3>2. pending # 0 /\ k >= 1 => final'[pending] = answered[1]
      BY <1>2, <1>3, <1>5, <1>8
    <3>3. pending # 0 /\ ~(k >= 1) => final'[pending] = final[pending]
      BY <1>2, <1>3, <1>5, <1>8
    <3> QED BY <1>8, <1>11, <3>1, <3>2, <3>3 DEF Settled
  <2>3. AnsweredOnes' = AnsweredOnes
    <3>1. RefusedOnes' = RefusedOnes
      BY <2>1 DEF RefusedOnes
    <3>2. \A u \in RefusedOnes : u # pending => final'[u] = final[u]
      BY <1>6, <1>7
    <3>3. 0 \notin RefusedOnes
      BY DEF RefusedOnes
    <3>4. pending \notin AnsweredOnes /\ pending \notin AnsweredOnes'
      BY <1>8, <2>2, <3>1, <3>3 DEF AnsweredOnes, HasResult
    <3> QED BY <3>1, <3>2, <3>4 DEF AnsweredOnes, HasResult
  <2>4. Counted'
    BY <1>1, <2>1, <2>3 DEF Counted, MarkedOnes
  <2> QED BY <1>1, <1>3, <2>1, <2>4 DEF RecoveryTyped
<1> QED BY <1>10, <1>11

LEMMA AllAnsweredKeeps ==
  ASSUME RecoveryInv, AllAnswered
  PROVE  RecoveryInv'
<1>1. /\ RecoveryTyped /\ InOrder /\ AnswersInOrder /\ ResultsInOrder /\ RefusalsInOrder
      /\ why = Initial /\ stop = "none" /\ remaining # <<>> /\ at = "bulk" /\ Segment = remaining
  BY DEF RecoveryInv, AllAnswered, AnswersInOrder, ResultsInOrder, RefusalsInOrder, Segment
<1>2. /\ refreshes' = Marked /\ final' = Finalized(Len(answered)) /\ remaining' = <<>>
      /\ pending' = (IF Settled THEN 0 ELSE pending) /\ answered' = <<>> /\ at' = "head"
      /\ UNCHANGED <<session, usable, gated, why, late, stop, exit>> /\ ~Paused /\ Complete
  BY DEF AllAnswered, Ended, Paused, PauseClasses, Recoverable, NonRecoverable
<1>3. /\ URLs \in Nat /\ Len(remaining) \in Nat \ {0} /\ Gone \in Nat /\ Urls = 1..URLs
      /\ Len(answered) = Len(remaining) /\ DOMAIN answered = 1..Len(answered)
      /\ Gone + Len(remaining) = URLs
  BY <1>1, <1>2, SizesType DEF RecoveryTyped, InOrder, Gone, Complete, Urls
<1>4. Len(answered) \in 0..Len(answered) /\ (Settled => Len(answered) >= 1)
  BY <1>3
<1>5. /\ Counted' /\ refreshes' \in Seq(Events) /\ DOMAIN refreshes' = DOMAIN refreshes
      /\ \A i \in DOMAIN refreshes : refreshes'[i].url = refreshes[i].url
      /\ final' \in Results
      /\ \A u \in Urls : final'[u] = IF Gone < u /\ u <= Gone + Len(answered)
                                     THEN answered[u - Gone] ELSE final[u]
  BY <1>1, <1>2, <1>4, SettlingCounts
<1>6. \A i \in DOMAIN answered : answered[i] \in Classes \ PauseClasses
  <2>1. \A i \in DOMAIN answered : answered[i] \in Classes
    BY <1>1, AnswersType DEF RecoveryTyped
  <2>2. answered[Len(answered)] \notin PauseClasses
    BY <1>2, <1>3 DEF Paused, Last
  <2>3. \A i \in DOMAIN answered : i < Len(answered) \/ i = Len(answered)
    BY <1>3
  <2> QED BY <1>1, <2>1, <2>2, <2>3 DEF AnswersInOrder
<1>7. Gone' = URLs
  BY <1>2, <1>3 DEF Gone
<1>8. pending' = 0
  <2> SUFFICES ASSUME pending # 0 PROVE Settled
    BY <1>2
  <2>1. pending = Gone + 1 /\ remaining[1] = Gone + 1 /\ answered # <<>>
    <3>1. pending = Gone + 1
      BY <1>1 DEF RefusalsInOrder
    <3>2. 1 \in DOMAIN remaining
      BY <1>1, <1>3 DEF RecoveryTyped
    <3>3. remaining[1] = Gone + 1
      BY <1>1, <3>2 DEF InOrder
    <3> QED BY <1>3, <3>1, <3>3
  <2>2. answered[1] \notin Recoverable
    BY <1>3, <1>6 DEF PauseClasses
  <2> QED BY <2>1, <2>2 DEF Settled
<1>9. RecoveryTyped'
  BY <1>1, <1>2, <1>5, <1>8 DEF RecoveryTyped
<1>10. InOrder' /\ AnswersInOrder'
  BY <1>2, <1>3 DEF InOrder, AnswersInOrder
<1>11. ResultsInOrder'
  <2>1. \A u \in Urls : u <= Gone => final'[u] \in Classes \ PauseClasses
    BY <1>1, <1>3, <1>5 DEF ResultsInOrder
  <2>2. \A u \in Urls : u > Gone => final'[u] \in Classes \ PauseClasses
    <3>1. \A u \in Urls : u > Gone => u - Gone \in DOMAIN answered
      BY <1>3
    <3> QED BY <1>3, <1>5, <1>6, <3>1
  <2> QED BY <1>1, <1>2, <1>3, <1>7, <2>1, <2>2 DEF ResultsInOrder
<1>12. RefusalsInOrder'
  <2>1. \A i \in DOMAIN refreshes : refreshes[i].url \in {0} \cup Urls
    <3>1. \A i \in DOMAIN refreshes : refreshes[i] \in Events
      BY <1>1 DEF RecoveryTyped
    <3> QED BY <3>1 DEF Events
  <2>2. \A i \in DOMAIN refreshes' : refreshes'[i].url <= Gone'
    BY <1>3, <1>5, <1>7, <2>1
  <2>3. Initial.url = 0
    BY DEF Initial
  <2> QED BY <1>1, <1>2, <1>8, <2>2, <2>3 DEF RefusalsInOrder
<1> QED BY <1>5, <1>9, <1>10, <1>11, <1>12 DEF RecoveryInv

\* What a segment that was refused leaves.
LEMMA RefusedForms ==
  ASSUME RecoveryInv, Refused
  PROVE  /\ Len(answered) \in 1..Len(remaining) /\ Len(remaining) \in Nat /\ Gone \in Nat
         /\ URLs \in Nat /\ Urls = 1..URLs /\ DOMAIN answered = 1..Len(answered)
         /\ remaining' \in Seq(Urls) /\ InOrder' /\ Gone' = Gone + (Len(answered) - 1)
         /\ remaining' # <<>> /\ remaining[Len(answered)] = Gone' + 1
         /\ remaining[Len(answered)] \in Urls
         /\ \A i \in DOMAIN answered : /\ answered[i] \in Classes
                                       /\ i < Len(answered) => answered[i] \notin PauseClasses
         /\ Last(answered) \in PauseClasses /\ Last(answered) = answered[Len(answered)]
<1>1. /\ RecoveryTyped /\ InOrder /\ AnswersInOrder /\ at = "bulk" /\ Segment = remaining
      /\ answered # <<>> /\ Last(answered) \in PauseClasses
      /\ remaining' = SubSeq(remaining, Len(answered), Len(remaining))
  BY DEF RecoveryInv, Refused, Paused, Segment, Unfinished
<1> DEFINE n == Len(answered)
           m == Len(remaining)
<1>2. /\ m \in Nat /\ n \in 1..m /\ URLs \in Nat /\ Gone = URLs - m /\ Gone \in Nat
      /\ DOMAIN answered = 1..n /\ DOMAIN remaining = 1..m /\ Urls = 1..URLs
  BY <1>1, SizesType DEF RecoveryTyped, AnswersInOrder, InOrder, Gone, Urls
<1>3. /\ remaining' \in Seq(Urls) /\ Len(remaining') = m - n + 1
      /\ \A i \in 1..(m - n + 1) : remaining'[i] = remaining[n + i - 1]
  <2>1. \A i \in n..m : remaining[i] \in Urls
    BY <1>1, <1>2 DEF RecoveryTyped
  <2> QED BY <1>1, <1>2, <2>1, SubSeqProperties
<1> HIDE DEF n, m
<1>4. Gone' = Gone + (n - 1)
  BY <1>2, <1>3 DEF Gone
<1>5. \A i \in 1..m : remaining[i] = Gone + i
  BY <1>1, <1>2 DEF InOrder
<1>6. InOrder'
  <2>1. Len(remaining') <= URLs /\ DOMAIN remaining' = 1..(m - n + 1)
    BY <1>2, <1>3
  <2>2. \A i \in 1..(m - n + 1) : n + i - 1 \in 1..m /\ Gone + (n + i - 1) = Gone + (n - 1) + i
    BY <1>2
  <2> QED BY <1>3, <1>4, <1>5, <2>1, <2>2 DEF InOrder
<1>7. remaining' # <<>>
  BY <1>2, <1>3
<1>8. remaining[n] = Gone' + 1 /\ remaining[n] \in Urls
  BY <1>1, <1>2, <1>4, <1>5 DEF RecoveryTyped
<1>9. \A i \in DOMAIN answered : /\ answered[i] \in Classes
                                 /\ i < n => answered[i] \notin PauseClasses
  BY <1>1, AnswersType DEF RecoveryTyped, AnswersInOrder, n
<1>10. Last(answered) = answered[n]
  BY DEF Last, n
<1> QED BY <1>1, <1>2, <1>3, <1>4, <1>6, <1>7, <1>8, <1>9, <1>10 DEF n, m

LEMMA RefusedKeeps ==
  ASSUME RecoveryInv, Refused
  PROVE  RecoveryInv'
<1> DEFINE n == Len(answered)
           reason == Last(answered)
           p == [scope |-> "bulk_control", reason |-> reason, url |-> remaining[n]]
<1>1. /\ RecoveryTyped /\ AnswersInOrder /\ ResultsInOrder /\ RefusalsInOrder
      /\ why = Initial /\ stop = "none" /\ remaining # <<>> /\ at = "bulk"
  BY DEF RecoveryInv, Refused, AnswersInOrder, ResultsInOrder, RefusalsInOrder
<1>2. /\ refreshes' = Marked /\ answered' = <<>> /\ UNCHANGED <<usable, gated, late, exit>>
      /\ \/ /\ Refresh(p) /\ pending' = remaining[n] /\ final' = Finalized(n - 1) /\ UNCHANGED stop
         \/ /\ GiveUp(reason) /\ pending' = (IF Settled THEN 0 ELSE pending)
            /\ final' = Finalized(n)
  BY DEF Refused
<1>3. /\ n \in 1..Len(remaining) /\ Len(remaining) \in Nat /\ Gone \in Nat
      /\ URLs \in Nat /\ Urls = 1..URLs /\ DOMAIN answered = 1..n
      /\ remaining' \in Seq(Urls) /\ InOrder' /\ Gone' = Gone + (n - 1)
      /\ remaining' # <<>> /\ remaining[n] = Gone' + 1 /\ remaining[n] \in Urls
      /\ \A i \in DOMAIN answered : /\ answered[i] \in Classes
                                    /\ i < n => answered[i] \notin PauseClasses
      /\ reason \in PauseClasses /\ reason = answered[n]
  BY RefusedForms
<1>17. n \in Nat /\ n >= 1 /\ Gone \in Nat /\ Gone' = Gone + (n - 1) /\ Urls \subseteq Int
  BY <1>3
<1>4. reason # "none" /\ reason \in Classes
  BY <1>3 DEF PauseClasses, Recoverable, NonRecoverable
<1>5. p.url = remaining[n] /\ p.reason = reason /\ (reason \in Recoverable => p \in Purposes)
  BY <1>3 DEF Purposes
<1>6. Initial.url = 0
  BY DEF Initial
<1> HIDE DEF n, reason, p
<1>7. /\ session' \in 1..(MaxRecoveries + 1) /\ session' \in {session, session + 1}
      /\ \/ at' = "login" /\ why' = p /\ p.reason \in Recoverable /\ stop' = stop
         \/ at' = "report" /\ why' = why /\ stop' # "none" /\ session' = session
  BY <1>1, <1>2, <1>4, RefreshForms DEF RecoveryTyped
<1>8. n > 1 /\ pending # 0 => Settled
  <2> SUFFICES ASSUME n > 1, pending # 0 PROVE Settled
    OBVIOUS
  <2>1. pending = Gone + 1
    BY <1>1 DEF RefusalsInOrder
  <2>2. remaining[1] = Gone + 1
    BY <1>3 DEF RecoveryInv, InOrder, RecoveryTyped
  <2>3. 1 \in DOMAIN answered /\ answered # <<>>
    BY <1>3
  <2> QED BY <1>3, <2>1, <2>2, <2>3 DEF Settled, PauseClasses
<1>9. n = 1 => answered[1] = reason
  BY <1>3
<1>10. AnswersInOrder'
  BY <1>2, <1>7 DEF AnswersInOrder
<1>11. gated' \in 0..session'
  BY <1>1, <1>2, <1>7, SizesType DEF RecoveryTyped
<1>12. ASSUME NEW k \in {n - 1, n}, final' = Finalized(k), Settled => k >= 1
       PROVE  /\ Counted' /\ refreshes' \in Seq(Events) /\ DOMAIN refreshes' = DOMAIN refreshes
              /\ \A i \in DOMAIN refreshes : refreshes'[i].url = refreshes[i].url
              /\ final' \in Results
              /\ \A u \in Urls : final'[u] = IF Gone < u /\ u <= Gone + k
                                             THEN answered[u - Gone] ELSE final[u]
              /\ \A u \in Urls : u <= Gone' => final'[u] \in Classes \ PauseClasses
              /\ \A u \in Urls : u > Gone' + 1 => final'[u] = "none"
  <2>1. k \in 0..Len(answered)
    <3>1. k \in 0..n
      BY <1>17
    <3> QED BY <3>1 DEF n
  <2>2. /\ Counted' /\ refreshes' \in Seq(Events) /\ DOMAIN refreshes' = DOMAIN refreshes
        /\ \A i \in DOMAIN refreshes : refreshes'[i].url = refreshes[i].url
        /\ final' \in Results
        /\ \A u \in Urls : final'[u] = IF Gone < u /\ u <= Gone + k
                                       THEN answered[u - Gone] ELSE final[u]
    BY <1>1, <1>2, <1>12, <2>1, SettlingCounts
  <2>3. \A u \in Urls : u <= Gone' => final'[u] \in Classes \ PauseClasses
    <3>1. \A u \in Urls : u <= Gone => ~(Gone < u /\ u <= Gone + k)
      BY <1>17
    <3>2. \A u \in Urls : u > Gone /\ u <= Gone' =>
            u - Gone \in 1..n /\ u - Gone < n /\ u <= Gone + k /\ Gone < u
      BY <1>17
    <3>3. \A u \in Urls : u <= Gone => final'[u] \in Classes \ PauseClasses
      BY <1>1, <2>2, <3>1 DEF ResultsInOrder
    <3>4. \A u \in Urls : u > Gone /\ u <= Gone' => final'[u] \in Classes \ PauseClasses
      <4>1. \A u \in Urls : u > Gone /\ u <= Gone' => final'[u] = answered[u - Gone]
        BY <2>2, <3>2
      <4>2. \A i \in 1..n : i < n => answered[i] \in Classes \ PauseClasses
        BY <1>3
      <4> QED BY <3>2, <4>1, <4>2
    <3>5. \A u \in Urls : u <= Gone \/ u > Gone
      BY <1>17
    <3> QED BY <3>3, <3>4, <3>5
  <2>4. \A u \in Urls : u > Gone' + 1 => final'[u] = "none"
    <3>1. \A u \in Urls : u > Gone' + 1 => u > Gone + 1 /\ ~(u <= Gone + k)
      BY <1>3
    <3> QED BY <1>1, <1>3, <2>2, <3>1 DEF ResultsInOrder
  <2> QED BY <2>2, <2>3, <2>4
<1>13. CASE /\ Refresh(p) /\ pending' = remaining[n] /\ final' = Finalized(n - 1)
            /\ UNCHANGED stop
  <2>1. Settled => n - 1 >= 1
    <3>1. reason \in Recoverable
      BY <1>5, <1>13 DEF Refresh
    <3> QED BY <1>3, <1>9, <3>1 DEF Settled
  <2>2. /\ at' = "login" /\ why' = p /\ why' \in Purposes /\ reason \in Recoverable
        /\ stop' = "none"
    BY <1>1, <1>5, <1>7, <1>13 DEF Refresh
  <2>3. /\ Counted' /\ refreshes' \in Seq(Events) /\ DOMAIN refreshes' = DOMAIN refreshes
        /\ \A i \in DOMAIN refreshes : refreshes'[i].url = refreshes[i].url
        /\ final' \in Results
        /\ \A u \in Urls : final'[u] = IF Gone < u /\ u <= Gone + (n - 1)
                                       THEN answered[u - Gone] ELSE final[u]
        /\ \A u \in Urls : u <= Gone' => final'[u] \in Classes \ PauseClasses
        /\ \A u \in Urls : u > Gone' + 1 => final'[u] = "none"
    BY <1>12, <1>13, <2>1
  <2>4. RecoveryTyped'
    <3>1. pending' \in {0} \cup Urls /\ answered' \in Seq(Answers)
      BY <1>2, <1>3, <1>13
    <3> QED BY <1>1, <1>2, <1>3, <1>7, <1>11, <2>2, <2>3, <3>1 DEF RecoveryTyped
  <2>5. ResultsInOrder'
    <3>1. \A u \in Urls : u > Gone' => final'[u] = "none"
      <4>1. \A u \in Urls : u > Gone' => ~(u <= Gone + (n - 1)) /\ u > Gone
        BY <1>3
      <4> QED BY <1>1, <2>3, <4>1 DEF ResultsInOrder
    <3> QED BY <2>2, <2>3, <3>1 DEF ResultsInOrder
  <2>6. RefusalsInOrder'
    <3>1. pending' = Gone' + 1 /\ why'.url = pending' /\ pending' # 0 /\ why'.reason = reason
      BY <1>3, <1>5, <1>13, <2>2
    <3>2. \A i \in DOMAIN refreshes : LET u == refreshes[i].url IN
            u <= Gone' \/ (u = Gone' + 1 /\ pending' = u)
      <4>1. \A i \in DOMAIN refreshes : refreshes[i].url <= Gone \/ refreshes[i].url = Gone + 1
        BY <1>1 DEF RefusalsInOrder
      <4>2. \A i \in DOMAIN refreshes : refreshes[i].url \in Int
        <5>1. \A i \in DOMAIN refreshes : refreshes[i] \in Events
          BY <1>1 DEF RecoveryTyped
        <5> QED BY <1>3, <5>1 DEF Events
      <4>3. \A u \in Int : u <= Gone \/ u = Gone + 1 => u <= Gone' \/ u = Gone' + 1
        BY <1>3
      <4> QED BY <3>1, <4>1, <4>2, <4>3
    <3> QED BY <1>3, <1>4, <2>2, <2>3, <3>1, <3>2 DEF RefusalsInOrder
  <2> QED BY <1>3, <1>10, <2>3, <2>4, <2>5, <2>6 DEF RecoveryInv
<1>14. CASE /\ GiveUp(reason) /\ pending' = (IF Settled THEN 0 ELSE pending)
            /\ final' = Finalized(n)
  <2>1. at' = "report" /\ why' = why /\ stop' # "none"
    BY <1>1, <1>7, <1>14 DEF GiveUp
  <2>2. /\ Counted' /\ refreshes' \in Seq(Events) /\ DOMAIN refreshes' = DOMAIN refreshes
        /\ \A i \in DOMAIN refreshes : refreshes'[i].url = refreshes[i].url
        /\ final' \in Results
        /\ \A u \in Urls : u <= Gone' => final'[u] \in Classes \ PauseClasses
        /\ \A u \in Urls : u > Gone' + 1 => final'[u] = "none"
    <3>1. n >= 1 /\ n \in {n - 1, n}
      BY <1>3
    <3> QED BY <1>12, <1>14, <3>1
  <2>3. RecoveryTyped'
    <3>1. pending' \in {0} \cup Urls /\ answered' \in Seq(Answers)
      BY <1>1, <1>2, <1>14 DEF RecoveryTyped
    <3> QED BY <1>1, <1>2, <1>3, <1>7, <1>11, <2>1, <2>2, <3>1 DEF RecoveryTyped
  <2>4. ResultsInOrder'
    <3>1. \A u \in Urls : u > Gone' => u = Gone' + 1 \/ u > Gone' + 1
      BY <1>3
    <3> QED BY <2>1, <2>2, <3>1 DEF ResultsInOrder
  <2>5. RefusalsInOrder'
    <3>1. pending' # 0 => pending' = pending /\ pending' = Gone' + 1
      <4>1. pending' # 0 => pending' = pending /\ ~Settled
        BY <1>14
      <4>2. pending # 0 => pending = Gone + 1
        BY <1>1 DEF RefusalsInOrder
      <4>3. n = 1 => Gone' = Gone
        BY <1>3
      <4>4. n = 1 \/ n > 1
        BY <1>3
      <4> QED BY <1>8, <4>1, <4>2, <4>3, <4>4
    <3>2. \A i \in DOMAIN refreshes : LET u == refreshes[i].url IN u <= Gone' \/ u = Gone' + 1
      <4>1. \A i \in DOMAIN refreshes : refreshes[i].url <= Gone \/ refreshes[i].url = Gone + 1
        BY <1>1 DEF RefusalsInOrder
      <4>2. \A i \in DOMAIN refreshes : refreshes[i].url \in Int
        <5>1. \A i \in DOMAIN refreshes : refreshes[i] \in Events
          BY <1>1 DEF RecoveryTyped
        <5> QED BY <1>3, <5>1 DEF Events
      <4>3. \A u \in Int : u <= Gone \/ u = Gone + 1 => u <= Gone' \/ u = Gone' + 1
        BY <1>3
      <4> QED BY <4>1, <4>2, <4>3
    <3>3. pending' # 0 => \E i \in DOMAIN refreshes' : refreshes'[i].url = pending'
      <4>1. pending # 0 => \E i \in DOMAIN refreshes : refreshes[i].url = pending
        BY <1>1, <1>6 DEF RefusalsInOrder
      <4> QED BY <2>2, <3>1, <4>1
    <3> QED BY <1>1, <1>3, <1>6, <2>1, <2>2, <3>1, <3>2, <3>3 DEF RefusalsInOrder
  <2> QED BY <1>3, <1>10, <2>2, <2>3, <2>4, <2>5 DEF RecoveryInv
<1> QED BY <1>2, <1>13, <1>14

LEMMA RecoveryKeeps == RecoveryInv /\ [Next]_vars => RecoveryInv'
<1>1. ASSUME RecoveryInv, UNCHANGED vars PROVE RecoveryInv'
  <2>1. UNCHANGED <<at, remaining, answered, final, session, usable, gated, why, refreshes,
                    pending, late, stop, exit>>
    BY <1>1 DEF vars
  <2>2. RecoveryTyped' /\ AnswersInOrder'
    BY <1>1, <2>1 DEF RecoveryInv, RecoveryTyped, AnswersInOrder, Segment
  <2> QED BY <1>1, <2>1, <2>2, NothingDealtWith DEF RecoveryInv, ResultsInOrder, RefusalsInOrder
<1>2. ASSUME RecoveryInv, Next PROVE RecoveryInv'
  BY <1>2, AnswerKeeps, ClockKeeps, GateOverKeeps, BulkUnusableKeeps, LoginKeeps,
     AllAnsweredKeeps, RefusedKeeps DEF Next, Step
<1> QED BY <1>1, <1>2

-----------------------------------------------------------------------------
\* bounded-session-recovery.ts and throughput.ts: across any sequence of sessions each URL
\* keeps its one result, and what counts as recovered was answered again; in every call of
\* the crawl, whatever handlers were given up on and wherever an earlier call was killed,
\* each further row of a URL is a handler's, with a stray one for each, and a crawl that
\* comes to its end leaves no URL without a row.
THEOREM EveryUrlExplained == CommandSpec => []UrlsExplained
<1>1. CommandInit => RecoveryInv /\ RowsInv
  BY RecoveryInits, RowsInits DEF CommandInit
<1>2. RecoveryInv /\ RowsInv /\ [CommandNext]_all => (RecoveryInv /\ RowsInv)'
  BY StepsOfCommands, RecoveryKeeps, RowsKeep
<1>3. RecoveryInv /\ RowsInv => UrlsExplained
  BY RecoveryAccounts DEF RowsInv, UrlsExplained
<1> QED BY <1>1, <1>2, <1>3, PTL DEF CommandSpec

-----------------------------------------------------------------------------
(* The probes: what is asked for, and in which order.                      *)

Requests == [purpose : Probe!Purposes, url : Sites \cup {"home"}]
Tries == [request : Requests, kind : Probe!Kinds, at : Nat]
Of(s) == {s[i] : i \in DOMAIN s}
Lines == Of(lines)
Home == Probe!For("home", "home")
Revisit == Probe!For("revisit", lines[1])

\* The requests that ended, those in the queue, and all there are.
Asked == {log[i].request : i \in DOMAIN log}
Queued == Of(waiting)
Known == Asked \cup Queued \cup flying

ProbeTyped ==
  /\ tool \in Probe!Tools /\ lines \in Seq(Sites) /\ lines # <<>>
  /\ tool = "login" => Len(lines) = 1
  /\ stage \in {"start", "thrown", "written", "http", "browser", "login"}
  /\ waiting \in Seq(Requests) /\ flying \subseteq Requests /\ IsFiniteSet(flying)
  /\ log \in Seq(Tries)
  /\ report.first \in 0..Len(lines) /\ Len(report.results) \in {0, Len(lines)}

NoTwice(s) == \A i, j \in DOMAIN s : s[i] = s[j] => i = j

\* No request is made twice.
Once ==
  /\ \A i, j \in DOMAIN log : log[i].request = log[j].request => i = j
  /\ NoTwice(waiting)
  /\ Asked \cap Queued = {} /\ Asked \cap flying = {} /\ Queued \cap flying = {}

Each(purpose) == {Probe!For(purpose, u) : u \in Lines}

\* Whether a URL was read over HTTP.
ReadByHttp(u) ==
  \E i \in DOMAIN log : log[i].request = Probe!For("http", u) /\ log[i].kind = "success"
Missed == {Probe!For("browser", u) : u \in {v \in Lines : ~ReadByHttp(v)}}

\* What the passes so far ask for.
Passes ==
  /\ stage = "start" => waiting = <<>> /\ flying = {} /\ log = <<>>
  /\ stage \in {"thrown", "written"} => waiting = <<>> /\ flying = {}
  /\ stage = "login" => tool = "login" /\ Known = Each("login")
  /\ stage = "http" => tool # "login" /\ Known = Each("http")
  /\ stage = "browser" =>
       /\ tool \in {"smoke", "diagnose"} /\ Each("http") \subseteq Asked
       /\ tool = "smoke" => Known = Each("http") \cup Missed
       /\ tool = "diagnose" => Known = Each("http") \cup Each("first") \cup {Home, Revisit}

\* Everything is asked for over HTTP first.
HttpFirst ==
  stage = "browser" =>
    \A i, j \in DOMAIN log :
      log[i].request.purpose # "http" /\ log[j].request.purpose = "http" => j < i

\* diagnose.ts's browser begins with the home page and ends with the second visit.
Touring == stage = "browser" /\ tool = "diagnose"
OneByOne == tool # "direct" => \A r, s \in flying : r = s
HomeFirst ==
  Touring =>
    /\ \A i, j \in DOMAIN log :
         log[i].request = Home /\ log[j].request.purpose # "http" => i <= j
    /\ Home \in flying \cup Queued => \A r \in Asked : r.purpose = "http"
    /\ Home \in Queued => waiting[1] = Home /\ flying = {}
RevisitLast ==
  Touring =>
    /\ \A i, j \in DOMAIN log : log[i].request = Revisit => j <= i
    /\ Revisit \in flying \cup Asked => waiting = <<>>
    /\ Revisit \in Asked => flying = {}
    /\ Revisit \in Queued => waiting[Len(waiting)] = Revisit

ProbeInv ==
  ProbeTyped /\ Once /\ Passes /\ HttpFirst /\ OneByOne /\ HomeFirst /\ RevisitLast
    /\ Probe!ReportTellsAll

\* Induction, for a set of numbers.
LEMMA NumbersByInduction ==
  ASSUME NEW T, 0 \in T, \A n \in Nat : n \in T => n + 1 \in T
  PROVE  \A n \in Nat : n \in T
<1> SUFFICES ASSUME Nat \ T # {} PROVE FALSE
  OBVIOUS
<1>1. PICK x \in Nat \ T : \A y \in Nat \ T : <<y, x>> \notin OpToRel(<, Nat)
  BY NatLessThanWellFounded, WFMin
<1>2. x # 0 /\ x - 1 \in Nat /\ x - 1 + 1 = x
  BY SMT
<1>3. x - 1 \in Nat \ T
  BY <1>2
<1>4. <<x - 1, x>> \in OpToRel(<, Nat)
  BY <1>2 DEF OpToRel
<1> QED BY <1>1, <1>3, <1>4

-----------------------------------------------------------------------------
(* The queue that is made of the requests of a pass.                       *)

\* The queue made of the requests in each set of positions up to n.
QueuesOf(f, requests, n) ==
  f = [s \in SUBSET (1..n) |->
         IF s = {} THEN <<>>
         ELSE Probe!Added(f[s \ {Probe!Max(s)}], requests[Probe!Max(s)])]

LEMMA MaxIs ==
  ASSUME NEW S, S \subseteq Nat, NEW n \in S, \A y \in S : y <= n
  PROVE  Probe!Max(S) = n
<1> DEFINE Greatest(x) == \A y \in S : x >= y
<1>1. \A x \in S : Greatest(x) <=> x = n
  OBVIOUS
<1>2. (CHOOSE x \in S : Greatest(x)) = n
  <2> HIDE DEF Greatest
  <2> QED BY <1>1
<1> QED BY <1>2 DEF Probe!Max

LEMMA MaxOfPositions ==
  ASSUME NEW s, NEW n \in Nat, s \subseteq 1..n, n \in s
  PROVE  Probe!Max(s) = n
<1>1. s \subseteq Nat /\ \A y \in s : y <= n
  OBVIOUS
<1> QED BY <1>1, MaxIs

LEMMA BelowTop ==
  ASSUME NEW n \in Nat, NEW s \in SUBSET (1..n + 1), n + 1 \notin s, NEW x
  PROVE  s \in SUBSET (1..n) /\ s \ {x} \in SUBSET (1..n + 1) /\ n + 1 \notin s \ {x}
<1>1. \A y \in s : y \in 1..n
  <2>1. \A y \in 1..n + 1 : y # n + 1 => y \in 1..n
    OBVIOUS
  <2> QED BY <2>1
<1> QED BY <1>1

LEMMA QueuesExist ==
  ASSUME NEW requests
  PROVE  \A n \in Nat : \E f : QueuesOf(f, requests, n)
<1> DEFINE T == {n \in Nat : \E f : QueuesOf(f, requests, n)}
<1>1. 0 \in T
  <2> DEFINE f == [s \in SUBSET (1..0) |-> <<>>]
  <2>1. \A s \in SUBSET (1..0) : s = {}
    OBVIOUS
  <2>2. f = [s \in SUBSET (1..0) |->
               IF s = {} THEN <<>>
               ELSE Probe!Added(f[s \ {Probe!Max(s)}], requests[Probe!Max(s)])]
    BY <2>1
  <2>3. QueuesOf(f, requests, 0)
    BY <2>2 DEF QueuesOf
  <2> QED BY <2>3
<1>2. ASSUME NEW n \in Nat, n \in T PROVE n + 1 \in T
  <2>1. PICK f : QueuesOf(f, requests, n)
    BY <1>2
  <2> DEFINE g == [s \in SUBSET (1..n + 1) |->
                     IF n + 1 \in s THEN Probe!Added(f[s \ {n + 1}], requests[n + 1]) ELSE f[s]]
             h(s) == IF s = {} THEN <<>>
                     ELSE Probe!Added(g[s \ {Probe!Max(s)}], requests[Probe!Max(s)])
  <2>2. ASSUME NEW s \in SUBSET (1..n + 1) PROVE g[s] = h(s)
    <3>1. CASE n + 1 \in s
      <4>0. n + 1 \in Nat /\ s \subseteq 1..(n + 1)
        OBVIOUS
      <4>1. Probe!Max(s) = n + 1 /\ s # {}
        BY <3>1, <4>0, MaxOfPositions
      <4>2. s \ {n + 1} \in SUBSET (1..n + 1) /\ n + 1 \notin s \ {n + 1}
        OBVIOUS
      <4>3. g[s \ {n + 1}] = f[s \ {n + 1}]
        BY <4>2
      <4> QED BY <3>1, <4>1, <4>3
    <3>2. CASE n + 1 \notin s
      <4> DEFINE x == Probe!Max(s)
      <4>1. s \in SUBSET (1..n) /\ s \ {x} \in SUBSET (1..n + 1) /\ n + 1 \notin s \ {x}
        BY <3>2, BelowTop
      <4>2. g[s] = f[s] /\ g[s \ {x}] = f[s \ {x}]
        BY <3>2, <4>1
      <4>3. f[s] = IF s = {} THEN <<>> ELSE Probe!Added(f[s \ {x}], requests[x])
        BY <2>1, <4>1 DEF QueuesOf
      <4> QED BY <4>2, <4>3
    <3> QED BY <3>1, <3>2
  <2>3. g = [s \in SUBSET (1..n + 1) |-> h(s)]
    BY <2>2
  <2>4. QueuesOf(g, requests, n + 1)
    BY <2>3 DEF QueuesOf
  <2> QED BY <2>4
<1> HIDE DEF T
<1>3. \A n \in Nat : n \in T
  BY <1>1, <1>2, NumbersByInduction
<1> QED BY <1>3 DEF T

\* Requests are taken up one after the other.
LEMMA EnqueuedInTurn ==
  ASSUME NEW requests, NEW k \in Nat, DOMAIN requests = 1..k
  PROVE  \E q : /\ q[0] = <<>> /\ Probe!Enqueued(requests) = q[k]
                /\ \A n \in 1..k : q[n] = Probe!Added(q[n - 1], requests[n])
<1>1. PICK f0 : QueuesOf(f0, requests, k)
  BY QueuesExist
<1> DEFINE f == CHOOSE f : QueuesOf(f, requests, k)
<1>2. QueuesOf(f, requests, k)
  BY <1>1
<1>3. Probe!Enqueued(requests) = f[1..k]
  BY DEF Probe!Enqueued, Probe!FoldLeft, Probe!MapThenFoldSet, QueuesOf
<1> DEFINE q == [n \in 0..k |-> f[1..n]]
<1> HIDE DEF f
<1>4. q[0] = <<>>
  <2>1. 1..0 = {} /\ 1..0 \in SUBSET (1..k) /\ 0 \in 0..k
    OBVIOUS
  <2> QED BY <1>2, <2>1 DEF QueuesOf
<1>5. ASSUME NEW n \in 1..k PROVE q[n] = Probe!Added(q[n - 1], requests[n])
  <2>1. /\ 1..n \in SUBSET (1..k) /\ 1..n # {} /\ (1..n) \ {n} = 1..(n - 1)
        /\ n \in 0..k /\ n - 1 \in 0..k
    OBVIOUS
  <2>2. n \in Nat /\ 1..n \subseteq 1..n /\ n \in 1..n
    OBVIOUS
  <2>3. Probe!Max(1..n) = n
    BY <2>2, MaxOfPositions
  <2> QED BY <1>2, <2>1, <2>3 DEF QueuesOf
<1>6. q[k] = f[1..k]
  OBVIOUS
<1> HIDE DEF q
<1> QED BY <1>3, <1>4, <1>5, <1>6

\* What the queue would take.
Wanted == {r \in Requests : Probe!FallsBack(r) /\ r \notin Asked}

\* The queue takes what is wanted and is new.
LEMMA AddedIs ==
  ASSUME log \in Seq(Tries), NEW queue \in Seq(Requests), NEW r \in Requests
  PROVE  Probe!Added(queue, r) =
           IF r \in Wanted /\ r \notin Of(queue)
           THEN Append(queue, r) ELSE queue
<1>1. Probe!Range(Probe!Made) = Asked /\ Probe!Range(queue) = Of(queue)
  <2>1. Probe!Range(Probe!Made) = {Probe!Made[i] : i \in DOMAIN log}
    BY DEF Probe!Range, Probe!Made
  <2>2. \A i \in DOMAIN log : Probe!Made[i] = log[i].request
    BY DEF Probe!Made
  <2> QED BY <2>1, <2>2 DEF Probe!Range, Of, Asked
<1>2. Asked \subseteq Requests /\ Of(queue) \subseteq Requests
  <2>1. \A i \in DOMAIN log : log[i] \in Tries
    OBVIOUS
  <2>2. \A i \in DOMAIN queue : queue[i] \in Requests
    OBVIOUS
  <2> QED BY <2>1, <2>2 DEF Asked, Of, Tries
<1>3. \A s \in Requests : Probe!Key(s) = Probe!Key(r) <=> s = r
  BY DEF Probe!Key, Requests
<1>4. (\A s \in Asked \cup Of(queue) : Probe!Key(s) # Probe!Key(r))
        <=> r \notin Asked /\ r \notin Of(queue)
  BY <1>2, <1>3
<1> QED BY <1>1, <1>4 DEF Probe!Added, Wanted

LEMMA AppendedIs ==
  ASSUME NEW R, NEW queue \in Seq(R), NEW r \in R
  PROVE  /\ Append(queue, r) \in Seq(R) /\ Len(Append(queue, r)) = Len(queue) + 1
         /\ Of(Append(queue, r)) = Of(queue) \cup {r}
         /\ Append(queue, r)[Len(queue) + 1] = r
         /\ \A i \in 1..Len(queue) : Append(queue, r)[i] = queue[i]
         /\ queue # <<>> => Append(queue, r)[1] = queue[1]
         /\ Append(queue, r) # <<>>
<1>1. /\ Append(queue, r) \in Seq(R) /\ Len(Append(queue, r)) = Len(queue) + 1
      /\ Append(queue, r)[Len(queue) + 1] = r
      /\ \A i \in 1..Len(queue) : Append(queue, r)[i] = queue[i]
  BY AppendProperties
<1>2. DOMAIN queue = 1..Len(queue) /\ Len(queue) \in Nat
  OBVIOUS
<1>3. DOMAIN Append(queue, r) = 1..(Len(queue) + 1)
  BY <1>1
<1>4. 1..(Len(queue) + 1) = 1..Len(queue) \cup {Len(queue) + 1}
  BY <1>2
<1>5. Of(Append(queue, r)) = Of(queue) \cup {r}
  <2>1. Of(Append(queue, r)) = {Append(queue, r)[i] : i \in 1..Len(queue) \cup {Len(queue) + 1}}
    BY <1>3, <1>4 DEF Of
  <2>2. Of(queue) = {queue[i] : i \in 1..Len(queue)}
    BY <1>2 DEF Of
  <2> QED BY <1>1, <2>1, <2>2
<1>6. queue # <<>> => 1 \in 1..Len(queue)
  BY <1>2, EmptySeq
<1>7. Append(queue, r) # <<>>
  <2>1. Len(Append(queue, r)) # 0
    BY <1>1, <1>2
  <2> QED BY <2>1, EmptySeq
<1> QED BY <1>1, <1>5, <1>6, <1>7

LEMMA AppendedOnce ==
  ASSUME NEW R, NEW queue \in Seq(R), NEW r \in R, NoTwice(queue), r \notin Of(queue)
  PROVE  NoTwice(Append(queue, r))
<1>1. /\ Len(queue) \in Nat /\ DOMAIN queue = 1..Len(queue)
      /\ DOMAIN Append(queue, r) = 1..(Len(queue) + 1)
      /\ Append(queue, r)[Len(queue) + 1] = r
      /\ \A i \in 1..Len(queue) : Append(queue, r)[i] = queue[i] /\ queue[i] # r
  BY AppendedIs DEF Of
<1>2. \A i \in 1..(Len(queue) + 1) : i \in 1..Len(queue) \/ i = Len(queue) + 1
  BY <1>1
<1> QED BY <1>1, <1>2 DEF NoTwice

\* A pass takes up what is wanted of its requests, each once; the first request stays first,
\* and the last one last when it comes but once.
LEMMA EnqueuedIs ==
  ASSUME log \in Seq(Tries), NEW requests \in Seq(Requests)
  PROVE  LET queue == Probe!Enqueued(requests) IN
         /\ queue \in Seq(Requests) /\ NoTwice(queue)
         /\ Of(queue) = Of(requests) \cap Wanted
         /\ requests # <<>> /\ requests[1] \in Wanted =>
              queue # <<>> /\ queue[1] = requests[1]
         /\ requests # <<>> /\ requests[Len(requests)] \in Wanted
              /\ (\A i \in 1..(Len(requests) - 1) : requests[i] # requests[Len(requests)]) =>
              queue # <<>> /\ queue[Len(queue)] = requests[Len(requests)]
<1> DEFINE k == Len(requests)
           From(n) == {requests[i] : i \in 1..n}
<1>1. k \in Nat /\ DOMAIN requests = 1..k /\ \A i \in 1..k : requests[i] \in Requests
  OBVIOUS
<1>2. PICK q : /\ q[0] = <<>> /\ Probe!Enqueued(requests) = q[k]
               /\ \A n \in 1..k : q[n] = Probe!Added(q[n - 1], requests[n])
  <2> HIDE DEF k
  <2> QED BY <1>1, EnqueuedInTurn
<1> DEFINE Right(n) ==
             /\ q[n] \in Seq(Requests) /\ NoTwice(q[n]) /\ Of(q[n]) = From(n) \cap Wanted
             /\ n # 0 /\ requests[1] \in Wanted => q[n] # <<>> /\ q[n][1] = requests[1]
           T == {n \in Nat : n <= k => Right(n)}
<1>3. 0 \in T
  <2>1. <<>> \in Seq(Requests) /\ NoTwice(<<>>) /\ Of(<<>>) = {}
    BY DEF NoTwice, Of
  <2>2. From(0) = {}
    OBVIOUS
  <2>3. Right(0)
    BY <1>2, <2>1, <2>2
  <2> QED BY <2>3
<1>4. ASSUME NEW n \in Nat, n \in T PROVE n + 1 \in T
  <2> SUFFICES ASSUME n + 1 <= k PROVE Right(n + 1)
    OBVIOUS
  <2> DEFINE r == requests[n + 1]
  <2>1. n + 1 \in 1..k /\ n + 1 - 1 = n /\ n <= k /\ n + 1 # 0
    BY <1>1
  <2>2. Right(n)
    BY <1>4, <2>1
  <2>3. r \in Requests
    BY <1>1, <2>1
  <2>4. q[n + 1] = IF r \in Wanted /\ r \notin Of(q[n]) THEN Append(q[n], r) ELSE q[n]
    <3>1. q[n + 1] = Probe!Added(q[n], r)
      BY <1>2, <2>1
    <3> QED BY <2>2, <2>3, <3>1, AddedIs
  <2>5. From(n + 1) = From(n) \cup {r}
    <3>1. 1..(n + 1) = 1..n \cup {n + 1}
      OBVIOUS
    <3> QED BY <3>1
  <2>6. n = 0 => r = requests[1] /\ q[n] = <<>>
    BY <1>2
  <2> HIDE DEF From, r, k, T
  <2>7. CASE r \in Wanted /\ r \notin Of(q[n])
    <3>1. q[n + 1] = Append(q[n], r)
      BY <2>4, <2>7
    <3>2. q[n + 1] \in Seq(Requests) /\ Of(q[n + 1]) = Of(q[n]) \cup {r}
      BY <2>2, <2>3, <3>1, AppendedIs
    <3>3. NoTwice(q[n + 1])
      BY <2>2, <2>3, <2>7, <3>1, AppendedOnce
    <3>4. Of(q[n + 1]) = From(n + 1) \cap Wanted
      BY <2>2, <2>5, <2>7, <3>2
    <3>5. q[n + 1] # <<>>
      BY <2>2, <2>3, <3>1, AppendedIs
    <3>6. n = 0 => q[n + 1][1] = requests[1]
      <4>1. n = 0 => Len(q[n]) + 1 = 1
        BY <2>6, EmptySeq
      <4>2. Append(q[n], r)[Len(q[n]) + 1] = r
        BY <2>2, <2>3, AppendedIs
      <4> QED BY <2>6, <3>1, <4>1, <4>2
    <3>7. n # 0 /\ requests[1] \in Wanted => q[n + 1][1] = requests[1]
      BY <2>2, <2>3, <3>1, AppendedIs
    <3> QED BY <3>2, <3>3, <3>4, <3>5, <3>6, <3>7
  <2>8. CASE ~(r \in Wanted /\ r \notin Of(q[n]))
    <3>1. q[n + 1] = q[n]
      BY <2>4, <2>8
    <3>2. Of(q[n + 1]) = From(n + 1) \cap Wanted
      BY <2>2, <2>5, <2>8, <3>1
    <3>3. n = 0 => requests[1] \notin Wanted
      <4>1. Of(<<>>) = {}
        BY DEF Of
      <4> QED BY <2>6, <2>8, <4>1
    <3> QED BY <2>2, <3>1, <3>2, <3>3
  <2> QED BY <2>7, <2>8
<1>5. \A n \in Nat : n \in T
  <2> HIDE DEF T
  <2> QED BY <1>3, <1>4, NumbersByInduction
<1>6. Right(k)
  <2>1. k \in Nat /\ k <= k
    BY <1>1
  <2>2. k \in T
    <3> HIDE DEF T, k
    <3> QED BY <1>5, <2>1
  <2> HIDE DEF Right, k
  <2> QED BY <2>1, <2>2
<1>7. From(k) = Of(requests)
  BY <1>1 DEF Of
<1>8. requests # <<>> => k # 0
  BY <1>1, EmptySeq
<1>9. ASSUME requests # <<>>, requests[k] \in Wanted,
             \A i \in 1..(k - 1) : requests[i] # requests[k]
      PROVE  q[k] # <<>> /\ q[k][Len(q[k])] = requests[k]
  <2>1. k \in 1..k /\ k - 1 \in Nat /\ k - 1 <= k
    BY <1>1, <1>8, <1>9
  <2>2. Right(k - 1)
    BY <1>5, <2>1
  <2>3. requests[k] \in Requests /\ requests[k] \notin Of(q[k - 1])
    BY <1>1, <1>9, <2>1, <2>2
  <2>4. q[k] = Append(q[k - 1], requests[k])
    <3>1. q[k] = Probe!Added(q[k - 1], requests[k])
      BY <1>2, <2>1
    <3> QED BY <1>9, <2>2, <2>3, <3>1, AddedIs
  <2>5. Len(q[k]) = Len(q[k - 1]) + 1 /\ q[k][Len(q[k - 1]) + 1] = requests[k] /\ q[k] # <<>>
    <3>1. q[k - 1] \in Seq(Requests)
      BY <2>2
    <3> HIDE DEF k, Right
    <3> QED BY <2>3, <2>4, <3>1, AppendedIs
  <2> QED BY <2>5
<1> HIDE DEF From, T
<1> QED BY <1>2, <1>6, <1>7, <1>8, <1>9

-----------------------------------------------------------------------------
(* The steps of a probe.                                                   *)

LEMMA ProbeCounts ==
  \A S : Probe!Cardinality(S) = Cardinality(S) /\ Probe!IsFiniteSet(S) = IsFiniteSet(S)
BY DEF Probe!Cardinality, Cardinality, Probe!IsFiniteSet, IsFiniteSet

\* The purposes tell the requests apart.
LEMMA PurposesDiffer ==
  \A p, q \in Probe!Purposes, u, v \in Sites \cup {"home"} :
    /\ Probe!For(p, u) \in Requests
    /\ Probe!For(p, u).purpose = p /\ Probe!For(p, u).url = u
    /\ Probe!For(p, u) = Probe!For(q, v) => p = q /\ u = v
<1>1. \A p \in Probe!Purposes, u \in Sites \cup {"home"} :
        /\ Probe!For(p, u) \in Requests
        /\ Probe!For(p, u).purpose = p /\ Probe!For(p, u).url = u
  BY DEF Probe!For, Requests
<1> QED BY <1>1

LEMMA LineRequests ==
  ASSUME ProbeTyped, NEW p \in Probe!Purposes
  PROVE  /\ Probe!EachLine(p) \in Seq(Requests) /\ Of(Probe!EachLine(p)) = Each(p)
         /\ Len(Probe!EachLine(p)) = Len(lines)
         /\ Each(p) \subseteq Requests /\ \A r \in Each(p) : r.purpose = p
<1>1. lines \in Seq(Sites) /\ DOMAIN lines = 1..Len(lines) /\ Len(lines) \in Nat
  BY DEF ProbeTyped
<1>2. \A i \in DOMAIN lines : Probe!For(p, lines[i]) \in Requests
  BY <1>1 DEF Probe!For, Requests
<1>3. Probe!EachLine(p) = [i \in 1..Len(lines) |-> Probe!For(p, lines[i])]
  BY <1>1 DEF Probe!EachLine
<1>4. Probe!EachLine(p) \in Seq(Requests) /\ Len(Probe!EachLine(p)) = Len(lines)
  BY <1>1, <1>2, <1>3
<1>5. Of(Probe!EachLine(p)) = {Probe!For(p, lines[i]) : i \in 1..Len(lines)}
  BY <1>3 DEF Of
<1>6. Each(p) = {Probe!For(p, lines[i]) : i \in 1..Len(lines)}
  BY <1>1 DEF Each, Lines, Of
<1>7. \A r \in Each(p) : r \in Requests /\ r.purpose = p
  <2>1. \A i \in 1..Len(lines) : Probe!For(p, lines[i]).purpose = p
    BY DEF Probe!For
  <2> QED BY <1>1, <1>2, <1>6, <2>1
<1> QED BY <1>4, <1>5, <1>6, <1>7

LEMMA ProbeInits == Probe!Init => ProbeInv
<1> SUFFICES ASSUME Probe!Init PROVE ProbeInv
  OBVIOUS
<1>1. /\ stage = "start" /\ waiting = <<>> /\ flying = {} /\ log = <<>> /\ tool \in Probe!Tools
      /\ tool = "login" => Len(lines) = 1
      /\ report = [results |-> <<>>, first |-> 0, visits |-> {}]
  BY DEF Probe!Init, Probe!NoReport
<1>2. PICK n \in 1..MaxLines : lines \in [1..n -> Sites]
  BY DEF Probe!Init, Probe!Inputs
<1>3. n \in Nat /\ n # 0
  BY <1>2, ProbeInput DEF Probe!ProbeInput
<1>4. lines \in Seq(Sites) /\ Len(lines) = n
  BY <1>2, <1>3
<1>5. lines # <<>>
  BY <1>3, <1>4, EmptySeq
<1>6. ProbeTyped
  <2>1. <<>> \in Seq(Requests) /\ <<>> \in Seq(Tries) /\ IsFiniteSet({})
    BY FS_EmptySet
  <2>2. report.first = 0 /\ report.results = <<>> /\ Len(<<>>) = 0
    BY <1>1, EmptySeq
  <2>3. report.first \in 0..Len(lines) /\ Len(report.results) \in {0, Len(lines)}
    BY <1>3, <1>4, <2>2
  <2> QED BY <1>1, <1>4, <1>5, <2>1, <2>3 DEF ProbeTyped
<1>7. Once
  BY <1>1 DEF Once, Asked, Queued, Of, NoTwice
<1> QED BY <1>1, <1>6, <1>7
        DEF ProbeInv, Passes, HttpFirst, OneByOne, HomeFirst, RevisitLast, Touring,
            Probe!ReportTellsAll

\* A pass begins where nothing has been asked for.
LEMMA BeginKeeps == ProbeInv /\ Probe!Begin => ProbeInv'
<1> SUFFICES ASSUME ProbeInv, Probe!Begin PROVE ProbeInv'
  OBVIOUS
<1>1. /\ stage = "start" /\ waiting = <<>> /\ flying = {} /\ log = <<>>
      /\ UNCHANGED <<tool, lines, flying, log, report>>
  BY DEF Probe!Begin, ProbeInv, Passes
<1>2. ProbeTyped
  BY DEF ProbeInv
<1>3. Asked = {} /\ Asked' = {} /\ Queued = {}
  BY <1>1 DEF Asked, Queued, Of
<1>4. CASE stage' = "thrown" /\ waiting' = waiting
  <2>1. ProbeTyped'
    BY <1>1, <1>2, <1>4 DEF ProbeTyped
  <2>2. Once'
    BY <1>1, <1>3, <1>4 DEF ProbeInv, Once, Queued
  <2> QED BY <1>1, <1>4, <2>1, <2>2
          DEF ProbeInv, Passes, HttpFirst, OneByOne, HomeFirst, RevisitLast, Touring,
              Probe!ReportTellsAll
<1>5. ASSUME NEW pass \in {"http", "login"}, pass = IF tool = "login" THEN "login" ELSE "http",
             stage' = pass, waiting' = Probe!Enqueued(Probe!EachLine(pass))
      PROVE  ProbeInv'
  <2>1. pass \in Probe!Purposes
    BY DEF Probe!Purposes
  <2>2. /\ waiting' \in Seq(Requests) /\ NoTwice(waiting')
        /\ Of(waiting') = Each(pass) \cap Wanted
    BY <1>2, <1>5, <2>1, LineRequests, EnqueuedIs DEF ProbeTyped
  <2>3. Each(pass) \subseteq Wanted
    <3>1. \A r \in Each(pass) : r \in Requests /\ r.purpose # "browser"
      BY <1>2, <2>1, LineRequests
    <3> QED BY <1>3, <3>1 DEF Wanted, Probe!FallsBack
  <2>4. Queued' = Each(pass) /\ Known' = Each(pass)' /\ Each(pass)' = Each(pass)
    <3>1. Queued' = Each(pass)
      BY <2>2, <2>3 DEF Queued, Of
    <3>2. Each(pass)' = Each(pass)
      BY <1>1 DEF Each, Lines, Of
    <3> QED BY <1>1, <1>3, <3>1, <3>2 DEF Known
  <2>5. ProbeTyped'
    BY <1>1, <1>2, <1>5, <2>2 DEF ProbeTyped
  <2>6. Once'
    <3>1. NoTwice(waiting)'
      BY <2>2 DEF NoTwice
    <3> QED BY <1>1, <1>3, <3>1 DEF Once
  <2>7. Passes'
    <3>1. tool' = "login" <=> pass = "login"
      BY <1>1, <1>5
    <3> QED BY <1>5, <2>4, <3>1 DEF Passes
  <2> QED BY <1>1, <1>5, <2>5, <2>6, <2>7
          DEF ProbeInv, HttpFirst, OneByOne, HomeFirst, RevisitLast, Touring,
              Probe!ReportTellsAll
<1> QED BY <1>4, <1>5 DEF Probe!Begin

\* What is taken from the queue.
LEMMA TailIs ==
  ASSUME NEW R, NEW queue \in Seq(R), queue # <<>>
  PROVE  /\ Head(queue) = queue[1] /\ queue[1] \in R /\ Tail(queue) \in Seq(R)
         /\ Of(queue) = {queue[1]} \cup Of(Tail(queue))
         /\ NoTwice(queue) => NoTwice(Tail(queue)) /\ queue[1] \notin Of(Tail(queue))
         /\ Tail(queue) # <<>> => Tail(queue)[Len(Tail(queue))] = queue[Len(queue)]
         /\ NoTwice(queue) /\ queue[Len(queue)] = queue[1] => Tail(queue) = <<>>
<1>1. /\ Len(queue) \in Nat /\ DOMAIN queue = 1..Len(queue) /\ Len(queue) # 0
      /\ \A i \in 1..Len(queue) : queue[i] \in R
  BY EmptySeq
<1>2. /\ Head(queue) = queue[1] /\ Tail(queue) \in Seq(R) /\ Len(Tail(queue)) = Len(queue) - 1
      /\ \A i \in 1..(Len(queue) - 1) : Tail(queue)[i] = queue[i + 1]
  BY HeadTailProperties
<1>3. /\ DOMAIN Tail(queue) = 1..(Len(queue) - 1)
      /\ 1 \in 1..Len(queue) /\ Len(queue) \in 1..Len(queue)
      /\ \A i \in 1..(Len(queue) - 1) : i + 1 \in 1..Len(queue) /\ i + 1 # 1 /\ i \in Nat
  BY <1>1, <1>2
<1>4. Of(queue) = {queue[1]} \cup Of(Tail(queue))
  <2>1. ASSUME NEW i \in 1..Len(queue) PROVE queue[i] \in {queue[1]} \cup Of(Tail(queue))
    <3>1. CASE i = 1
      BY <3>1
    <3>2. CASE i # 1
      <4>1. i - 1 \in 1..(Len(queue) - 1) /\ i - 1 + 1 = i
        BY <1>1, <3>2
      <4>2. Tail(queue)[i - 1] = queue[i]
        BY <1>2, <4>1
      <4> QED BY <1>3, <4>1, <4>2 DEF Of
    <3> QED BY <3>1, <3>2
  <2>2. \A i \in DOMAIN Tail(queue) : Tail(queue)[i] \in Of(queue)
    BY <1>1, <1>2, <1>3 DEF Of
  <2>3. queue[1] \in Of(queue)
    BY <1>1, <1>3 DEF Of
  <2> QED BY <1>1, <2>1, <2>2, <2>3 DEF Of
<1>5. ASSUME NoTwice(queue) PROVE NoTwice(Tail(queue)) /\ queue[1] \notin Of(Tail(queue))
  <2>1. \A i, j \in 1..(Len(queue) - 1) : queue[i + 1] = queue[j + 1] => i = j
    <3>1. \A i, j \in 1..(Len(queue) - 1) : queue[i + 1] = queue[j + 1] => i + 1 = j + 1
      BY <1>1, <1>3, <1>5 DEF NoTwice
    <3> QED BY <3>1
  <2>2. \A i \in 1..(Len(queue) - 1) : queue[i + 1] # queue[1]
    BY <1>1, <1>3, <1>5 DEF NoTwice
  <2>3. \A i, j \in DOMAIN Tail(queue) : Tail(queue)[i] = Tail(queue)[j] => i = j
    BY <1>2, <1>3, <2>1
  <2>4. \A i \in DOMAIN Tail(queue) : Tail(queue)[i] # queue[1]
    BY <1>2, <1>3, <2>2
  <2> QED BY <2>3, <2>4 DEF NoTwice, Of
<1>6. Tail(queue) # <<>> => Tail(queue)[Len(Tail(queue))] = queue[Len(queue)]
  <2> SUFFICES ASSUME Tail(queue) # <<>>
               PROVE  Tail(queue)[Len(Tail(queue))] = queue[Len(queue)]
    OBVIOUS
  <2>1. Len(queue) - 1 # 0
    BY <1>2, EmptySeq
  <2>2. Len(queue) - 1 \in 1..(Len(queue) - 1) /\ Len(queue) - 1 + 1 = Len(queue)
    BY <1>1, <2>1
  <2> QED BY <1>2, <2>2
<1>7. NoTwice(queue) /\ queue[Len(queue)] = queue[1] => Tail(queue) = <<>>
  <2> SUFFICES ASSUME NoTwice(queue), queue[Len(queue)] = queue[1] PROVE Tail(queue) = <<>>
    OBVIOUS
  <2>1. Len(queue) = 1
    BY <1>1, <1>3 DEF NoTwice
  <2>2. Len(Tail(queue)) = 0
    BY <1>2, <2>1
  <2> QED BY <1>2, <2>2, EmptySeq
<1> QED BY <1>1, <1>2, <1>3, <1>4, <1>5, <1>6, <1>7

LEMMA VisitKeeps == ProbeInv /\ Probe!Visit => ProbeInv'
<1> SUFFICES ASSUME ProbeInv, Probe!Visit PROVE ProbeInv'
  OBVIOUS
<1> DEFINE r == waiting[1]
<1>1. /\ ProbeTyped /\ Once /\ waiting \in Seq(Requests) /\ waiting # <<>> /\ NoTwice(waiting)
      /\ UNCHANGED <<tool, lines, stage, log, report>>
  BY DEF Probe!Visit, ProbeInv, Once, ProbeTyped
<1>2. /\ waiting' = Tail(waiting) /\ flying' = flying \cup {r} /\ r \in Requests
      /\ waiting' \in Seq(Requests) /\ Queued = {r} \cup Queued' /\ r \notin Queued'
      /\ NoTwice(waiting')
  <2>1. waiting' = Tail(waiting) /\ flying' = flying \cup {r}
    BY <1>1, TailIs DEF Probe!Visit
  <2>2. Queued = Of(waiting) /\ Queued' = Of(Tail(waiting))
    BY <2>1 DEF Queued, Of
  <2>3. /\ r \in Requests /\ Tail(waiting) \in Seq(Requests)
        /\ Of(waiting) = {r} \cup Of(Tail(waiting)) /\ r \notin Of(Tail(waiting))
        /\ NoTwice(Tail(waiting))
    BY <1>1, TailIs
  <2> QED BY <2>1, <2>2, <2>3
<1>3. /\ waiting' # <<>> => waiting'[Len(waiting')] = waiting[Len(waiting)]
      /\ waiting[Len(waiting)] = r => waiting' = <<>>
  BY <1>1, <1>2, TailIs
<1> HIDE DEF r
<1>4. Asked' = Asked /\ Known' = Known
  BY <1>1, <1>2 DEF Asked, Known
<1>5. stage \in {"http", "browser", "login"}
  BY <1>1 DEF ProbeInv, Passes, ProbeTyped
<1>6. ProbeTyped'
  <2>1. IsFiniteSet(flying')
    BY <1>1, <1>2, FS_AddElement DEF ProbeTyped
  <2> QED BY <1>1, <1>2, <2>1 DEF ProbeTyped
<1>7. Once'
  <2>1. \A i, j \in DOMAIN log' : log'[i].request = log'[j].request => i = j
    BY <1>1 DEF Once
  <2>2. NoTwice(waiting)'
    BY <1>2 DEF NoTwice
  <2> QED BY <1>1, <1>2, <1>4, <2>1, <2>2 DEF Once
<1>8. Passes'
  <2>1. \A p : Each(p)' = Each(p)
    BY <1>1 DEF Each, Lines, Of
  <2>2. Missed' = Missed /\ Home' = Home /\ Revisit' = Revisit
    BY <1>1 DEF Missed, ReadByHttp, Lines, Of, Home, Revisit
  <2> QED BY <1>1, <1>4, <1>5, <2>1, <2>2 DEF ProbeInv, Passes
<1>9. OneByOne'
  <2> SUFFICES ASSUME tool # "direct" PROVE flying = {}
    BY <1>1, <1>2 DEF OneByOne
  <2>1. Cardinality(flying) < 1
    BY ProbeCounts DEF Probe!Visit, Probe!AtOnce
  <2>2. Cardinality(flying) \in Nat /\ IsFiniteSet(flying)
    BY <1>1, FS_CardinalityType DEF ProbeTyped
  <2>3. Cardinality(flying) = 0
    BY <2>1, <2>2
  <2> QED BY <2>2, <2>3, FS_EmptySet
<1>10. Touring => HomeFirst' /\ RevisitLast'
  <2> SUFFICES ASSUME Touring PROVE HomeFirst' /\ RevisitLast'
    OBVIOUS
  <2>1. Touring' /\ Home' = Home /\ Revisit' = Revisit /\ log' = log
    BY <1>1 DEF Touring, Home, Revisit
  <2>2. HomeFirst /\ RevisitLast
    BY DEF ProbeInv
  <2>3. Home \in Queued => r = Home /\ flying = {}
    BY <2>2 DEF HomeFirst, r
  <2>4. Home \notin Queued'
    BY <1>2, <2>3
  <2>5. Home \in flying' => \A s \in Asked : s.purpose = "http"
    BY <1>2, <2>2 DEF HomeFirst
  <2>6. HomeFirst'
    BY <1>4, <2>1, <2>2, <2>4, <2>5 DEF HomeFirst
  <2>7. Revisit \notin flying \cup Asked
    BY <1>1, <2>2 DEF RevisitLast
  <2>8. Revisit = r => waiting' = <<>>
    BY <1>2, <1>3, <2>2 DEF RevisitLast
  <2>9. Revisit \in Queued' => waiting'[Len(waiting')] = Revisit
    <3>1. Revisit \in Queued' => waiting' # <<>>
      BY DEF Queued, Of
    <3> QED BY <1>2, <1>3, <2>2, <3>1 DEF RevisitLast
  <2>10. RevisitLast'
    BY <1>2, <1>4, <2>1, <2>2, <2>7, <2>8, <2>9 DEF RevisitLast
  <2> QED BY <2>6, <2>10
<1>11. HttpFirst' /\ HomeFirst' /\ RevisitLast'
  <2>1. HttpFirst'
    BY <1>1 DEF ProbeInv, HttpFirst
  <2>2. Touring' <=> Touring
    BY <1>1 DEF Touring
  <2>3. ~Touring' => HomeFirst' /\ RevisitLast'
    BY DEF HomeFirst, RevisitLast
  <2> QED BY <1>10, <2>1, <2>2, <2>3
<1>12. Probe!ReportTellsAll'
  BY <1>1, <1>5 DEF Probe!ReportTellsAll
<1> QED BY <1>6, <1>7, <1>8, <1>9, <1>11, <1>12 DEF ProbeInv

\* What the requests are, by what asks for them.
LEMMA LinesAreSites ==
  ASSUME ProbeTyped
  PROVE  /\ Lines \subseteq Sites
         /\ Home \in Requests /\ Home.purpose = "home"
         /\ Revisit \in Requests /\ Revisit.purpose = "revisit" /\ lines[1] \in Lines
         /\ {"http", "browser", "home", "first", "revisit", "login"} = Probe!Purposes
<1>1. lines \in Seq(Sites) /\ lines # <<>> /\ DOMAIN lines = 1..Len(lines) /\ Len(lines) \in Nat
  BY DEF ProbeTyped
<1>2. 1 \in DOMAIN lines
  BY <1>1, EmptySeq
<1>3. \A i \in DOMAIN lines : lines[i] \in Sites
  BY <1>1
<1>4. {"http", "browser", "home", "first", "revisit", "login"} = Probe!Purposes
  BY DEF Probe!Purposes
<1>5. "home" \in Probe!Purposes /\ "revisit" \in Probe!Purposes /\ lines[1] \in Sites
  BY <1>2, <1>3, <1>4
<1> QED BY <1>2, <1>3, <1>4, <1>5, PurposesDiffer DEF Home, Revisit, Lines, Of

LEMMA AttemptTyped ==
  ASSUME ProbeTyped, NEW asked \in Requests, NEW kind \in Probe!Kinds, NEW later \in {0, 1}
  PROVE  LET try == Probe!Attempted(asked, kind,
                                    later + IF log = <<>> THEN 0 ELSE Probe!Last(log).at)
         IN  try \in Tries /\ try.request = asked /\ try.kind = kind
<1>1. log \in Seq(Tries) /\ Len(log) \in Nat /\ DOMAIN log = 1..Len(log)
  BY DEF ProbeTyped
<1>2. log # <<>> => Probe!Last(log).at \in Nat
  <2>1. log # <<>> => Len(log) \in 1..Len(log)
    BY <1>1, EmptySeq
  <2>2. log # <<>> => log[Len(log)] \in Tries
    BY <1>1, <2>1
  <2> QED BY <2>2 DEF Probe!Last, Tries
<1> DEFINE before == IF log = <<>> THEN 0 ELSE Probe!Last(log).at
<1>3. before \in Nat
  BY <1>2
<1> HIDE DEF before
<1>4. later + before \in Nat
  BY <1>3
<1>5. \A at_1 \in Nat : Probe!Attempted(asked, kind, at_1) \in Tries
  BY DEF Probe!Attempted, Tries
<1>6. \A at_1 \in Nat : /\ Probe!Attempted(asked, kind, at_1).request = asked
                        /\ Probe!Attempted(asked, kind, at_1).kind = kind
  BY DEF Probe!Attempted
<1> QED BY <1>4, <1>5, <1>6 DEF before

\* The log with one attempt more.
LEMMA LogAppended ==
  ASSUME log \in Seq(Tries), NEW try \in Tries, log' = Append(log, try)
  PROVE  LET n == Len(log) + 1 IN
         /\ log' \in Seq(Tries) /\ Len(log) \in Nat /\ DOMAIN log = 1..Len(log)
         /\ DOMAIN log' = DOMAIN log \cup {n} /\ n \notin DOMAIN log
         /\ log'[n] = try /\ \A i \in DOMAIN log : log'[i] = log[i] /\ i < n
         /\ Asked' = Asked \cup {try.request}
<1>1. /\ log' \in Seq(Tries) /\ Len(log) \in Nat /\ DOMAIN log = 1..Len(log)
      /\ DOMAIN log' = 1..(Len(log) + 1) /\ log'[Len(log) + 1] = try
      /\ \A i \in 1..Len(log) : log'[i] = log[i]
  BY AppendedIs
<1>2. DOMAIN log' = DOMAIN log \cup {Len(log) + 1} /\ Len(log) + 1 \notin DOMAIN log
  BY <1>1
<1>3. \A i \in DOMAIN log : log'[i] = log[i] /\ i < Len(log) + 1
  BY <1>1
<1>4. Asked' = {log'[i].request : i \in DOMAIN log \cup {Len(log) + 1}}
  BY <1>2 DEF Asked
<1>5. Asked' = Asked \cup {try.request}
  BY <1>1, <1>3, <1>4 DEF Asked
<1> QED BY <1>1, <1>2, <1>3, <1>5

LEMMA EndsKeeps ==
  ASSUME ProbeInv, NEW asked \in flying, NEW kind \in Probe!Kinds, Probe!Ends(asked, kind)
  PROVE  ProbeInv'
<1>1. /\ ProbeTyped /\ Once /\ Passes /\ HttpFirst /\ OneByOne /\ HomeFirst /\ RevisitLast
      /\ log \in Seq(Tries) /\ asked \in Requests /\ IsFiniteSet(flying)
  BY DEF ProbeInv, ProbeTyped
<1>2. /\ flying' = flying \ {asked} /\ waiting' = waiting
      /\ UNCHANGED <<tool, lines, stage, report>>
  BY DEF Probe!Ends
<1>3. PICK try \in Tries : log' = Append(log, try) /\ try.request = asked
  <2>1. PICK later \in {0, 1} :
          log' = Append(log, Probe!Attempted(asked, kind,
                                later + IF log = <<>> THEN 0 ELSE Probe!Last(log).at))
    BY DEF Probe!Ends
  <2> QED BY <1>1, <2>1, AttemptTyped
<1> DEFINE n == Len(log) + 1
<1>4. /\ log' \in Seq(Tries) /\ Len(log) \in Nat
      /\ DOMAIN log' = DOMAIN log \cup {n} /\ n \notin DOMAIN log /\ log'[n].request = asked
      /\ \A i \in DOMAIN log : log'[i] = log[i] /\ i < n
      /\ Asked' = Asked \cup {asked}
  BY <1>1, <1>3, LogAppended
<1>5. n \in Nat /\ DOMAIN log \subseteq Nat
  BY <1>1, <1>4
<1> HIDE DEF n
<1>6. Known' = Known /\ Queued' = Queued
  <2>1. Queued' = Queued
    BY <1>2 DEF Queued, Of
  <2> QED BY <1>2, <1>4, <2>1 DEF Known
<1>7. stage \in {"http", "browser", "login"} /\ asked \notin Asked /\ asked \in Known
  BY <1>1 DEF ProbeTyped, Passes, Once, Known
<1>8. ProbeTyped'
  <2>1. IsFiniteSet(flying')
    BY <1>1, <1>2, FS_RemoveElement
  <2> QED BY <1>1, <1>2, <1>4, <2>1 DEF ProbeTyped
<1>9. Once'
  <2>1. \A i \in DOMAIN log : log[i].request # asked
    BY <1>7 DEF Asked
  <2>2. \A i, j \in DOMAIN log' : log'[i].request = log'[j].request => i = j
    BY <1>1, <1>4, <2>1 DEF Once
  <2>3. NoTwice(waiting)'
    BY <1>1, <1>2 DEF Once, NoTwice
  <2> QED BY <1>1, <1>2, <1>4, <1>6, <2>2, <2>3 DEF Once
<1>10. /\ \A p : Each(p)' = Each(p)
       /\ Home' = Home /\ Revisit' = Revisit /\ Lines' = Lines
  BY <1>2 DEF Each, Lines, Of, Home, Revisit
<1>11. stage = "browser" => asked \notin Each("http")
  BY <1>1, <1>7 DEF Passes
<1>12. stage = "browser" => Missed' = Missed
  <2> SUFFICES ASSUME stage = "browser", NEW u \in Lines
               PROVE  ReadByHttp(u)' <=> ReadByHttp(u)
    BY <1>10 DEF Missed
  <2>1. asked # Probe!For("http", u)
    BY <1>11 DEF Each
  <2> QED BY <1>4, <2>1 DEF ReadByHttp
<1>13. Passes'
  BY <1>1, <1>2, <1>4, <1>6, <1>7, <1>10, <1>12 DEF Passes
<1>14. stage = "browser" => asked.purpose # "http"
  <2> SUFFICES ASSUME stage = "browser" PROVE asked.purpose # "http"
    OBVIOUS
  <2>1. "browser" \in Probe!Purposes /\ "first" \in Probe!Purposes
    BY <1>1, LinesAreSites
  <2>2. /\ \A r \in Each("browser") : r.purpose = "browser"
        /\ \A r \in Each("first") : r.purpose = "first"
    BY <1>1, <2>1, LineRequests
  <2>3. Missed \subseteq Each("browser")
    BY DEF Missed, Each
  <2> QED BY <1>1, <1>7, <1>11, <2>2, <2>3, LinesAreSites DEF Passes
<1>15. HttpFirst'
  <2> SUFFICES ASSUME stage = "browser", NEW i \in DOMAIN log', NEW j \in DOMAIN log',
                      log'[i].request.purpose # "http", log'[j].request.purpose = "http"
               PROVE  j < i
    BY <1>2 DEF HttpFirst
  <2>1. j \in DOMAIN log
    BY <1>4, <1>14
  <2> QED BY <1>1, <1>4, <2>1 DEF HttpFirst
<1>16. OneByOne'
  BY <1>1, <1>2 DEF OneByOne
<1>17. Touring => flying = {asked} /\ flying' = {}
  BY <1>1, <1>2 DEF OneByOne, Touring
<1>18. Touring' <=> Touring
  BY <1>2 DEF Touring
<1>19. HomeFirst'
  <2> SUFFICES ASSUME Touring PROVE HomeFirst'
    BY <1>18 DEF HomeFirst
  <2>1. Home \notin flying' \cup Queued'
    BY <1>1, <1>6, <1>17 DEF HomeFirst
  <2>2. ASSUME NEW i \in DOMAIN log', NEW j \in DOMAIN log',
               log'[i].request = Home, log'[j].request.purpose # "http"
        PROVE  i <= j
    <3>1. CASE i = n /\ j # n
      <4>1. asked = Home /\ j \in DOMAIN log /\ log[j].request.purpose # "http"
        BY <1>4, <2>2, <3>1
      <4>2. log[j].request \in Asked
        BY <4>1 DEF Asked
      <4> QED BY <1>1, <4>1, <4>2 DEF HomeFirst
    <3>2. CASE i = n /\ j = n
      BY <1>5, <3>2
    <3>3. CASE i # n /\ j = n
      <4>1. i \in DOMAIN log
        BY <1>4, <3>3
      <4>2. i < n /\ i \in Nat
        BY <1>4, <1>5, <4>1
      <4> QED BY <1>5, <3>3, <4>2
    <3>4. CASE i # n /\ j # n
      BY <1>1, <1>4, <2>2, <3>4 DEF HomeFirst
    <3> QED BY <3>1, <3>2, <3>3, <3>4
  <2> QED BY <1>6, <1>10, <2>1, <2>2 DEF HomeFirst
<1>20. RevisitLast'
  <2> SUFFICES ASSUME Touring PROVE RevisitLast'
    BY <1>18 DEF RevisitLast
  <2>1. Revisit \notin Asked
    BY <1>1, <1>17 DEF RevisitLast
  <2>2. ASSUME NEW i \in DOMAIN log', NEW j \in DOMAIN log', log'[i].request = Revisit
        PROVE  j <= i
    <3>1. i = n
      BY <1>4, <2>1, <2>2 DEF Asked
    <3>2. j = n \/ j < n
      BY <1>4
    <3>3. j \in Nat
      BY <1>4, <1>5
    <3> QED BY <1>5, <3>1, <3>2, <3>3
  <2>3. Revisit \in flying' \cup Asked' => waiting' = <<>>
    BY <1>1, <1>2, <1>4, <1>17 DEF RevisitLast
  <2> QED BY <1>1, <1>2, <1>6, <1>10, <1>17, <2>2, <2>3 DEF RevisitLast
<1>21. Probe!ReportTellsAll'
  BY <1>2, <1>7 DEF Probe!ReportTellsAll
<1> QED BY <1>8, <1>9, <1>13, <1>15, <1>16, <1>19, <1>20, <1>21 DEF ProbeInv

\* A command that breaks off reports nothing.
LEMMA BreaksKeeps == ProbeInv /\ Probe!Breaks => ProbeInv'
<1> SUFFICES ASSUME ProbeInv, Probe!Breaks PROVE ProbeInv'
  OBVIOUS
<1>1. /\ stage' = "thrown" /\ waiting' = <<>> /\ flying' = {}
      /\ UNCHANGED <<tool, lines, log, report>>
  BY DEF Probe!Breaks
<1>2. ProbeTyped'
  <2>1. <<>> \in Seq(Requests) /\ IsFiniteSet({})
    BY FS_EmptySet
  <2> QED BY <1>1, <2>1 DEF ProbeInv, ProbeTyped
<1>3. Once'
  BY <1>1 DEF ProbeInv, Once, Queued, Of, NoTwice, Asked
<1> QED BY <1>1, <1>2, <1>3
        DEF ProbeInv, Passes, HttpFirst, OneByOne, HomeFirst, RevisitLast, Touring,
            Probe!ReportTellsAll

\* The home page first, each line, and the first line again.
LEMMA TourIs ==
  ASSUME ProbeTyped
  PROVE  /\ Probe!Tour \in Seq(Requests) /\ Probe!Tour # <<>>
         /\ Of(Probe!Tour) = Each("first") \cup {Home, Revisit}
         /\ Probe!Tour[1] = Home /\ Probe!Tour[Len(Probe!Tour)] = Revisit
         /\ \A i \in 1..(Len(Probe!Tour) - 1) : Probe!Tour[i] # Revisit
<1> DEFINE tour == Probe!Tour
           middle == Probe!EachLine("first")
           n == Len(middle)
<1>1. /\ middle \in Seq(Requests) /\ Of(middle) = Each("first") /\ n \in Nat
      /\ DOMAIN middle = 1..n /\ \A i \in 1..n : middle[i] \in Each("first")
      /\ \A r \in Each("first") : r \in Requests /\ r.purpose = "first"
  <2>1. "first" \in Probe!Purposes
    BY DEF Probe!Purposes
  <2>2. /\ middle \in Seq(Requests) /\ Of(middle) = Each("first")
        /\ \A r \in Each("first") : r \in Requests /\ r.purpose = "first"
    BY <2>1, LineRequests
  <2> QED BY <2>2 DEF Of
<1>2. Home \in Requests /\ Revisit \in Requests /\ Home # Revisit
  BY LinesAreSites
<1>3. tour = <<Home>> \o middle \o <<Revisit>>
  BY DEF Probe!Tour, Home, Revisit
<1> HIDE DEF tour, middle
<1>4. /\ tour \in Seq(Requests) /\ Len(tour) = n + 2
      /\ tour[1] = Home /\ tour[n + 2] = Revisit
      /\ \A i \in 1..n : tour[i + 1] = middle[i]
  <2>1. /\ <<Home>> \in Seq(Requests) /\ Len(<<Home>>) = 1 /\ <<Home>>[1] = Home
        /\ <<Revisit>> \in Seq(Requests) /\ Len(<<Revisit>>) = 1 /\ <<Revisit>>[1] = Revisit
    BY <1>2
  <2> DEFINE front == <<Home>> \o middle
  <2>2. /\ front \in Seq(Requests) /\ Len(front) = n + 1
        /\ front[1] = Home /\ \A i \in 1..n : front[i + 1] = middle[i]
    <3>1. /\ front \in Seq(Requests) /\ Len(front) = 1 + n
          /\ \A i \in 1..(1 + n) : front[i] = IF i <= 1 THEN <<Home>>[i] ELSE middle[i - 1]
      BY <1>1, <2>1, ConcatProperties
    <3>2. 1 \in 1..(1 + n) /\ \A i \in 1..n : i + 1 \in 1..(1 + n) /\ ~(i + 1 <= 1) /\ i + 1 - 1 = i
      BY <1>1
    <3> HIDE DEF front
    <3> QED BY <1>1, <2>1, <3>1, <3>2
  <2> HIDE DEF front
  <2>3. /\ tour \in Seq(Requests) /\ Len(tour) = Len(front) + 1
        /\ \A i \in 1..(Len(front) + 1) :
             tour[i] = IF i <= Len(front) THEN front[i] ELSE <<Revisit>>[i - Len(front)]
    BY <1>3, <2>1, <2>2, ConcatProperties DEF front
  <2>4. /\ 1 \in 1..(n + 2) /\ 1 <= n + 1 /\ n + 2 \in 1..(n + 2) /\ ~(n + 2 <= n + 1)
        /\ n + 2 - (n + 1) = 1 /\ n + 1 + 1 = n + 2
        /\ \A i \in 1..n : i + 1 \in 1..(n + 2) /\ i + 1 <= n + 1
    BY <1>1
  <2> HIDE DEF n
  <2> QED BY <2>1, <2>2, <2>3, <2>4
<1>5. DOMAIN tour = 1..(n + 2) /\ tour # <<>>
  <2>1. Len(tour) # 0
    BY <1>1, <1>4
  <2> QED BY <1>4, <2>1, EmptySeq
<1>6. \A i \in 1..(n + 2) : i = 1 \/ i = n + 2 \/ (i - 1 \in 1..n /\ i - 1 + 1 = i)
  BY <1>1
<1>7. Of(tour) = Each("first") \cup {Home, Revisit}
  <2>1. \A i \in 1..(n + 2) : tour[i] \in Each("first") \cup {Home, Revisit}
    <3>1. ASSUME NEW i \in 1..n PROVE tour[i + 1] \in Each("first")
      BY <1>1, <1>4
    <3> HIDE DEF n
    <3> QED BY <1>4, <1>6, <3>1
  <2>2. Home \in Of(tour) /\ Revisit \in Of(tour)
    BY <1>1, <1>4, <1>5 DEF Of
  <2>3. \A i \in 1..n : middle[i] \in Of(tour)
    <3>1. \A i \in 1..n : i + 1 \in 1..(n + 2)
      BY <1>1
    <3> QED BY <1>4, <1>5, <3>1 DEF Of
  <2>4. Each("first") \subseteq Of(tour)
    BY <1>1, <2>3 DEF Of
  <2> QED BY <1>5, <2>1, <2>2, <2>4 DEF Of
<1>8. ASSUME NEW i \in 1..(Len(tour) - 1) PROVE tour[i] # Revisit
  <2>1. i = 1 \/ (i - 1 \in 1..n /\ i - 1 + 1 = i)
    BY <1>1, <1>4
  <2>2. CASE i = 1
    BY <1>2, <1>4, <2>2
  <2>3. CASE i - 1 \in 1..n /\ i - 1 + 1 = i
    <3>1. tour[i] \in Each("first")
      BY <1>1, <1>4, <2>3
    <3>2. tour[i].purpose = "first"
      BY <1>1, <3>1
    <3> QED BY <3>2, LinesAreSites
  <2> QED BY <2>1, <2>2, <2>3
<1> QED BY <1>4, <1>5, <1>7, <1>8 DEF tour

LEMMA BrowserPassKeeps == ProbeInv /\ Probe!BrowserPass => ProbeInv'
<1> SUFFICES ASSUME ProbeInv, Probe!BrowserPass PROVE ProbeInv'
  OBVIOUS
<1>1. /\ ProbeTyped /\ Once /\ Passes /\ log \in Seq(Tries)
      /\ tool \in {"smoke", "diagnose"} /\ stage = "http" /\ waiting = <<>> /\ flying = {}
      /\ stage' = "browser" /\ UNCHANGED <<tool, lines, flying, log, report>>
      /\ waiting' = Probe!Enqueued(IF tool = "smoke" THEN Probe!EachLine("browser")
                                                     ELSE Probe!Tour)
  BY DEF Probe!BrowserPass, Probe!PassOver, ProbeInv, ProbeTyped
<1>2. Asked = Each("http") /\ Asked' = Asked
  BY <1>1 DEF Passes, Known, Queued, Of, Asked
<1>3. /\ "http" \in Probe!Purposes /\ "browser" \in Probe!Purposes /\ "first" \in Probe!Purposes
      /\ Lines \subseteq Sites
  BY <1>1, LinesAreSites
<1>4. \A r \in Asked : r.purpose = "http"
  BY <1>1, <1>2, <1>3, LineRequests
<1>5. /\ \A p : Each(p)' = Each(p)
      /\ Home' = Home /\ Revisit' = Revisit /\ Missed' = Missed
  BY <1>1 DEF Each, Lines, Of, Home, Revisit, Missed, ReadByHttp
<1>6. ASSUME tool = "smoke"
      PROVE  waiting' \in Seq(Requests) /\ NoTwice(waiting') /\ Queued' = Missed
  <2>1. /\ waiting' \in Seq(Requests) /\ NoTwice(waiting')
        /\ Of(waiting') = Each("browser") \cap Wanted
    BY <1>1, <1>3, <1>6, LineRequests, EnqueuedIs
  <2>2. ASSUME NEW u \in Lines
        PROVE  Probe!For("browser", u) \in Wanted <=> ~ReadByHttp(u)
    <3>1. /\ Probe!For("browser", u) \in Requests /\ Probe!For("browser", u).purpose = "browser"
          /\ Probe!For("browser", u).url = u
      BY <1>3, PurposesDiffer
    <3>2. Probe!For("browser", u) \notin Asked
      BY <1>4, <3>1
    <3>3. \A i \in DOMAIN log :
            log[i].request.url = u <=> log[i].request = Probe!For("http", u)
      <4>1. ASSUME NEW i \in DOMAIN log
            PROVE  log[i].request.url = u <=> log[i].request = Probe!For("http", u)
        <5>1. PICK v \in Lines : log[i].request = Probe!For("http", v)
          BY <1>2 DEF Asked, Each
        <5>2. Probe!For("http", v).url = v /\ Probe!For("http", u).url = u
          BY <1>3, PurposesDiffer
        <5> QED BY <5>1, <5>2
      <4> QED BY <4>1
    <3>4. Probe!Succeeded(u) <=> ReadByHttp(u)
      BY <3>3 DEF Probe!Succeeded, Probe!Attempts, ReadByHttp
    <3> QED BY <3>1, <3>2, <3>4 DEF Wanted, Probe!FallsBack
  <2>3. Each("browser") \cap Wanted = Missed
    BY <2>2 DEF Each, Missed
  <2> QED BY <2>1, <2>3 DEF Queued, Of
<1>7. ASSUME tool = "diagnose"
      PROVE  /\ waiting' \in Seq(Requests) /\ NoTwice(waiting')
             /\ Queued' = Each("first") \cup {Home, Revisit}
             /\ waiting'[1] = Home /\ waiting'[Len(waiting')] = Revisit
  <2>1. \A r \in Requests : r.purpose \notin {"http", "browser"} => r \in Wanted
    BY <1>4 DEF Wanted, Probe!FallsBack
  <2>2. Each("first") \cup {Home, Revisit} \subseteq Wanted
    <3>1. \A r \in Each("first") : r \in Requests /\ r.purpose = "first"
      BY <1>1, <1>3, LineRequests
    <3> QED BY <1>1, <2>1, <3>1, LinesAreSites
  <2>3. waiting' = Probe!Enqueued(Probe!Tour)
    BY <1>1, <1>7
  <2> DEFINE tour == Probe!Tour
  <2>4. /\ tour \in Seq(Requests) /\ tour # <<>>
        /\ Of(tour) = Each("first") \cup {Home, Revisit}
        /\ tour[1] = Home /\ tour[Len(tour)] = Revisit
        /\ \A i \in 1..(Len(tour) - 1) : tour[i] # Revisit
    BY <1>1, TourIs
  <2> HIDE DEF tour
  <2>5. /\ waiting' \in Seq(Requests) /\ NoTwice(waiting') /\ Of(waiting') = Of(tour) \cap Wanted
        /\ tour[1] \in Wanted => waiting'[1] = tour[1]
        /\ tour[Len(tour)] \in Wanted => waiting'[Len(waiting')] = tour[Len(tour)]
    BY <1>1, <2>3, <2>4, EnqueuedIs DEF tour
  <2>6. Of(waiting') = Each("first") \cup {Home, Revisit}
    BY <2>2, <2>4, <2>5
  <2> QED BY <2>2, <2>4, <2>5, <2>6 DEF Queued, Of
<1>8. waiting' \in Seq(Requests) /\ NoTwice(waiting')
  BY <1>1, <1>6, <1>7
<1>9. ProbeTyped'
  BY <1>1, <1>8 DEF ProbeTyped
<1>10. Queued' \cap Asked = {}
  <2>1. \A r \in Missed : r.purpose = "browser"
    BY <1>1, <1>3, LineRequests DEF Missed, Each
  <2>2. \A r \in Each("first") : r.purpose = "first"
    BY <1>1, <1>3, LineRequests
  <2> QED BY <1>1, <1>4, <1>6, <1>7, <2>1, <2>2, LinesAreSites
<1>11. Once'
  <2>1. NoTwice(waiting)'
    BY <1>8 DEF NoTwice
  <2> QED BY <1>1, <1>2, <1>10, <2>1 DEF Once
<1>12. Passes'
  <2>1. Known' = Each("http") \cup Queued'
    BY <1>1, <1>2 DEF Known
  <2> QED BY <1>1, <1>2, <1>5, <1>6, <1>7, <2>1 DEF Passes
<1>13. HttpFirst'
  <2>1. \A i \in DOMAIN log : log[i].request.purpose = "http"
    BY <1>4 DEF Asked
  <2> QED BY <1>1, <2>1 DEF HttpFirst
<1>14. OneByOne'
  BY <1>1 DEF OneByOne
<1>15. tool = "diagnose" => HomeFirst' /\ RevisitLast'
  <2> SUFFICES ASSUME tool = "diagnose" PROVE HomeFirst' /\ RevisitLast'
    OBVIOUS
  <2>1. \A i \in DOMAIN log : log[i].request # Home /\ log[i].request # Revisit
    BY <1>1, <1>4, LinesAreSites DEF Asked
  <2>2. Revisit \notin Asked /\ Home \notin Asked
    BY <2>1 DEF Asked
  <2> QED BY <1>1, <1>2, <1>4, <1>5, <1>7, <2>1, <2>2 DEF HomeFirst, RevisitLast
<1>16. tool # "diagnose" => HomeFirst' /\ RevisitLast'
  BY <1>1 DEF HomeFirst, RevisitLast, Touring
<1>17. Probe!ReportTellsAll'
  BY <1>1 DEF Probe!ReportTellsAll
<1> QED BY <1>9, <1>11, <1>12, <1>13, <1>14, <1>15, <1>16, <1>17 DEF ProbeInv

-----------------------------------------------------------------------------
(* The report.                                                             *)

LEMMA LeastOf ==
  ASSUME NEW S, S \subseteq Nat, S # {}
  PROVE  \E x \in S : \A y \in S : x <= y
<1>1. PICK x \in S : \A y \in S : <<y, x>> \notin OpToRel(<, Nat)
  BY NatLessThanWellFounded, WFMin
<1>2. ASSUME NEW y \in S PROVE x <= y
  <2>1. ~(y < x)
    BY <1>1 DEF OpToRel
  <2> QED BY <2>1
<1> QED BY <1>2

LEMMA MinIs ==
  ASSUME NEW S, S \subseteq Nat, NEW n \in S, \A y \in S : n <= y
  PROVE  Probe!Min(S) = n
<1> DEFINE Least(x) == \A y \in S : x =< y
<1>1. \A x \in S : Least(x) <=> x = n
  OBVIOUS
<1>2. (CHOOSE x \in S : Least(x)) = n
  <2> HIDE DEF Least
  <2> QED BY <1>1
<1> QED BY <1>2 DEF Probe!Min

\* A URL that was asked for once.
LEMMA OneTry ==
  ASSUME ProbeTyped, NEW u, NEW k \in DOMAIN log, Probe!Attempts(u) = {k}
  PROVE  /\ Probe!LastTry(u) = log[k] /\ Probe!Cardinality(Probe!Attempts(u)) = 1
         /\ Probe!Succeeded(u) <=> log[k].kind = "success"
<1>1. k \in Nat /\ {k} \subseteq Nat
  BY DEF ProbeTyped
<1>2. Probe!Max({k}) = k
  BY <1>1, MaxIs
<1>3. Cardinality({k}) = 1
  BY FS_Singleton
<1> QED BY <1>2, <1>3, ProbeCounts DEF Probe!LastTry, Probe!Succeeded

\* A pass that asks for each URL once.
LEMMA SoleTry ==
  ASSUME ProbeTyped, Once, NEW p \in Probe!Purposes, Asked = Each(p), NEW u \in Lines
  PROVE  \E k \in DOMAIN log :
           Probe!Attempts(u) = {k} /\ log[k].request = Probe!For(p, u)
<1>1. PICK k \in DOMAIN log : log[k].request = Probe!For(p, u)
  BY DEF Asked, Each
<1>2. u \in Sites /\ Lines \subseteq Sites
  BY LinesAreSites
<1>3. ASSUME NEW i \in DOMAIN log, log[i].request.url = u PROVE i = k
  <2>1. PICK v \in Lines : log[i].request = Probe!For(p, v)
    BY DEF Asked, Each
  <2>2. v = u
    BY <1>2, <1>3, <2>1, PurposesDiffer
  <2> QED BY <1>1, <2>1, <2>2 DEF Once
<1>4. log[k].request.url = u
  BY <1>1, <1>2, PurposesDiffer
<1> QED BY <1>1, <1>3, <1>4 DEF Probe!Attempts

\* smoke.ts: a URL that was read over HTTP has that attempt, another has one more.
LEMMA TwoTries ==
  ASSUME ProbeTyped, Once, HttpFirst, stage = "browser", Asked = Each("http") \cup Missed,
         NEW u \in Lines
  PROVE  \E k \in DOMAIN log :
           /\ log[k].request = Probe!For("http", u)
           /\ log[k].kind = "success" <=> ReadByHttp(u)
           /\ ReadByHttp(u) => Probe!Attempts(u) = {k}
           /\ ~ReadByHttp(u) =>
                \E b \in DOMAIN log : /\ Probe!Attempts(u) = {k, b} /\ k < b
                                      /\ log[b].request = Probe!For("browser", u)
<1>1. PICK k \in DOMAIN log : log[k].request = Probe!For("http", u)
  BY DEF Asked, Each
<1>2. /\ u \in Sites /\ Lines \subseteq Sites
      /\ "http" \in Probe!Purposes /\ "browser" \in Probe!Purposes
  BY LinesAreSites
<1>3. log[k].kind = "success" <=> ReadByHttp(u)
  BY <1>1 DEF ReadByHttp, Once
<1>4. ASSUME NEW i \in DOMAIN log, log[i].request.url = u
      PROVE  \/ log[i].request = Probe!For("http", u)
             \/ log[i].request = Probe!For("browser", u) /\ ~ReadByHttp(u)
  <2>1. log[i].request \in Each("http") \cup Missed
    BY DEF Asked
  <2>2. PICK v \in Lines : \/ log[i].request = Probe!For("http", v)
                           \/ log[i].request = Probe!For("browser", v) /\ ~ReadByHttp(v)
    BY <2>1 DEF Each, Missed
  <2>3. v = u
    <3>1. Probe!For("http", v).url = v /\ Probe!For("browser", v).url = v
      BY <1>2, PurposesDiffer
    <3> QED BY <1>4, <2>2, <3>1
  <2> QED BY <2>2, <2>3
<1>5. Probe!For("http", u).url = u /\ Probe!For("browser", u).url = u
      /\ Probe!For("http", u).purpose = "http" /\ Probe!For("browser", u).purpose = "browser"
  BY <1>2, PurposesDiffer
<1>6. ASSUME ReadByHttp(u) PROVE Probe!Attempts(u) = {k}
  <2>1. \A i \in DOMAIN log : log[i].request.url = u => i = k
    BY <1>1, <1>4, <1>6 DEF Once
  <2> QED BY <1>1, <1>5, <2>1 DEF Probe!Attempts
<1>7. ASSUME ~ReadByHttp(u)
      PROVE  \E b \in DOMAIN log : /\ Probe!Attempts(u) = {k, b} /\ k < b
                                   /\ log[b].request = Probe!For("browser", u)
  <2>1. Probe!For("browser", u) \in Asked
    BY <1>7 DEF Missed
  <2>2. PICK b \in DOMAIN log : log[b].request = Probe!For("browser", u)
    BY <2>1 DEF Asked
  <2>3. \A i \in DOMAIN log : log[i].request.url = u => i = k \/ i = b
    BY <1>1, <1>4, <2>2 DEF Once
  <2>4. Probe!Attempts(u) = {k, b}
    BY <1>1, <1>5, <2>2, <2>3 DEF Probe!Attempts
  <2>5. k < b
    BY <1>1, <1>5, <2>2 DEF HttpFirst
  <2> QED BY <2>2, <2>4, <2>5
<1> QED BY <1>1, <1>3, <1>6, <1>7

\* The first refusal is a line's, and no other came before.
LEMMA FirstIsEarliest ==
  ASSUME ProbeTyped, Once, Asked = Each("http")
  PROVE  /\ Probe!FirstRefusal \in 0..Len(lines)
         /\ \A i \in DOMAIN log : log[i].kind \in Probe!Refusals =>
              /\ Probe!FirstRefusal # 0
              /\ Probe!LastTry(lines[Probe!FirstRefusal]).at <= log[i].at
<1> DEFINE refused == {i \in DOMAIN lines : Probe!LastTry(lines[i]).kind \in Probe!Refusals}
           came(i) == Probe!LastTry(lines[i]).at
           Earliest(i) == \A j \in refused : came(i) < came(j) \/ (came(i) = came(j) /\ i <= j)
<1>1. /\ DOMAIN lines = 1..Len(lines) /\ Len(lines) \in Nat /\ "http" \in Probe!Purposes
      /\ Lines \subseteq Sites /\ \A i \in DOMAIN lines : lines[i] \in Lines
      /\ \A k \in DOMAIN log : log[k] \in Tries
  <2>1. lines \in Seq(Sites) /\ log \in Seq(Tries)
    BY DEF ProbeTyped
  <2> QED BY <2>1, LinesAreSites DEF Lines, Of
<1>2. ASSUME NEW u \in Lines
      PROVE  \E k \in DOMAIN log : /\ Probe!LastTry(u) = log[k]
                                   /\ log[k].request = Probe!For("http", u)
  BY <1>1, SoleTry, OneTry
<1>3. \A i \in refused : came(i) \in Nat /\ i \in Nat
  <2>1. \A i \in DOMAIN lines : Probe!LastTry(lines[i]) \in Tries
    BY <1>1, <1>2
  <2>2. \A try \in Tries : try.at \in Nat
    BY DEF Tries
  <2>3. \A i \in DOMAIN lines : came(i) \in Nat /\ i \in Nat
    BY <1>1, <2>1, <2>2
  <2> QED BY <2>3
<1>4. refused # {} => \E i \in refused : Earliest(i)
  <2> SUFFICES ASSUME refused # {} PROVE \E i \in refused : Earliest(i)
    OBVIOUS
  <2> HIDE DEF refused, came
  <2> DEFINE times == {came(i) : i \in refused}
  <2>1. times \subseteq Nat /\ times # {}
    BY <1>3
  <2>2. PICK t \in times : \A y \in times : t <= y
    BY <2>1, LeastOf
  <2> DEFINE then == {i \in refused : came(i) = t}
  <2>3. then \subseteq Nat /\ then # {}
    BY <1>3
  <2>4. PICK i \in then : \A j \in then : i <= j
    BY <2>3, LeastOf
  <2>5. ASSUME NEW j \in refused PROVE came(i) < came(j) \/ (came(i) = came(j) /\ i <= j)
    <3>1. came(i) = t /\ t <= came(j) /\ t \in Nat /\ came(j) \in Nat
      BY <1>3, <2>1, <2>2, <2>4
    <3>2. came(j) = t => i <= j
      BY <2>4
    <3> QED BY <3>1, <3>2
  <2> QED BY <2>4, <2>5
<1>5. Probe!FirstRefusal = IF refused = {} THEN 0 ELSE CHOOSE i \in refused : Earliest(i)
  BY DEF Probe!FirstRefusal
<1>6. refused # {} => Probe!FirstRefusal \in refused /\ Earliest(Probe!FirstRefusal)
  <2> HIDE DEF refused, Earliest
  <2> QED BY <1>4, <1>5
<1>7. Probe!FirstRefusal \in 0..Len(lines)
  <2>1. \A i \in refused : i \in 0..Len(lines)
    BY <1>1
  <2>2. 0 \in 0..Len(lines)
    BY <1>1
  <2> HIDE DEF refused, Earliest
  <2> QED BY <1>5, <1>6, <2>1, <2>2
<1>8. ASSUME NEW i \in DOMAIN log, log[i].kind \in Probe!Refusals
      PROVE  /\ Probe!FirstRefusal # 0
             /\ Probe!LastTry(lines[Probe!FirstRefusal]).at <= log[i].at
  <2>1. PICK u \in Lines : log[i].request = Probe!For("http", u)
    BY DEF Asked, Each
  <2>2. Probe!LastTry(u) = log[i]
    BY <1>2, <2>1 DEF Once
  <2>3. PICK j \in DOMAIN lines : lines[j] = u
    BY DEF Lines, Of
  <2>4. j \in refused /\ came(j) = log[i].at
    BY <1>8, <2>2, <2>3
  <2>5. Probe!FirstRefusal \in refused /\ Earliest(Probe!FirstRefusal)
    <3> HIDE DEF refused, Earliest
    <3> QED BY <1>6, <2>4
  <2>6. came(Probe!FirstRefusal) \in Nat /\ came(j) \in Nat
    <3> HIDE DEF refused, came
    <3> QED BY <1>3, <2>4, <2>5
  <2>7. came(Probe!FirstRefusal) <= came(j)
    <3>1. \/ came(Probe!FirstRefusal) < came(j)
          \/ came(Probe!FirstRefusal) = came(j) /\ Probe!FirstRefusal <= j
      <4> HIDE DEF refused, came
      <4> QED BY <2>4, <2>5
    <3> HIDE DEF came
    <3> QED BY <2>6, <3>1
  <2>8. Probe!FirstRefusal # 0
    <3>1. 0 \notin refused
      BY <1>1
    <3> HIDE DEF refused
    <3> QED BY <2>5, <3>1
  <2> QED BY <2>4, <2>7, <2>8
<1> QED BY <1>7, <1>8

\* diagnose.ts: the browser's visits are home, each URL once, and the first again.
LEMMA TourSeen ==
  ASSUME ProbeTyped, Once, HomeFirst, RevisitLast, Touring,
         Asked = Each("http") \cup Each("first") \cup {Home, Revisit}
  PROVE  LET seen == {i \in DOMAIN log : log[i].request.purpose # "http"} IN
         /\ log[Probe!Min(seen)].request.purpose = "home"
         /\ {log[i].request.url : i \in seen \ {Probe!Min(seen), Probe!Max(seen)}}
              = Probe!Range(lines)
         /\ Probe!Cardinality(seen) = Probe!Cardinality(Probe!Range(lines)) + 2
         /\ log[Probe!Max(seen)].request.url = lines[1]
<1> DEFINE seen == {i \in DOMAIN log : log[i].request.purpose # "http"}
           middle == {i \in DOMAIN log : log[i].request.purpose = "first"}
<1>1. /\ Lines \subseteq Sites /\ Home.purpose = "home" /\ Revisit.purpose = "revisit"
      /\ {"http", "browser", "home", "first", "revisit", "login"} = Probe!Purposes
      /\ "first" \in Probe!Purposes /\ "revisit" \in Probe!Purposes /\ lines[1] \in Lines
      /\ Len(log) \in Nat /\ DOMAIN log = 1..Len(log)
  BY LinesAreSites DEF ProbeTyped
<1>2. PICK h \in DOMAIN log : log[h].request = Home
  BY DEF Asked
<1>3. PICK v \in DOMAIN log : log[v].request = Revisit
  BY DEF Asked
<1>4. h \in seen /\ v \in seen /\ h # v /\ h \notin middle /\ v \notin middle /\ seen \subseteq Nat
  BY <1>1, <1>2, <1>3
<1>5. Probe!Min(seen) = h
  <2>1. \A j \in seen : h <= j
    BY <1>2 DEF HomeFirst
  <2> HIDE DEF seen
  <2> QED BY <1>4, <2>1, MinIs
<1>6. Probe!Max(seen) = v
  <2>1. \A j \in seen : j <= v
    BY <1>3 DEF RevisitLast
  <2> HIDE DEF seen
  <2> QED BY <1>4, <2>1, MaxIs
<1>7. ASSUME NEW i \in DOMAIN log
      PROVE  \/ log[i].request.purpose = "http"
             \/ i = h \/ i = v
             \/ log[i].request.purpose = "first" /\ log[i].request \in Each("first")
  <2>1. log[i].request \in Each("http") \cup Each("first") \cup {Home, Revisit}
    BY DEF Asked
  <2>2. /\ \A r \in Each("http") : r.purpose = "http"
        /\ \A r \in Each("first") : r.purpose = "first"
    BY <1>1, LineRequests
  <2> QED BY <1>2, <1>3, <2>1, <2>2 DEF Once
<1>8. seen = middle \cup {h} \cup {v}
  BY <1>1, <1>2, <1>3, <1>7
<1>9. \A i \in middle : log[i].request \in Each("first")
  BY <1>1, <1>2, <1>3, <1>7
<1>10. ASSUME NEW i \in middle
       PROVE  log[i].request.url \in Lines
              /\ log[i].request = Probe!For("first", log[i].request.url)
  <2>1. PICK u \in Lines : log[i].request = Probe!For("first", u)
    BY <1>9 DEF Each
  <2>2. Probe!For("first", u).url = u
    BY <1>1, PurposesDiffer
  <2> QED BY <2>1, <2>2
<1>11. ASSUME NEW u \in Lines PROVE \E i \in middle : log[i].request.url = u
  <2>1. PICK i \in DOMAIN log : log[i].request = Probe!For("first", u)
    BY DEF Asked, Each
  <2>2. Probe!For("first", u).url = u /\ Probe!For("first", u).purpose = "first"
    BY <1>1, PurposesDiffer
  <2> QED BY <2>1, <2>2
<1>12. {log[i].request.url : i \in middle} = Lines
  <2> HIDE DEF middle
  <2> QED BY <1>10, <1>11
<1>13. Probe!Range(lines) = Lines
  BY DEF Probe!Range, Lines, Of
<1>14. IsFiniteSet(middle) /\ IsFiniteSet(Lines) /\ Cardinality(middle) = Cardinality(Lines)
  <2> DEFINE f == [i \in middle |-> log[i].request.url]
  <2>1. IsFiniteSet(middle)
    <3>1. IsFiniteSet(1..Len(log))
      BY <1>1, FS_Interval
    <3>2. middle \in SUBSET (1..Len(log))
      BY <1>1
    <3> QED BY <3>1, <3>2, FS_Subset
  <2>2. \A i, j \in middle : f[i] = f[j] => i = j
    <3>1. \A i, j \in middle : log[i].request = log[j].request => i = j
      BY DEF Once
    <3> HIDE DEF middle
    <3> QED BY <1>10, <3>1
  <2>3. f \in Bijection(middle, Lines)
    <3> HIDE DEF middle
    <3>1. f \in [middle -> Lines]
      BY <1>10
    <3>2. \A u \in Lines : \E i \in middle : f[i] = u
      BY <1>11
    <3> HIDE DEF f
    <3>3. f \in Injection(middle, Lines)
      BY <2>2, <3>1 DEF Injection, IsInjective
    <3>4. f \in Surjection(middle, Lines)
      BY <3>1, <3>2 DEF Surjection
    <3> QED BY <3>3, <3>4 DEF Bijection
  <2> HIDE DEF f, middle
  <2> QED BY <2>1, <2>3, FS_Bijection DEF ExistsBijection
<1>15. Cardinality(seen) = Cardinality(Lines) + 2
  <2> HIDE DEF seen, middle
  <2>1. /\ IsFiniteSet(middle \cup {h}) /\ Cardinality(middle \cup {h}) = Cardinality(middle) + 1
    BY <1>4, <1>14, FS_AddElement
  <2>2. v \notin middle \cup {h}
    BY <1>4
  <2>3. Cardinality(seen) = Cardinality(middle) + 1 + 1
    BY <1>8, <2>1, <2>2, FS_AddElement
  <2>4. Cardinality(middle) \in Nat
    BY <1>14, FS_CardinalityType
  <2> QED BY <1>14, <2>3, <2>4
<1>16. seen \ {h, v} = middle
  <2> HIDE DEF seen, middle
  <2> QED BY <1>4, <1>8
<1>17. log[h].request.purpose = "home" /\ log[v].request.url = lines[1]
  <2>1. Revisit.url = lines[1]
    BY <1>1, PurposesDiffer DEF Revisit
  <2> QED BY <1>1, <1>2, <1>3, <2>1
<1> HIDE DEF middle
<1>18. Probe!Cardinality(seen) = Probe!Cardinality(Probe!Range(lines)) + 2
  BY <1>13, <1>15, ProbeCounts
<1> QED BY <1>5, <1>6, <1>12, <1>13, <1>16, <1>17, <1>18

\* What is written when the pass that is the last one is over.
LEMMA ReportIs ==
  ASSUME ProbeInv, Probe!PassOver, stage = Probe!LastPass,
         ~\E u \in Probe!Range(lines) : Probe!Unreported(u),
         NEW i \in DOMAIN lines
  PROVE  LET r == Probe!Result(lines[i]) IN
         /\ tool # "diagnose" =>
              /\ r.kind = "success" <=> Probe!Succeeded(lines[i])
              /\ r.tries = IF r.purpose = "browser" THEN 2 ELSE 1
              /\ tool = "smoke" /\ r.kind # "success" => r.purpose = "browser"
         /\ tool = "login" => r.kind # "error"
<1> DEFINE u == lines[i]
           r == Probe!Result(u)
<1>1. /\ ProbeTyped /\ Once /\ Passes /\ HttpFirst /\ tool \in Probe!Tools
      /\ waiting = <<>> /\ flying = {}
  BY DEF ProbeInv, ProbeTyped, Probe!PassOver
<1>2. Known = Asked
  BY <1>1 DEF Known, Queued, Of
<1>3. /\ u \in Lines /\ u \in Probe!Range(lines) /\ u \in Sites
      /\ {"http", "browser", "home", "first", "revisit", "login"} = Probe!Purposes
  <2>1. u \in Lines /\ u \in Probe!Range(lines)
    BY DEF Lines, Of, Probe!Range
  <2> QED BY <1>1, <2>1, LinesAreSites
<1>4. tool # "diagnose" =>
        /\ r.purpose = Probe!LastTry(u).request.purpose /\ r.kind = Probe!LastTry(u).kind
        /\ r.tries = Probe!Cardinality(Probe!Attempts(u))
  BY DEF Probe!Result
<1> HIDE DEF u, r
<1>5. ASSUME NEW p \in {"http", "login"}, Asked = Each(p), tool \notin {"diagnose", "smoke"}
      PROVE  /\ r.kind = "success" <=> Probe!Succeeded(u)
             /\ r.tries = 1 /\ r.purpose # "browser"
  <2>1. p \in Probe!Purposes
    BY <1>3
  <2>2. PICK k \in DOMAIN log : Probe!Attempts(u) = {k} /\ log[k].request = Probe!For(p, u)
    BY <1>1, <1>3, <1>5, <2>1, SoleTry
  <2>3. Probe!For(p, u).purpose = p
    BY <1>3, <2>1, PurposesDiffer
  <2>4. /\ Probe!LastTry(u) = log[k] /\ Probe!Cardinality(Probe!Attempts(u)) = 1
        /\ Probe!Succeeded(u) <=> log[k].kind = "success"
    BY <1>1, <2>2, OneTry
  <2>5. r.tries = 1
    BY <1>4, <1>5, <2>4
  <2>6. r.kind = log[k].kind /\ r.purpose = p
    BY <1>4, <1>5, <2>2, <2>3, <2>4
  <2> QED BY <1>5, <2>4, <2>5, <2>6
<1>6. CASE tool = "direct"
  <2>1. Asked = Each("http")
    BY <1>1, <1>2, <1>6 DEF Probe!LastPass, Passes
  <2>2. /\ r.kind = "success" <=> Probe!Succeeded(u)
        /\ r.tries = 1 /\ r.purpose # "browser"
    BY <1>5, <1>6, <2>1
  <2> QED BY <1>6, <2>2 DEF u, r
<1>7. CASE tool = "login"
  <2>1. Asked = Each("login")
    BY <1>1, <1>2, <1>7 DEF Probe!LastPass, Passes
  <2>2. /\ r.kind = "success" <=> Probe!Succeeded(u)
        /\ r.tries = 1 /\ r.purpose # "browser"
    BY <1>5, <1>7, <2>1
  <2>3. r.kind # "error"
    BY <1>3, <1>4, <1>7 DEF Probe!Unreported
  <2> QED BY <1>7, <2>2, <2>3 DEF u, r
<1>8. CASE tool = "smoke"
  <2>1. stage = "browser" /\ Asked = Each("http") \cup Missed
    BY <1>1, <1>2, <1>8 DEF Probe!LastPass, Passes
  <2>2. PICK k \in DOMAIN log :
           /\ log[k].request = Probe!For("http", u)
           /\ log[k].kind = "success" <=> ReadByHttp(u)
           /\ ReadByHttp(u) => Probe!Attempts(u) = {k}
           /\ ~ReadByHttp(u) =>
                \E b \in DOMAIN log : /\ Probe!Attempts(u) = {k, b} /\ k < b
                                      /\ log[b].request = Probe!For("browser", u)
    BY <1>1, <1>3, <2>1, TwoTries
  <2>3. /\ Probe!For("http", u).purpose = "http"
        /\ Probe!For("browser", u).purpose = "browser"
    BY <1>3, PurposesDiffer
  <2>4. CASE ReadByHttp(u)
    <3>1. /\ Probe!LastTry(u) = log[k] /\ Probe!Cardinality(Probe!Attempts(u)) = 1
          /\ Probe!Succeeded(u) <=> log[k].kind = "success"
      BY <1>1, <2>2, <2>4, OneTry
    <3>2. r.tries = 1
      BY <1>4, <1>8, <3>1
    <3>3. r.kind = "success" /\ r.purpose = "http" /\ Probe!Succeeded(u)
      BY <1>4, <1>8, <2>2, <2>3, <2>4, <3>1
    <3> QED BY <1>8, <3>2, <3>3 DEF u, r
  <2>5. CASE ~ReadByHttp(u)
    <3>1. PICK b \in DOMAIN log : /\ Probe!Attempts(u) = {k, b} /\ k < b
                                  /\ log[b].request = Probe!For("browser", u)
      BY <2>2, <2>5
    <3>2. k \in Nat /\ b \in Nat
      BY <1>1 DEF ProbeTyped
    <3>3. Probe!Max({k, b}) = b
      <4>1. {k, b} \subseteq Nat /\ b \in {k, b} /\ \A y \in {k, b} : y <= b
        BY <3>1, <3>2
      <4> QED BY <4>1, MaxIs
    <3>4. Probe!Cardinality(Probe!Attempts(u)) = 2
      <4>1. IsFiniteSet({k}) /\ Cardinality({k}) = 1
        BY FS_Singleton
      <4>2. b \notin {k} /\ {k, b} = {k} \cup {b}
        BY <3>1, <3>2
      <4>3. Cardinality({k, b}) = 1 + 1
        BY <4>1, <4>2, FS_AddElement
      <4> QED BY <3>1, <4>3, ProbeCounts
    <3>5. Probe!LastTry(u) = log[b]
      BY <3>1, <3>3 DEF Probe!LastTry
    <3>6. Probe!Succeeded(u) <=> log[b].kind = "success"
      BY <2>2, <2>5, <3>1 DEF Probe!Succeeded
    <3>7. r.tries = 2
      BY <1>4, <1>8, <3>4
    <3>8. r.kind = log[b].kind /\ r.purpose = "browser"
      BY <1>4, <1>8, <2>3, <3>1, <3>5
    <3> QED BY <1>8, <3>6, <3>7, <3>8 DEF u, r
  <2> QED BY <2>4, <2>5
<1>9. CASE tool = "diagnose"
  BY <1>9
<1> QED BY <1>1, <1>6, <1>7, <1>8, <1>9 DEF Probe!Tools

\* The report is made of the log, which is complete.
LEMMA WriteKeeps == ProbeInv /\ Probe!Write => ProbeInv'
<1> SUFFICES ASSUME ProbeInv, Probe!Write PROVE ProbeInv'
  OBVIOUS
<1>1. /\ ProbeTyped /\ Once /\ Passes /\ HttpFirst /\ HomeFirst /\ RevisitLast
      /\ tool \in Probe!Tools /\ stage = Probe!LastPass /\ Probe!PassOver
      /\ waiting = <<>> /\ flying = {}
      /\ UNCHANGED <<tool, lines, waiting, flying, log>>
  BY DEF ProbeInv, ProbeTyped, Probe!Write, Probe!PassOver
<1>2. stage' \in {"thrown", "written"}
  BY DEF Probe!Write
<1>3. Once' /\ Passes' /\ HttpFirst' /\ OneByOne' /\ HomeFirst' /\ RevisitLast'
  <2>1. Once'
    BY <1>1 DEF Once, Asked, Queued, Of, NoTwice
  <2>2. Passes'
    BY <1>1, <1>2 DEF Passes
  <2>3. HttpFirst' /\ OneByOne' /\ HomeFirst' /\ RevisitLast'
    BY <1>1, <1>2 DEF HttpFirst, OneByOne, HomeFirst, RevisitLast, Touring
  <2> QED BY <2>1, <2>2, <2>3
<1>4. CASE stage' = "thrown" /\ UNCHANGED report
  <2>1. ProbeTyped'
    BY <1>1, <1>4 DEF ProbeTyped
  <2> QED BY <1>3, <1>4, <2>1 DEF ProbeInv, Probe!ReportTellsAll
<1>5. CASE /\ ~\E u \in Probe!Range(lines) : Probe!Unreported(u)
           /\ stage' = "written" /\ report' = Probe!Report
  <2>1. Known = Asked /\ DOMAIN lines = 1..Len(lines) /\ Len(lines) \in Nat
        /\ DOMAIN lines # {}
    <3>1. lines \in Seq(Sites) /\ lines # <<>>
      BY <1>1 DEF ProbeTyped
    <3>2. Len(lines) # 0 /\ DOMAIN lines = 1..Len(lines) /\ Len(lines) \in Nat
      BY <3>1, EmptySeq
    <3>3. 1 \in DOMAIN lines
      BY <3>2
    <3>4. Known = Asked
      BY <1>1 DEF Known, Queued, Of
    <3> QED BY <3>2, <3>3, <3>4
  <2>2. /\ report'.results = [i \in DOMAIN lines |-> Probe!Result(lines[i])]
        /\ report'.first = IF tool = "direct" THEN Probe!FirstRefusal ELSE 0
        /\ report'.visits = IF tool = "diagnose"
                            THEN {i \in DOMAIN log : log[i].request.purpose # "http"} ELSE {}
    BY <1>5 DEF Probe!Report
  <2>3. tool = "direct" =>
          /\ report'.first \in 0..Len(lines)
          /\ \A i \in DOMAIN log : log[i].kind \in Probe!Refusals =>
               /\ report'.first # 0
               /\ Probe!LastTry(lines[report'.first]).at <= log[i].at
    <3> SUFFICES ASSUME tool = "direct"
                 PROVE  /\ report'.first \in 0..Len(lines)
                        /\ \A i \in DOMAIN log : log[i].kind \in Probe!Refusals =>
                             /\ report'.first # 0
                             /\ Probe!LastTry(lines[report'.first]).at <= log[i].at
      OBVIOUS
    <3>1. Asked = Each("http")
      BY <1>1, <2>1 DEF Probe!LastPass, Passes
    <3>2. report'.first = Probe!FirstRefusal
      BY <2>2
    <3> QED BY <1>1, <3>1, <3>2, FirstIsEarliest
  <2>4. tool = "diagnose" =>
          LET seen == report'.visits IN
          /\ log[Probe!Min(seen)].request.purpose = "home"
          /\ {log[i].request.url : i \in seen \ {Probe!Min(seen), Probe!Max(seen)}}
               = Probe!Range(lines)
          /\ Probe!Cardinality(seen) = Probe!Cardinality(Probe!Range(lines)) + 2
          /\ log[Probe!Max(seen)].request.url = lines[1]
    <3> SUFFICES ASSUME tool = "diagnose"
                 PROVE  LET seen == report'.visits IN
                        /\ log[Probe!Min(seen)].request.purpose = "home"
                        /\ {log[i].request.url :
                              i \in seen \ {Probe!Min(seen), Probe!Max(seen)}}
                             = Probe!Range(lines)
                        /\ Probe!Cardinality(seen)
                             = Probe!Cardinality(Probe!Range(lines)) + 2
                        /\ log[Probe!Max(seen)].request.url = lines[1]
      OBVIOUS
    <3>1. Touring /\ Asked = Each("http") \cup Each("first") \cup {Home, Revisit}
      BY <1>1, <2>1 DEF Probe!LastPass, Passes, Touring
    <3>2. report'.visits = {i \in DOMAIN log : log[i].request.purpose # "http"}
      BY <2>2
    <3> QED BY <1>1, <3>1, <3>2, TourSeen
  <2>5. \A i \in DOMAIN lines : LET r == report'.results[i] IN
          /\ tool # "diagnose" =>
               /\ r.kind = "success" <=> Probe!Succeeded(lines[i])
               /\ r.tries = IF r.purpose = "browser" THEN 2 ELSE 1
               /\ tool = "smoke" /\ r.kind # "success" => r.purpose = "browser"
          /\ tool = "login" => r.kind # "error"
    BY <1>1, <1>5, <2>2, ReportIs
  <2>6. ProbeTyped'
    <3>1. report'.first \in 0..Len(lines)
      BY <2>1, <2>2, <2>3
    <3>2. Len(report'.results) = Len(lines)
      BY <2>1, <2>2
    <3> QED BY <1>1, <1>2, <3>1, <3>2 DEF ProbeTyped
  <2>7. /\ \A i \in DOMAIN lines : Probe!Succeeded(lines[i])' = Probe!Succeeded(lines[i])
        /\ \A u : Probe!LastTry(u)' = Probe!LastTry(u)
    BY <1>1 DEF Probe!Succeeded, Probe!LastTry, Probe!Attempts
  <2>8. Probe!ReportTellsAll'
    <3>1. tool = "login" => report'.results[1].kind # "error"
      BY <2>1, <2>5
    <3> QED BY <1>1, <2>3, <2>4, <2>5, <2>7, <3>1 DEF Probe!ReportTellsAll
  <2> QED BY <1>3, <2>6, <2>8 DEF ProbeInv
<1> QED BY <1>4, <1>5 DEF Probe!Write

LEMMA ProbeStays == ProbeInv /\ UNCHANGED probe => ProbeInv'
<1> SUFFICES ASSUME ProbeInv, UNCHANGED probe PROVE ProbeInv'
  OBVIOUS
<1>1. UNCHANGED <<tool, lines, stage, waiting, flying, log, report>>
  BY DEF probe
<1>2. ProbeTyped' /\ Once'
  <2>1. ProbeTyped'
    BY <1>1 DEF ProbeInv, ProbeTyped
  <2>2. Asked' = Asked /\ Queued' = Queued
    BY <1>1 DEF Asked, Queued, Of
  <2>3. NoTwice(waiting)'
    BY <1>1 DEF ProbeInv, Once, NoTwice
  <2> QED BY <1>1, <2>1, <2>2, <2>3 DEF ProbeInv, Once
<1>3. Passes'
  <2>1. Asked' = Asked /\ Known' = Known
    BY <1>1 DEF Known, Asked, Queued, Of
  <2>2. Lines' = Lines /\ \A u : ReadByHttp(u)' = ReadByHttp(u)
    BY <1>1 DEF Lines, Of, ReadByHttp
  <2>3. \A p : Each(p)' = Each(p)
    BY <2>2 DEF Each
  <2>4. Missed' = Missed
    BY <2>2 DEF Missed
  <2>5. Home' = Home /\ Revisit' = Revisit
    BY <1>1 DEF Home, Revisit
  <2> QED BY <1>1, <2>1, <2>3, <2>4, <2>5 DEF ProbeInv, Passes
<1>4. HttpFirst' /\ OneByOne' /\ HomeFirst' /\ RevisitLast'
  BY <1>1 DEF ProbeInv, HttpFirst, OneByOne, HomeFirst, RevisitLast, Touring, Asked, Queued,
              Of, Home, Revisit
<1>5. Probe!ReportTellsAll'
  BY <1>1 DEF ProbeInv, Probe!ReportTellsAll, Probe!Succeeded, Probe!LastTry, Probe!Attempts
<1> QED BY <1>2, <1>3, <1>4, <1>5 DEF ProbeInv

LEMMA ProbeKeeps == ProbeInv /\ [Probe!Next]_probe => ProbeInv'
<1>1. ASSUME ProbeInv, Probe!Next PROVE ProbeInv'
  <2>1. ProbeInv /\ Probe!Visit => ProbeInv'
    BY VisitKeeps
  <2> QED BY <1>1, <2>1, BeginKeeps, BrowserPassKeeps, WriteKeeps, EndsKeeps, BreaksKeeps
          DEF Probe!Next, Probe!Step
<1> QED BY <1>1, ProbeStays

LEMMA ProbeTypes == ProbeInv => Probe!TypeOK
<1> SUFFICES ASSUME ProbeInv PROVE Probe!TypeOK
  OBVIOUS
<1>1. ProbeTyped
  BY DEF ProbeInv
<1>2. Probe!Range(lines) \subseteq Sites
  BY <1>1 DEF ProbeTyped, Probe!Range
<1>3. \A i \in DOMAIN log : log[i] \in Tries
  BY <1>1 DEF ProbeTyped
<1>4. \A r \in Probe!Range(waiting) \cup flying \cup Probe!Range(Probe!Made) : r \in Requests
  <2>1. \A r \in Probe!Range(waiting) \cup flying : r \in Requests
    BY <1>1 DEF ProbeTyped, Probe!Range
  <2>2. \A i \in DOMAIN log : log[i].request \in Requests
    BY <1>3 DEF Tries
  <2>3. \A r \in Probe!Range(Probe!Made) : r \in Requests
    BY <2>2 DEF Probe!Range, Probe!Made
  <2> QED BY <2>1, <2>3
<1>5. \A r \in Requests : r.purpose \in Probe!Purposes /\ r.url \in Sites \cup {"home"}
  BY DEF Requests
<1>6. \A i \in DOMAIN log : log[i].kind \in Probe!Kinds
  BY <1>3 DEF Tries
<1> QED BY <1>1, <1>2, <1>4, <1>5, <1>6 DEF ProbeTyped, Probe!TypeOK

-----------------------------------------------------------------------------
\* smoke.ts, http-throughput.ts, diagnose.ts and login.ts: whatever order the requests of a
\* pass end in, a report that is written calls a line a success just when its URL was read by
\* a channel it reports on, gives no URL up before every channel has tried it, counts no
\* channel twice, names as the first refusal one that no other came before, and tells of a
\* browser that saw the home page, each URL once, and the first URL again.
THEOREM ReportsTell == CommandSpec => []ReportsTellAll
<1>1. CommandInit => ProbeInv
  BY ProbeInits DEF CommandInit
<1>2. ProbeInv /\ [CommandNext]_all => ProbeInv'
  BY StepsOfCommands, ProbeKeeps
<1>3. ProbeInv => ReportsTellAll
  BY DEF ProbeInv, ReportsTellAll
<1> QED BY <1>1, <1>2, <1>3, PTL DEF CommandSpec

\* The types of all commands: there are never more sessions than the recoveries allow, no
\* process writes more samples of bad answers than it may, stray handlers included, and a
\* report has a result for each line or none at all.
THEOREM CommandsTyped == CommandSpec => []TypesOK
<1>1. CommandInit => RecoveryInv /\ SamplesInv /\ ProbeInv
  BY RecoveryInits, RowsInits, SamplesInits, ProbeInits DEF CommandInit, SamplesInv
<1>2. RecoveryInv /\ SamplesInv /\ ProbeInv /\ [CommandNext]_all
        => (RecoveryInv /\ SamplesInv /\ ProbeInv)'
  BY StepsOfCommands, RecoveryKeeps, SamplesKeep, ProbeKeeps
<1>3. RecoveryInv /\ SamplesInv /\ ProbeInv => TypesOK
  BY RecoveryTypes, CrawlTypes, ProbeTypes DEF TypesOK
<1> QED BY <1>1, <1>2, <1>3, PTL DEF CommandSpec
====
