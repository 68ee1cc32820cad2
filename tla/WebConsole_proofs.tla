------------------------- MODULE WebConsole_proofs --------------------------
(***************************************************************************)
(* Proofs about the pages of the web console, for any number of posts,     *)
(* platforms, sections, tasks, requests and streams: what is sent is what  *)
(* was shown and chosen, what was typed stays, a save overwrites nothing   *)
(* unseen, and no browser is left behind by its task.                      *)
(***************************************************************************)
EXTENDS MCWebConsole, WellFoundedInduction, SequenceTheorems, TLAPS

-----------------------------------------------------------------------------
(* The page that is shown takes the steps; the others stay as they are.    *)

LEMMA StepsOfPages ==
  ASSUME [ConsoleNext]_console
  PROVE  /\ [SheetNext]_extraction /\ [AuthNext]_authVars /\ page' = page
         /\ \/ UNCHANGED <<events, form, reader>>
            \/ EventsNext /\ UNCHANGED <<form, reader>>
            \/ page = "forms" /\ FormNext /\ UNCHANGED reader
            \/ page = "posts" /\ ReaderNext /\ UNCHANGED form
  BY DEF ConsoleNext, console, Listening, OnForms, OnPosts, OnExtraction, OnSession, On

-----------------------------------------------------------------------------
(* The answers a page holds.                                               *)

\* Nothing is held, or has come, that the server has not had.
AnswersTyped ==
  /\ server \in [Queries -> Nat] /\ cache \in [Queries -> Nat] /\ answer \in [Queries -> Nat]
  /\ fetching \in [Queries -> {"idle", "asked", "answered"}]
  /\ \A q \in Queries : /\ server[q] \in 1..MaxVersion[q]
                        /\ cache[q] <= server[q] /\ answer[q] <= server[q]
                        /\ fetching[q] = "answered" => answer[q] # 0
MarksTyped ==
  /\ active \subseteq Queries /\ invalidated \subseteq Queries /\ pending \subseteq active
  /\ failed \subseteq Queries /\ outrun \subseteq Queries /\ cut \subseteq Queries
  /\ timer \in BOOLEAN
CountsTyped ==
  /\ bus \in Seq(Queries) /\ connected \in BOOLEAN /\ cursor \in Nat
  /\ incidents \in 0..MaxIncidents /\ restarts \in 0..MaxRestarts

EventsInv == AnswersTyped /\ MarksTyped /\ CountsTyped

LEMMA EventsTyped == EventsInv => TypeOK
<1> SUFFICES ASSUME EventsInv PROVE TypeOK
  OBVIOUS
<1>1. \A q \in Queries : /\ server[q] \in 1..MaxVersion[q]
                         /\ cache[q] \in 0..MaxVersion[q] /\ answer[q] \in 0..MaxVersion[q]
  BY QueriesType DEF EventsInv, AnswersTyped
<1>2. \A i \in DOMAIN bus : bus[i] \in Queries
  BY DEF EventsInv, CountsTyped
<1>3. \A s \in {active, invalidated, pending, failed, outrun, cut} : s \subseteq Queries
  BY DEF EventsInv, MarksTyped
<1> QED BY <1>1, <1>2, <1>3 DEF EventsInv, AnswersTyped, MarksTyped, CountsTyped, TypeOK

LEMMA EventsInits ==
  ASSUME NEW shown0 \in SUBSET Queries, EventsInit(shown0)
  PROVE  EventsInv
<1>1. /\ server \in [Queries -> Nat] /\ cache \in [Queries -> Nat] /\ answer \in [Queries -> Nat]
      /\ fetching \in [Queries -> {"idle", "asked", "answered"}]
      /\ \A q \in Queries : /\ server[q] = 1 /\ cache[q] \in {0, 1} /\ answer[q] = 0
                            /\ fetching[q] = "idle"
  BY DEF EventsInit
<1>2. AnswersTyped
  BY <1>1, QueriesType DEF AnswersTyped
<1>3. MarksTyped
  BY DEF EventsInit, MarksTyped
<1>4. CountsTyped
  BY QueriesType DEF EventsInit, CountsTyped
<1> QED BY <1>2, <1>3, <1>4 DEF EventsInv

\* A request starts.
LEMMA AskedForm ==
  ASSUME EventsInv, NEW qs,
         fetching' = [q \in Queries |-> IF q \in qs THEN "asked" ELSE fetching[q]],
         UNCHANGED <<server, cache, answer>>
  PROVE  AnswersTyped'
BY DEF EventsInv, AnswersTyped

\* A round, or notices for some queries.
LEMMA FlushForm ==
  ASSUME EventsInv, NEW now, NEW left, NEW armed \in BOOLEAN, Flush(now, left, armed),
         left \subseteq active, invalidated' \subseteq Queries,
         UNCHANGED <<server, active, held>>
  PROVE  AnswersTyped' /\ MarksTyped'
<1>1. AnswersTyped'
  BY AskedForm DEF Flush, Asked, held, known
<1>2. timer' \in BOOLEAN /\ pending' \subseteq active
  BY DEF Flush
<1> QED BY <1>1, <1>2 DEF EventsInv, MarksTyped, held, known

LEMMA InvalidateForm ==
  ASSUME EventsInv, NEW qs \in SUBSET Queries, NEW now \in BOOLEAN, Invalidate(qs, now),
         UNCHANGED <<server, active, held>>
  PROVE  AnswersTyped' /\ MarksTyped'
BY FlushForm DEF Invalidate, EventsInv, MarksTyped

\* One answer changes, and what is known of its request.
LEMMA AnswerForm ==
  ASSUME EventsInv, NEW q \in Queries, NEW state \in {"idle", "asked", "answered"},
         NEW now \in 0..server[q], now # 0 \/ state # "answered", UNCHANGED server,
         fetching' = [fetching EXCEPT ![q] = state], answer' = [answer EXCEPT ![q] = now],
         cache' = cache \/ \E version \in 0..server[q] : cache' = [cache EXCEPT ![q] = version]
  PROVE  AnswersTyped'
<1>1. server[q] \in Nat /\ \A version \in 0..server[q] : version \in Nat /\ version <= server[q]
  BY DEF EventsInv, AnswersTyped
<1>2. cache' \in [Queries -> Nat] /\ \A p \in Queries : cache'[p] <= server[p]
  BY <1>1 DEF EventsInv, AnswersTyped
<1>3. /\ answer' \in [Queries -> Nat] /\ \A p \in Queries : answer'[p] <= server[p]
      /\ fetching' \in [Queries -> {"idle", "asked", "answered"}]
      /\ \A p \in Queries : fetching'[p] = "answered" => answer'[p] # 0
  BY <1>1 DEF EventsInv, AnswersTyped
<1> QED BY <1>2, <1>3 DEF EventsInv, AnswersTyped

LEMMA EndsForm ==
  ASSUME EventsInv, NEW q \in Queries, Ends(q),
         cache' = cache \/ \E version \in 0..server[q] : cache' = [cache EXCEPT ![q] = version],
         invalidated' \subseteq Queries, failed' \subseteq Queries, outrun' \subseteq Queries,
         cut' \subseteq Queries, incidents' \in 0..MaxIncidents
  PROVE  EventsInv'
<1>1. AnswersTyped'
  <2>1. 0 \in 0..server[q]
    BY DEF EventsInv, AnswersTyped
  <2> QED BY <2>1, AnswerForm DEF Ends
<1>2. timer' \in BOOLEAN
  BY DEF Ends, EventsInv, MarksTyped
<1>3. MarksTyped' /\ CountsTyped'
  BY <1>2 DEF Ends, stream, EventsInv, MarksTyped, CountsTyped
<1> QED BY <1>1, <1>3 DEF EventsInv

LEMMA SettleKeeps ==
  ASSUME EventsInv, NEW q \in Queries, Settle(q)
  PROVE  EventsInv' /\ cache'[q] \in 1..server[q] /\ server' = server
<1>1. answer[q] \in 1..server[q]
  BY DEF Settle, EventsInv, AnswersTyped
<1>2. cache' = [cache EXCEPT ![q] = answer[q]] /\ Ends(q)
  BY DEF Settle
<1>3. /\ invalidated' \subseteq Queries /\ failed' \subseteq Queries /\ outrun' \subseteq Queries
      /\ cut' \subseteq Queries /\ incidents' \in 0..MaxIncidents
  BY DEF Settle, EventsInv, MarksTyped, CountsTyped
<1>4. cache'[q] = answer[q]
  BY <1>2 DEF EventsInv, AnswersTyped
<1>5. answer[q] \in 0..server[q]
  BY <1>1
<1>6. server' = server
  BY <1>2 DEF Ends
<1> QED BY <1>1, <1>2, <1>3, <1>4, <1>5, <1>6, EndsForm

LEMMA FailKeeps ==
  ASSUME EventsInv, NEW q \in Queries, Fail(q)
  PROVE  EventsInv' /\ cache' = cache /\ server' = server
<1>1. Ends(q) /\ cache' = cache
  BY DEF Fail
<1>2. /\ invalidated' \subseteq Queries /\ failed' \subseteq Queries /\ outrun' \subseteq Queries
      /\ cut' \subseteq Queries
  BY DEF Fail, EventsInv, MarksTyped
<1>3. incidents' \in 0..MaxIncidents
  BY QueriesType DEF Fail, EventsInv, CountsTyped
<1> QED BY <1>1, <1>2, <1>3, EndsForm DEF Ends

LEMMA SetDataKeeps ==
  ASSUME EventsInv, NEW q \in Queries, NEW version \in 1..server[q], NEW anew \in BOOLEAN,
         SetData(q, version, anew), UNCHANGED <<server, stream, incidents>>
  PROVE  EventsInv' /\ cache'[q] = version
<1>1. /\ cache' = [cache EXCEPT ![q] = version] /\ cache'[q] = version
      /\ version \in 0..server[q] /\ 0 \in 0..server[q]
  BY DEF SetData, EventsInv, AnswersTyped
<1>2. AnswersTyped'
  <2>1. CASE anew
    BY <1>1, <2>1, AnswerForm DEF SetData
  <2>2. CASE ~anew
    <3>1. /\ fetching' = [fetching EXCEPT ![q] = fetching[q]]
          /\ answer' = [answer EXCEPT ![q] = answer[q]]
      BY <2>2 DEF SetData, EventsInv, AnswersTyped
    <3>2. /\ fetching[q] \in {"idle", "asked", "answered"} /\ answer[q] \in 0..server[q]
          /\ answer[q] # 0 \/ fetching[q] # "answered"
      BY DEF EventsInv, AnswersTyped
    <3> QED BY <1>1, <3>1, <3>2, AnswerForm
  <2> QED BY <2>1, <2>2
<1>3. MarksTyped'
  BY DEF SetData, EventsInv, MarksTyped
<1>4. CountsTyped'
  BY DEF stream, EventsInv, CountsTyped
<1> QED BY <1>1, <1>2, <1>3, <1>4 DEF EventsInv

\* The server's answer to a query changes.
LEMMA PublishKeeps ==
  ASSUME EventsInv, NEW q \in Queries, Publish(q), UNCHANGED <<active, round, held>>,
         incidents' \in 0..MaxIncidents
  PROVE  /\ EventsInv' /\ server'[q] = server[q] + 1
         /\ \A p \in Queries : p # q => server'[p] = server[p]
<1>1. /\ server[q] < MaxVersion[q] /\ server' = [server EXCEPT ![q] = @ + 1]
      /\ bus' = Append(bus, q) /\ UNCHANGED <<connected, cursor, restarts>>
  BY DEF Publish
<1>2. /\ server' \in [Queries -> Nat] /\ server'[q] = server[q] + 1
      /\ \A p \in Queries : p # q => server'[p] = server[p]
  BY <1>1 DEF EventsInv, AnswersTyped
<1>3. \A p \in Queries : server'[p] \in 1..MaxVersion[p] /\ server[p] <= server'[p]
  BY <1>1, <1>2, QueriesType DEF EventsInv, AnswersTyped
<1>4. AnswersTyped'
  BY <1>2, <1>3 DEF EventsInv, AnswersTyped, held, known, round
<1>5. MarksTyped'
  BY DEF EventsInv, MarksTyped, held, known, round
<1>6. CountsTyped'
  BY <1>1 DEF EventsInv, CountsTyped
<1> QED BY <1>2, <1>4, <1>5, <1>6 DEF EventsInv

LEMMA ReadKeeps ==
  ASSUME EventsInv, NEW q \in Queries, Read(q)
  PROVE  EventsInv'
<1>1. server[q] \in 0..server[q] /\ server[q] # 0
  BY DEF EventsInv, AnswersTyped
<1>2. AnswersTyped'
  BY <1>1, AnswerForm DEF Read, known
<1> QED BY <1>2 DEF Read, EventsInv, MarksTyped, CountsTyped, stream, known

LEMMA ShowKeeps ==
  ASSUME EventsInv, NEW shown0 \in SUBSET Queries, Show(shown0)
  PROVE  EventsInv' /\ cache' = cache /\ server' = server
<1> DEFINE leaving == active \ shown0
           coming == shown0 \ active
           reads == {q \in coming : q \in invalidated \/ cache[q] = 0}
<1>1. PICK old \in SUBSET (coming \ reads) :
        fetching' = [q \in Queries |-> IF q \in leaving THEN "idle"
                                       ELSE IF q \in reads \cup old THEN "asked" ELSE fetching[q]]
  BY DEF Show
<1>2. /\ active' = shown0 /\ invalidated' = invalidated \cup (pending \cap leaving)
      /\ pending' = pending \ leaving
      /\ answer' = [q \in Queries |-> IF q \in leaving THEN 0 ELSE answer[q]]
      /\ cut' = cut \cup {q \in leaving : fetching[q] # "idle" /\ q \notin invalidated \cup pending}
      /\ UNCHANGED <<timer, server, stream, cache, failed, outrun, incidents>>
  BY DEF Show
<1>3. fetching' \in [Queries -> {"idle", "asked", "answered"}]
  BY <1>1 DEF EventsInv, AnswersTyped
<1>4. \A q \in Queries : fetching'[q] = "answered" => q \notin leaving /\ fetching[q] = "answered"
  BY <1>1
<1>5. /\ answer' \in [Queries -> Nat]
      /\ \A q \in Queries : /\ answer'[q] <= server[q]
                            /\ q \notin leaving => answer'[q] = answer[q]
  BY <1>2 DEF EventsInv, AnswersTyped
<1>6. AnswersTyped'
  BY <1>2, <1>3, <1>4, <1>5 DEF EventsInv, AnswersTyped
<1>7. MarksTyped'
  BY <1>2 DEF EventsInv, MarksTyped
<1>8. CountsTyped'
  BY <1>2 DEF EventsInv, CountsTyped, stream
<1> QED BY <1>2, <1>6, <1>7, <1>8 DEF EventsInv

LEMMA DeliverKeeps ==
  ASSUME EventsInv, Deliver
  PROVE  EventsInv'
<1>1. cursor' = cursor + 1 /\ cursor < Len(bus) /\ bus \in Seq(Queries) /\ cursor \in Nat
  BY DEF Deliver, EventsInv, CountsTyped
<1>2. bus[cursor'] \in Queries
  BY <1>1
<1>3. Concerns[bus[cursor']] \in SUBSET Queries
  BY <1>2, QueriesType
<1>4. Invalidate(Concerns[bus[cursor']], bus[cursor'] \notin Ordinary)
  BY DEF Deliver
<1>5. AnswersTyped' /\ MarksTyped'
  BY <1>3, <1>4, InvalidateForm DEF Deliver
<1>6. CountsTyped'
  BY <1>1 DEF Deliver, EventsInv, CountsTyped
<1> QED BY <1>5, <1>6 DEF EventsInv

LEMMA EventsKeep ==
  ASSUME EventsInv, EventsNext
  PROVE  EventsInv' /\ cache' = cache /\ server' = server
<1>1. cache' = cache /\ server' = server
  BY DEF EventsNext, TimerFires, Deliver, Drop, Reconnect, RefreshAll, Read, held, known
<1>2. CASE TimerFires
  <2>1. pending \subseteq active /\ invalidated' \subseteq Queries
    BY <1>2 DEF TimerFires, EventsInv, MarksTyped
  <2>2. AnswersTyped' /\ MarksTyped'
    BY <1>2, <2>1, FlushForm DEF TimerFires
  <2>3. CountsTyped'
    BY <1>2 DEF TimerFires, stream, EventsInv, CountsTyped
  <2> QED BY <1>1, <2>2, <2>3 DEF EventsInv
<1>3. CASE Drop
  <2>1. incidents' \in 0..MaxIncidents
    BY <1>3, QueriesType DEF Drop, EventsInv, CountsTyped
  <2> QED BY <1>3, <2>1
      DEF Drop, EventsInv, AnswersTyped, MarksTyped, CountsTyped, round, held, known
<1>4. CASE Reconnect \/ RefreshAll
  <2>1. AnswersTyped' /\ MarksTyped'
    BY <1>4, InvalidateForm DEF Reconnect, RefreshAll
  <2>2. CountsTyped'
    <3>1. CASE Reconnect
      BY <3>1 DEF Reconnect, EventsInv, CountsTyped
    <3>2. CASE RefreshAll
      BY <3>2, QueriesType DEF RefreshAll, EventsInv, CountsTyped, stream
    <3> QED BY <1>4, <3>1, <3>2
  <2> QED BY <1>1, <2>1, <2>2 DEF EventsInv
<1> QED BY <1>1, <1>2, <1>3, <1>4, DeliverKeeps, ReadKeeps DEF EventsNext

-----------------------------------------------------------------------------
(* The sheet for a new extraction.                                         *)

Submissions == [stage : {"sent", "started"}, key : Nat, platform : Platforms,
                of : SUBSET Platforms]

\* Whatever was put in is of the platform chosen, and so is what is on its way.
SheetInv ==
  /\ SheetTypeOK
  /\ \A m \in Modes : chosen[m] \subseteq {platform}
  /\ submission \in Submissions \cup {NoSubmission}
  /\ submission # NoSubmission => submission.of = {submission.platform}
  /\ StartedForItsPlatform

LEMMA SheetInits == SheetInit => SheetInv
<1> SUFFICES ASSUME SheetInit PROVE SheetInv
  OBVIOUS
<1>1. chosen \in [Modes -> SUBSET Platforms] /\ \A m \in Modes : chosen[m] \subseteq {platform}
  BY DEF SheetInit, Empty
<1>2. SheetTypeOK
  <2>1. sent \in 0..MaxSent /\ outages \in 0..MaxOutages
    BY SheetAssumption DEF SheetInit
  <2>2. submission.stage = "none" /\ mode \in Modes /\ platform \in Platforms
    BY SheetAssumption DEF SheetInit, NoSubmission, Modes
  <2> QED BY <1>1, <2>1, <2>2 DEF SheetInit, SheetTypeOK
<1> QED BY <1>1, <1>2 DEF SheetInit, SheetInv, StartedForItsPlatform

\* A platform is chosen, by the user or because the one before cannot be used.
LEMMA SelectKeeps ==
  ASSUME SheetInv, NEW next \in Platforms, Select(next)
  PROVE  /\ platform' \in Platforms /\ chosen' \in [Modes -> SUBSET Platforms]
         /\ \A m \in Modes : chosen'[m] \subseteq {platform'}
  BY DEF SheetInv, SheetTypeOK, Select, Empty

LEMMA ChoosingKeeps ==
  ASSUME SheetInv, ChoosePlatform \/ PlatformsRead
  PROVE  SheetInv'
<1>1. CASE ChoosePlatform
  <2>1. PICK next \in usable : Select(next)
    BY <1>1 DEF ChoosePlatform
  <2>2. next \in Platforms
    BY <2>1 DEF SheetInv, SheetTypeOK
  <2> QED BY <1>1, <2>1, <2>2, SelectKeeps
      DEF ChoosePlatform, SheetInv, SheetTypeOK, StartedForItsPlatform
<1>2. CASE PlatformsRead
  <2>1. /\ usable' \subseteq Platforms /\ outages' \in 0..MaxOutages
        /\ UNCHANGED <<sheet, mode, submission, runs, sent>>
    BY <1>2, SheetAssumption DEF PlatformsRead, SheetInv, SheetTypeOK
  <2>2. CASE UNCHANGED <<platform, chosen>>
    BY <2>1, <2>2 DEF SheetInv, SheetTypeOK, StartedForItsPlatform
  <2>3. CASE \E next \in usable' : Select(next)
    BY <2>1, <2>3, SelectKeeps DEF SheetInv, SheetTypeOK, StartedForItsPlatform
  <2> QED BY <1>2, <2>2, <2>3 DEF PlatformsRead
<1> QED BY <1>1, <1>2

LEMMA FillingKeeps ==
  ASSUME SheetInv, OpenSheet \/ CloseSheet \/ ChooseMode \/ Choose
  PROVE  SheetInv'
<1>1. submission' = submission /\ runs' = runs /\ platform' = platform
  BY DEF OpenSheet, CloseSheet, ChooseMode, Choose
<1>2. chosen' \in [Modes -> SUBSET Platforms] /\ \A m \in Modes : chosen'[m] \subseteq {platform}
  BY DEF SheetInv, SheetTypeOK, OpenSheet, CloseSheet, ChooseMode, Choose, Reset, Empty
<1>3. SheetTypeOK'
  BY <1>2 DEF SheetInv, SheetTypeOK, OpenSheet, CloseSheet, ChooseMode, Choose, Reset, Modes
<1> QED BY <1>1, <1>2, <1>3 DEF SheetInv, StartedForItsPlatform

LEMMA SendingKeeps ==
  ASSUME SheetInv, SubmitSheet \/ ServerStarts \/ SubmissionFails \/ SubmissionDone
  PROVE  SheetInv'
<1>1. SheetTypeOK'
  <2>1. /\ UNCHANGED <<platform, usable, outages>>
        /\ UNCHANGED <<mode, chosen>> \/ Reset
        /\ sheet' \in BOOLEAN
    BY DEF SubmitSheet, ServerStarts, SubmissionFails, SubmissionDone, SheetInv, SheetTypeOK
  <2>2. mode' \in Modes /\ chosen' \in [Modes -> SUBSET Platforms]
    BY <2>1 DEF Reset, Empty, Modes, SheetInv, SheetTypeOK
  <2>3. sent' \in 0..MaxSent
    BY SheetAssumption
    DEF SubmitSheet, ServerStarts, SubmissionFails, SubmissionDone, SheetInv, SheetTypeOK
  <2>4. submission'.stage \in {"none", "sent", "started"}
    BY DEF SubmitSheet, ServerStarts, SubmissionFails, SubmissionDone, SheetInv, Submissions,
           NoSubmission
  <2> QED BY <2>1, <2>2, <2>3, <2>4 DEF SheetInv, SheetTypeOK
<1>2. \A m \in Modes : chosen'[m] \subseteq {platform'}
  BY DEF SubmitSheet, ServerStarts, SubmissionFails, SubmissionDone, SheetInv, Reset, Empty
<1>3. CASE SubmitSheet
  <2>1. chosen[mode] = {platform} /\ sent' \in Nat /\ platform \in Platforms
    BY <1>3, SheetAssumption DEF SubmitSheet, CanSubmit, SheetInv, SheetTypeOK
  <2>2. submission' \in Submissions /\ submission'.of = {submission'.platform}
    BY <1>3, <2>1 DEF SubmitSheet, Submissions
  <2> QED BY <1>1, <1>2, <1>3, <2>2 DEF SubmitSheet, SheetInv, StartedForItsPlatform
<1>4. CASE ServerStarts
  <2>1. submission \in Submissions /\ submission.of = {submission.platform}
    BY <1>4 DEF ServerStarts, SheetInv, NoSubmission
  <2>2. submission' \in Submissions /\ submission'.of = {submission'.platform}
    BY <1>4, <2>1 DEF ServerStarts, Submissions
  <2> QED BY <1>1, <1>2, <1>4, <2>1, <2>2 DEF ServerStarts, SheetInv, StartedForItsPlatform
<1>5. CASE SubmissionFails \/ SubmissionDone
  BY <1>1, <1>2, <1>5 DEF SubmissionFails, SubmissionDone, SheetInv, StartedForItsPlatform
<1> QED BY <1>3, <1>4, <1>5

LEMMA SheetKeeps == SheetInv /\ [SheetNext]_extraction => SheetInv'
<1>1. SheetInv /\ UNCHANGED extraction => SheetInv'
  BY DEF SheetInv, SheetTypeOK, StartedForItsPlatform, extraction
<1> QED BY <1>1, ChoosingKeeps, FillingKeeps, SendingKeeps DEF SheetNext

-----------------------------------------------------------------------------
(* Reading and judging posts.                                              *)

\* While the window is open its fields stand for what the sheet shows.
ReaderInv ==
  /\ reading \in Posts \cup {None} /\ switching \in BOOLEAN /\ judging \in BOOLEAN
  /\ seen \in Views /\ entered \in Views
  /\ verdict.stage \in {"none", "sent", "stored", "refreshing"}
  /\ seen = Nobody \/ seen.post \in Posts
  /\ judging => reading # None /\ seen # Nobody /\ entered = seen
  /\ verdict.stage = "sent" => verdict.to.post \in Posts
  /\ SentAsShown

LEMMA ReaderTyped == ReaderInv => ReaderTypeOK
  BY DEF ReaderInv, ReaderTypeOK

LEMMA ReaderInits == ReaderInit => ReaderInv
<1> SUFFICES ASSUME ReaderInit PROVE ReaderInv
  OBVIOUS
<1>1. /\ judging = FALSE /\ switching = FALSE /\ verdict.stage = "none"
      /\ reading = None /\ seen = Nobody /\ entered = Nobody
  BY DEF ReaderInit, NoVerdict
<1>2. Nobody \in Views
  BY DEF Nobody, Views
<1> QED BY <1>1, <1>2 DEF ReaderInv, SentAsShown

\* The sheet shows a post, and never nothing again.
LEMMA ShowsForm ==
  ASSUME EventsInv', ReaderInv, NEW post \in Posts \cup {None}
  PROVE  /\ Shows(post) \in Views /\ (Shows(post) = Nobody \/ Shows(post).post \in Posts)
         /\ seen # Nobody => Shows(post) # Nobody
<1>1. ASSUME post # None /\ cache'[post] # 0
      PROVE  /\ [post |-> post, version |-> cache'[post]] \in Views
             /\ [post |-> post, version |-> cache'[post]].post \in Posts
             /\ [post |-> post, version |-> cache'[post]] # Nobody
  <2>1. post \in Queries
    BY <1>1, ReaderAssumption
  <2>2. cache'[post] \in Nat
    BY <2>1 DEF EventsInv, AnswersTyped
  <2> QED BY <1>1, <2>2 DEF Views, Nobody
<1> QED BY <1>1 DEF Shows, ReaderInv

\* Only posts' answers change on this page.
PostsOnly == \A q \in Queries \ Posts : server'[q] = server[q]

LEMMA TurningKeeps ==
  ASSUME EventsInv, ReaderInv, NEW post \in Posts, OpenPost(post) \/ Move(post)
  PROVE  EventsInv' /\ ReaderInv' /\ PostsOnly
<1>1. judging = FALSE /\ Turn(post)
  BY DEF OpenPost, Move, ReaderInv
<1>2. {post} \in SUBSET Queries
  BY ReaderAssumption
<1>3. EventsInv' /\ server' = server
  BY <1>1, <1>2, ShowKeeps DEF Turn
<1>4. /\ reading' = post /\ seen' = Shows(post)
      /\ judging' = judging /\ entered' = entered /\ verdict' = verdict
  BY <1>1 DEF Turn
<1>5. switching' \in BOOLEAN
  BY DEF OpenPost, Move, ReaderInv
<1>6. seen' \in Views /\ (seen' = Nobody \/ seen'.post \in Posts)
  BY <1>3, <1>4, ShowsForm
<1> QED BY <1>1, <1>3, <1>4, <1>5, <1>6 DEF ReaderInv, SentAsShown, PostsOnly

LEMMA RefreshedKeeps ==
  ASSUME EventsInv, ReaderInv, NEW post \in Posts, PostSettles(post) \/ PostFails(post)
  PROVE  EventsInv' /\ ReaderInv' /\ PostsOnly
<1>1. post \in Queries
  BY ReaderAssumption
<1>2. EventsInv' /\ server' = server
  BY <1>1, SettleKeeps, FailKeeps DEF PostSettles, PostFails
<1>3. /\ seen' = Shows(reading) /\ entered' = Refilled
      /\ reading' = reading /\ switching' = switching /\ judging' = judging /\ verdict' = verdict
  BY DEF PostSettles, PostFails, Refreshed
<1>4. /\ seen' \in Views /\ (seen' = Nobody \/ seen'.post \in Posts)
      /\ seen # Nobody => seen' # Nobody
  BY <1>2, <1>3, ShowsForm DEF ReaderInv
<1>5. entered' \in Views /\ (judging => entered' = seen')
  BY <1>3, <1>4 DEF Refilled, ReaderInv
<1> QED BY <1>2, <1>3, <1>4, <1>5 DEF ReaderInv, SentAsShown, PostsOnly

LEMMA JudgingKeeps ==
  ASSUME EventsInv, ReaderInv, Judge \/ Leave \/ Moved \/ ClosePost \/ Submit
  PROVE  EventsInv' /\ ReaderInv' /\ PostsOnly
<1>1. EventsInv' /\ server' = server
  <2>1. CASE ClosePost
    <3>1. Show({}) /\ {} \in SUBSET Queries
      BY <2>1 DEF ClosePost
    <3> QED BY <3>1, ShowKeeps
  <2>2. CASE UNCHANGED events
    BY <2>2
    DEF events, stream, round, held, known, EventsInv, AnswersTyped, MarksTyped, CountsTyped
  <2> QED BY <2>1, <2>2 DEF Judge, Leave, Moved, Submit
<1>2. Nobody \in Views
  BY DEF Nobody, Views
<1>3. CASE Judge
  <2>1. /\ reading # None /\ seen # Nobody /\ judging' = TRUE /\ entered' = seen
        /\ UNCHANGED <<reading, seen, switching, verdict>>
    BY <1>3 DEF Judge
  <2> QED BY <1>1, <2>1 DEF ReaderInv, SentAsShown, PostsOnly
<1>4. CASE Leave \/ ClosePost
  <2>1. /\ judging' = FALSE /\ seen' = seen /\ verdict' = verdict
        /\ reading' \in {reading, None} /\ switching' \in {switching, FALSE}
        /\ entered' \in {entered, Nobody}
    BY <1>4 DEF Leave, ClosePost, ReaderInv
  <2> QED BY <1>1, <1>2, <2>1 DEF ReaderInv, SentAsShown, PostsOnly
<1>5. CASE Moved
  <2>1. switching' = FALSE /\ UNCHANGED <<reading, seen, judging, entered, verdict>>
    BY <1>5 DEF Moved
  <2> QED BY <1>1, <2>1 DEF ReaderInv, SentAsShown, PostsOnly
<1>6. CASE Submit
  <2>1. /\ judging /\ verdict'.stage = "sent" /\ verdict'.of = entered /\ verdict'.to = seen
        /\ UNCHANGED <<reading, seen, switching, judging, entered>>
    BY <1>6 DEF Submit
  <2> QED BY <1>1, <2>1 DEF ReaderInv, SentAsShown, PostsOnly
<1> QED BY <1>3, <1>4, <1>5, <1>6

LEMMA VerdictKeeps ==
  ASSUME EventsInv, ReaderInv, VerdictStored \/ VerdictLost \/ VerdictAnswered \/ VerdictDone
  PROVE  EventsInv' /\ ReaderInv' /\ PostsOnly
<1>1. /\ verdict'.stage \in {"none", "stored", "refreshing"}
      /\ \/ UNCHANGED <<reading, seen, switching, judging, entered>>
         \/ judging' = FALSE /\ entered' = Nobody /\ UNCHANGED <<reading, seen, switching>>
  BY DEF VerdictStored, VerdictLost, VerdictAnswered, VerdictDone, NoVerdict
<1>2. Nobody \in Views
  BY DEF Nobody, Views
<1>3. ReaderInv'
  <2>1. CASE UNCHANGED <<reading, seen, switching, judging, entered>>
    BY <1>1, <2>1 DEF ReaderInv, SentAsShown
  <2>2. CASE judging' = FALSE /\ entered' = Nobody /\ UNCHANGED <<reading, seen, switching>>
    BY <1>1, <1>2, <2>2 DEF ReaderInv, SentAsShown
  <2> QED BY <1>1, <2>1, <2>2
<1>4. CASE VerdictStored
  <2>1. verdict.to.post \in Posts /\ verdict.to.post \in Queries /\ Publish(verdict.to.post)
    BY <1>4, ReaderAssumption DEF VerdictStored, ReaderInv
  <2>2. incidents' \in 0..MaxIncidents /\ UNCHANGED <<active, round, held>>
    BY <1>4 DEF VerdictStored, EventsInv, CountsTyped
  <2>3. EventsInv' /\ PostsOnly
    BY <2>1, <2>2, PublishKeeps DEF PostsOnly
  <2> QED BY <1>3, <2>3
<1>5. CASE VerdictLost
  <2>1. incidents' \in 0..MaxIncidents
    BY <1>5, QueriesType DEF VerdictLost, EventsInv, CountsTyped
  <2>2. UNCHANGED <<server, stream, active, round, held>>
    BY <1>5 DEF VerdictLost
  <2>3. EventsInv'
    BY <2>1, <2>2
    DEF stream, round, held, known, EventsInv, AnswersTyped, MarksTyped, CountsTyped
  <2> QED BY <1>3, <2>2, <2>3 DEF PostsOnly
<1>6. CASE VerdictAnswered
  <2>1. UNCHANGED <<server, stream, active, invalidated, pending, timer, known, incidents>>
    BY <1>6 DEF VerdictAnswered
  <2>2. AnswersTyped'
    <3>1. CASE UNCHANGED <<fetching, answer>>
      BY <2>1, <3>1 DEF EventsInv, AnswersTyped, known
    <3>2. CASE /\ reading # None
               /\ fetching' = [fetching EXCEPT ![reading] = "asked"]
               /\ answer' = [answer EXCEPT ![reading] = 0]
      <4>1. reading \in Queries
        BY <3>2, ReaderAssumption DEF ReaderInv
      <4>2. 0 \in 0..server[reading]
        BY <4>1 DEF EventsInv, AnswersTyped
      <4> QED BY <2>1, <3>2, <4>1, <4>2, AnswerForm DEF known
    <3> QED BY <1>6, <3>1, <3>2 DEF VerdictAnswered
  <2>3. MarksTyped' /\ CountsTyped'
    BY <2>1 DEF EventsInv, MarksTyped, CountsTyped, stream, known
  <2> QED BY <1>3, <2>1, <2>2, <2>3 DEF EventsInv, PostsOnly
<1>7. CASE VerdictDone
  <2>1. UNCHANGED events
    BY <1>7 DEF VerdictDone
  <2>2. EventsInv' /\ server' = server
    BY <2>1
    DEF events, stream, round, held, known, EventsInv, AnswersTyped, MarksTyped, CountsTyped
  <2> QED BY <1>3, <2>2 DEF PostsOnly
<1> QED BY <1>4, <1>5, <1>6, <1>7

LEMMA ReaderKeeps ==
  ASSUME EventsInv, ReaderInv, ReaderNext
  PROVE  EventsInv' /\ ReaderInv' /\ PostsOnly
<1>1. ASSUME NEW post \in Posts, PostChanges(post)
      PROVE  EventsInv' /\ ReaderInv' /\ PostsOnly
  <2>1. post \in Queries /\ Publish(post) /\ UNCHANGED <<active, round, held>>
    BY <1>1, ReaderAssumption DEF PostChanges
  <2>2. incidents' \in 0..MaxIncidents
    BY <1>1 DEF PostChanges, EventsInv, CountsTyped
  <2>3. EventsInv' /\ PostsOnly
    BY <2>1, <2>2, PublishKeeps DEF PostsOnly
  <2>4. UNCHANGED <<reading, seen, switching, judging, entered, verdict>>
    BY <1>1 DEF PostChanges, reader
  <2> QED BY <2>3, <2>4 DEF ReaderInv, SentAsShown
<1> QED BY <1>1, TurningKeeps, RefreshedKeeps, JudgingKeeps, VerdictKeeps DEF ReaderNext

-----------------------------------------------------------------------------
(* The forms.                                                              *)

Refused == [stage |-> "refused"]
SavesSent ==
  [stage : {"sent"}, of : Contents, meant : SUBSET Sections, at : 0..typed,
   revision : 1..server[Form]]
SavesChecked ==
  [stage : {"checked"}, of : Contents, meant : SUBSET Sections, at : 0..typed,
   revision : 1..server[Form], read : 1..server[Form]]
SavesAccepted ==
  [stage : {"accepted"}, version : 1..server[Form], meant : SUBSET Sections, at : 0..typed,
   own : BOOLEAN]
RestoresSent == [stage : {"sent"}, at : 0..typed]
RestoresDone == [stage : {"done"}, version : 1..server[Form], at : 0..typed]
Saves0 == SavesSent \cup SavesChecked \cup SavesAccepted \cup {NoSave, Refused}
Restores0 == RestoresSent \cup RestoresDone \cup {NoRestore}

FormTyped ==
  /\ kind \in Kinds /\ typed \in 0..MaxEdits
  /\ versions \in Seq(Contents) /\ Len(versions) = server[Form]
  /\ revisions \in Seq(Nat) /\ Len(revisions) = server[Form]
  /\ draft \in Drafts /\ mine \in [Sections -> 0..typed] /\ basis \in Contents
  /\ touched \in BOOLEAN /\ misled \in BOOLEAN
  /\ dialog \in {"none", "conflict", "reload", "vehicle"}
  /\ save \in Saves0 /\ restore \in Restores0

\* The form shows what the user has typed there, neither saved nor given up.
Holds(s) == mine[s] # 0 /\ draft.of[s] = mine[s]

\* What was typed and is not saved is in no version of the server.
TypedOnce ==
  \A v \in DOMAIN versions : \A s \in Sections : mine[s] # 0 => versions[v][s] # mine[s]

\* A list's own mark stands while anything of the user's is in it.
MarkKept == \A s \in Sections : Marks /\ Holds(s) => touched

\* Windows and questions are those of some kinds of form.
DialogsByKind ==
  /\ dialog \in {"conflict", "reload"} \/ restore # NoRestore => kind = "plan"
  /\ dialog = "vehicle" => kind = "vehicle"
  /\ kind = "vehicle" /\ dialog # "vehicle" => \A s \in Sections : ~Holds(s)

\* A save takes along what the user had typed there when it was asked for, and
\* once it is accepted nothing of that is left.
SavesMine ==
  /\ save.stage \in {"sent", "checked"} =>
       \A s \in save.meant : Holds(s) /\ (Locked \/ mine[s] <= save.at) => mine[s] = save.of[s]
  /\ save.stage = "accepted" =>
       \A s \in save.meant : Holds(s) => ~Locked /\ mine[s] > save.at
  /\ save.stage \in {"sent", "checked", "accepted"} /\ kind # "plan" => save.meant = Sections

\* Nothing unsaved was in the form when a rule's restoration was asked for.
RestoresMine == restore # NoRestore => \A s \in Sections : Holds(s) => mine[s] > restore.at

AskedAfterwards == dialog = "conflict" => save = NoSave

ShownThere == page = "forms" => cache[Form] # 0

FormParts ==
  TypedOnce /\ MarkKept /\ DialogsByKind /\ SavesMine /\ RestoresMine /\ AskedAfterwards
FormInv == FormTyped /\ ShownThere /\ FormParts

LEMMA FormTypes == FormInv => FormTypeOK
<1> SUFFICES ASSUME FormInv PROVE FormTypeOK
  OBVIOUS
<1>1. FormTyped
  BY DEF FormInv
<1>2. save.stage \in {"none", "sent", "checked", "accepted", "refused"}
  BY <1>1 DEF FormTyped, Saves0, SavesSent, SavesChecked, SavesAccepted, NoSave, Refused
<1>3. restore.stage \in {"none", "sent", "done"}
  BY <1>1 DEF FormTyped, Restores0, RestoresSent, RestoresDone, NoRestore
<1>4. mine \in [Sections -> 0..MaxEdits] /\ DOMAIN basis = Sections
  BY <1>1, FormAssumption DEF FormTyped, Contents
<1>5. DOMAIN revisions = DOMAIN versions
  BY <1>1 DEF FormTyped
<1> QED BY <1>1, <1>2, <1>3, <1>4, <1>5 DEF FormTyped, FormTypeOK

\* What a step sees of the form, the cache and the server.
LEMMA FormFacts ==
  ASSUME EventsInv, FormInv, page = "forms"
  PROVE  /\ FormTyped /\ server[Form] \in Nat /\ cache[Form] \in 1..server[Form]
         /\ DOMAIN versions = 1..server[Form] /\ DOMAIN revisions = 1..server[Form]
         /\ \A v \in 1..server[Form] : versions[v] \in Contents /\ Taken(v) \in Drafts
         /\ Shown \in Contents /\ Newest \in Contents /\ draft.of \in Contents
         /\ draft.revision \in 1..server[Form]
         /\ \A s \in Sections : Holds(s) => Dirty(s)
<1>1. FormTyped /\ Form \in Queries
  BY FormAssumption DEF FormInv
<1>2. server[Form] \in Nat /\ server[Form] # 0 /\ cache[Form] \in 1..server[Form]
  BY <1>1 DEF EventsInv, AnswersTyped, FormInv, ShownThere
<1>3. /\ DOMAIN versions = 1..server[Form] /\ Len(versions) = server[Form]
      /\ DOMAIN revisions = 1..server[Form]
  BY <1>1 DEF FormTyped
<1>4. \A v \in 1..server[Form] : versions[v] \in Contents
  BY <1>1, <1>3 DEF FormTyped
<1>5. \A v \in 1..server[Form] : Taken(v) \in Drafts
  BY <1>4 DEF Taken, Drafts
<1>6. Shown \in Contents /\ Newest \in Contents
  BY <1>2, <1>3, <1>4 DEF Shown, Newest
<1>7. draft.of \in Contents /\ draft.revision \in 1..server[Form]
  BY <1>1 DEF FormTyped, Drafts
<1>8. \A s \in Sections : Holds(s) => Dirty(s)
  BY <1>2, <1>3 DEF FormInv, FormParts, TypedOnce, Holds, Dirty, Shown
<1> QED BY <1>1, <1>2, <1>3, <1>4, <1>5, <1>6, <1>7, <1>8

\* Types stay while the server and the counter do.
LEMMA TypesStay ==
  ASSUME server' = server, typed' = typed
  PROVE  /\ Contents' = Contents /\ Drafts' = Drafts
         /\ Saves0' = Saves0 /\ Restores0' = Restores0
BY DEF Contents, Drafts, Saves0, Restores0, SavesSent, SavesChecked, SavesAccepted,
       RestoresSent, RestoresDone

\* The events' part of a step that leaves it alone.
LEMMA EventsStay ==
  ASSUME EventsInv, UNCHANGED events
  PROVE  EventsInv' /\ server' = server /\ cache' = cache
BY DEF events, stream, round, held, known, EventsInv, AnswersTyped, MarksTyped, CountsTyped

\* The stages of a save and of a restoration.
LEMMA StageForms ==
  ASSUME FormTyped
  PROVE  /\ save.stage = "sent" => save \in SavesSent
         /\ save.stage = "checked" => save \in SavesChecked
         /\ save.stage = "accepted" => save \in SavesAccepted
         /\ save.stage \in {"sent", "checked", "accepted"} =>
              save.at \in 0..typed /\ save.meant \subseteq Sections
         /\ restore.stage = "sent" => restore \in RestoresSent
         /\ restore.stage = "done" => restore \in RestoresDone
         /\ restore # NoRestore => restore.at \in 0..typed
         /\ restore.stage \in {"sent", "done"} => restore # NoRestore
         /\ NoSave \in Saves0 /\ Refused \in Saves0 /\ NoRestore \in Restores0
         /\ NoSave.stage \notin {"sent", "checked", "accepted"}
         /\ Refused.stage \notin {"sent", "checked", "accepted"}
BY DEF FormTyped, Saves0, Restores0, SavesSent, SavesChecked, SavesAccepted, RestoresSent,
       RestoresDone, NoSave, Refused, NoRestore

-----------------------------------------------------------------------------
LEMMA EditKeeps ==
  ASSUME EventsInv, FormInv, page = "forms", page' = page, NEW s \in Sections, Edit(s)
  PROVE  EventsInv' /\ FormInv'
<1>1. /\ FormTyped /\ server[Form] \in Nat /\ cache[Form] \in 1..server[Form]
      /\ DOMAIN versions = 1..server[Form] /\ \A v \in 1..server[Form] : versions[v] \in Contents
      /\ Shown \in Contents /\ draft.of \in Contents /\ draft.revision \in 1..server[Form]
  BY FormFacts
<1>2. EventsInv' /\ server' = server /\ cache' = cache
  BY EventsStay DEF Edit
<1>3. /\ typed' = typed + 1 /\ typed < MaxEdits /\ draft' = [draft EXCEPT !.of[s] = typed']
      /\ touched' = Marks /\ mine' = [mine EXCEPT ![s] = typed']
      /\ UNCHANGED <<kind, versions, revisions, save, dialog, restore, misled>>
  BY DEF Edit, stored
<1>4. /\ typed \in Nat /\ typed' \in Nat /\ typed' \in 0..MaxEdits /\ MaxVersion[Form] \in Nat
      /\ 0..typed \subseteq 0..typed'
  BY <1>1, <1>3, QueriesType, FormAssumption DEF FormTyped
<1>5. Contents \subseteq Contents' /\ -MaxVersion[Form]..typed \subseteq -MaxVersion[Form]..typed'
      /\ typed' \in -MaxVersion[Form]..typed' /\ 0 \in -MaxVersion[Form]..typed'
  BY <1>3, <1>4 DEF Contents
<1>6. versions' \in Seq(Contents')
  BY <1>1, <1>3, <1>5 DEF FormTyped
<1>7. draft' \in Drafts'
  <2>1. /\ draft'.of = [draft.of EXCEPT ![s] = typed']
        /\ draft' = [revision |-> draft.revision, of |-> draft'.of]
    BY <1>1, <1>3 DEF FormTyped, Drafts
  <2>2. draft'.of \in Contents'
    BY <1>1, <1>5, <2>1 DEF Contents
  <2> QED BY <1>1, <1>2, <2>1, <2>2 DEF Drafts
<1>8. mine' \in [Sections -> 0..typed']
  BY <1>1, <1>3, <1>4 DEF FormTyped
<1>9. basis' \in Contents'
  <2>1. basis \in Contents' /\ Shown \in Contents'
    BY <1>1, <1>5 DEF FormTyped
  <2>2. basis' = basis \/ basis' = [basis EXCEPT ![s] = Shown[s]]
    BY DEF Edit
  <2> QED BY <2>1, <2>2 DEF Contents
<1>10. save' \in Saves0' /\ restore' \in Restores0'
  BY <1>1, <1>2, <1>3, <1>4, <1>5
  DEF FormTyped, Saves0, SavesSent, SavesChecked, SavesAccepted, Restores0, RestoresSent,
      RestoresDone
<1>11. FormTyped'
  BY <1>1, <1>2, <1>3, <1>4, <1>6, <1>7, <1>8, <1>9, <1>10 DEF FormTyped, Marks
<1>12. TypedOnce'
  <2>1. \A v \in 1..server[Form] : versions[v][s] # typed'
    BY <1>1, <1>3, <1>4 DEF Contents
  <2> QED BY <1>1, <1>3, <1>8, <2>1 DEF FormInv, FormParts, TypedOnce, FormTyped
<1>13. \A r \in Sections : r # s => mine'[r] = mine[r] /\ draft'.of[r] = draft.of[r]
  BY <1>1, <1>3 DEF FormTyped, Drafts, Contents
<1>14. mine'[s] = typed + 1
  BY <1>1, <1>3 DEF FormTyped, Drafts, Contents
<1>15. \A r \in Sections : Holds(r)' => mine'[r] = typed + 1 \/ (Holds(r) /\ mine'[r] = mine[r])
  BY <1>13, <1>14 DEF Holds
<1>16. MarkKept'
  BY <1>3 DEF MarkKept, Marks
<1>17. AskedAfterwards'
  BY <1>3 DEF FormInv, FormParts, AskedAfterwards
<1>18. DialogsByKind'
  BY <1>3 DEF FormInv, FormParts, DialogsByKind, Edit, Editable, VehicleOpen
<1>19. SavesMine'
  <2>1. CASE save = NoSave
    BY <1>1, <1>3, <2>1, StageForms DEF SavesMine
  <2>2. CASE save # NoSave
    <3>1. ~Locked /\ ~Locked'
      BY <1>3, <2>2 DEF Edit, Editable, PlanOpen, AccountOpen, Locked
    <3>2. /\ save.stage \in {"sent", "checked", "accepted"} =>
               save.at \in 0..typed /\ save.meant \subseteq Sections
      BY <1>1, StageForms
    <3>3. \A at \in 0..typed : typed + 1 > at /\ ~(typed + 1 <= at)
      BY <1>4
    <3>4. save' = save /\ kind' = kind
      BY <1>3
    <3>5. ASSUME save.stage \in {"sent", "checked"}, NEW r \in save.meant, Holds(r)',
                 mine'[r] <= save.at
          PROVE  mine'[r] = save.of[r]
      <4>1. Holds(r) /\ mine'[r] = mine[r]
        BY <1>15, <3>2, <3>3, <3>5
      <4> QED BY <3>5, <4>1 DEF FormInv, FormParts, SavesMine
    <3>6. ASSUME save.stage = "accepted", NEW r \in save.meant, Holds(r)'
          PROVE  mine'[r] > save.at
      <4>1. CASE mine'[r] = typed + 1
        BY <3>2, <3>3, <3>6, <4>1
      <4>2. CASE Holds(r) /\ mine'[r] = mine[r]
        BY <3>6, <4>2 DEF FormInv, FormParts, SavesMine
      <4> QED BY <1>15, <3>2, <3>6, <4>1, <4>2
    <3>7. save.stage \in {"sent", "checked", "accepted"} /\ kind # "plan"
            => save.meant = Sections
      BY DEF FormInv, FormParts, SavesMine
    <3> QED BY <3>1, <3>4, <3>5, <3>6, <3>7 DEF SavesMine
  <2> QED BY <2>1, <2>2
<1>20. RestoresMine'
  <2> SUFFICES ASSUME restore # NoRestore, NEW r \in Sections, Holds(r)'
               PROVE  mine'[r] > restore.at
    BY <1>3 DEF RestoresMine, NoRestore
  <2>1. restore.at \in 0..typed
    BY <1>1, StageForms
  <2>2. CASE mine'[r] = typed + 1
    BY <1>4, <2>1, <2>2
  <2>3. CASE Holds(r) /\ mine'[r] = mine[r]
    BY <2>3 DEF FormInv, FormParts, RestoresMine
  <2> QED BY <1>15, <2>2, <2>3
<1> QED BY <1>2, <1>11, <1>12, <1>16, <1>17, <1>18, <1>19, <1>20
        DEF FormInv, FormParts, ShownThere

\* What a form shows after a step it showed before, or it is a version's: then
\* nothing of the user's has come to it.
LEMMA FewerHeld ==
  ASSUME FormInv, \A s \in Sections : mine'[s] \in {0, mine[s]},
         \A s \in Sections : \/ draft'.of[s] = draft.of[s]
                             \/ \E v \in DOMAIN versions : draft'.of[s] = versions[v][s]
  PROVE  \A s \in Sections : Holds(s)' => Holds(s) /\ mine'[s] = mine[s]
BY DEF FormInv, FormParts, TypedOnce, Holds

\* What is under way has as much to do with what the form holds then.
LEMMA FewerAsked ==
  ASSUME FormInv, FormTyped, kind' = kind,
         \A s \in Sections : Holds(s)' => Holds(s) /\ mine'[s] = mine[s]
  PROVE  /\ touched' = touched => MarkKept'
         /\ dialog' = dialog /\ restore' = restore => DialogsByKind'
         /\ save' = save => SavesMine'
         /\ restore' = restore => RestoresMine'
         /\ save'.stage \notin {"sent", "checked", "accepted"} => SavesMine'
<1>1. touched' = touched => MarkKept'
  BY DEF FormInv, FormParts, MarkKept, Marks
<1>2. dialog' = dialog /\ restore' = restore => DialogsByKind'
  BY DEF FormInv, FormParts, DialogsByKind, NoRestore
<1>3. ASSUME save' = save PROVE SavesMine'
  <2>1. save.stage \in {"sent", "checked", "accepted"} => save.meant \subseteq Sections
    BY StageForms
  <2>2. Locked' <=> Locked
    BY DEF Locked
  <2> QED BY <1>3, <2>1, <2>2 DEF FormInv, FormParts, SavesMine
<1>4. restore' = restore => RestoresMine'
  BY DEF FormInv, FormParts, RestoresMine, NoRestore
<1>5. save'.stage \notin {"sent", "checked", "accepted"} => SavesMine'
  BY DEF SavesMine
<1> QED BY <1>1, <1>2, <1>3, <1>4, <1>5

\* A step that stores nothing at the server and types nothing.
LEMMA UnsavedForm ==
  ASSUME EventsInv, FormInv, server' = server, cache'[Form] \in 1..server[Form],
         UNCHANGED <<kind, stored, typed>>, draft' \in Drafts, basis' \in Contents,
         mine' \in [Sections -> 0..typed], \A s \in Sections : mine'[s] \in {0, mine[s]},
         touched' \in BOOLEAN, misled' \in BOOLEAN,
         dialog' \in {"none", "conflict", "reload", "vehicle"},
         save' \in Saves0, restore' \in Restores0,
         MarkKept', DialogsByKind', SavesMine', RestoresMine', AskedAfterwards'
  PROVE  FormInv'
<1>1. FormTyped'
  BY TypesStay DEF FormInv, FormTyped, stored
<1>2. TypedOnce'
  BY DEF FormInv, FormParts, TypedOnce, stored
<1>3. ShownThere'
  BY DEF EventsInv, AnswersTyped, ShownThere
<1> QED BY <1>1, <1>2, <1>3 DEF FormInv, FormParts

\* What is typed stays typed by no more.
LEMMA MineStays ==
  ASSUME FormTyped, UNCHANGED typed, mine' = mine \/ mine' = Nothing
         \/ \E s \in Sections : mine' = [mine EXCEPT ![s] = 0]
  PROVE  mine' \in [Sections -> 0..typed] /\ \A s \in Sections : mine'[s] \in {0, mine[s]}
<1>1. mine \in [Sections -> 0..typed] /\ typed \in Nat /\ 0 \in 0..typed
  BY FormAssumption DEF FormTyped
<1>2. CASE mine' = mine
  BY <1>1, <1>2
<1>3. CASE mine' = Nothing
  BY <1>1, <1>3 DEF Nothing
<1>4. ASSUME NEW s \in Sections, mine' = [mine EXCEPT ![s] = 0]
      PROVE  mine' \in [Sections -> 0..typed] /\ \A r \in Sections : mine'[r] \in {0, mine[r]}
  BY <1>1, <1>4
<1> QED BY <1>2, <1>3, <1>4

LEMMA DiscardSectionKeeps ==
  ASSUME EventsInv, FormInv, page = "forms", NEW s \in Sections, DiscardSection(s),
         UNCHANGED <<kind, stored, save, dialog, restore, typed, misled, events>>
  PROVE  EventsInv' /\ FormInv'
<1>1. /\ FormTyped /\ cache[Form] \in 1..server[Form] /\ Shown \in Contents
      /\ draft.of \in Contents /\ draft.revision \in 1..server[Form]
      /\ DOMAIN versions = 1..server[Form]
  BY FormFacts
<1>2. EventsInv' /\ server' = server /\ cache' = cache
  BY EventsStay
<1>3. /\ touched' = touched
      /\ draft'.of = [draft.of EXCEPT ![s] = Shown[s]]
      /\ draft' = [revision |-> draft'.revision, of |-> draft'.of]
      /\ draft'.revision \in {draft.revision, cache[Form]}
      /\ mine' = [mine EXCEPT ![s] = 0] /\ basis' = [basis EXCEPT ![s] = 0]
  BY DEF DiscardSection
<1>4. draft' \in Drafts
  BY <1>1, <1>3 DEF Drafts, Contents
<1>5. 0 \in -MaxVersion[Form]..typed
  BY <1>1, QueriesType, FormAssumption DEF FormTyped
<1>6. basis' \in Contents
  BY <1>1, <1>3, <1>5 DEF FormTyped, Contents
<1>7. mine' \in [Sections -> 0..typed] /\ \A r \in Sections : mine'[r] \in {0, mine[r]}
  BY <1>1, <1>3, MineStays
<1>8. \A r \in Sections : draft'.of[r] = draft.of[r] \/ draft'.of[r] = versions[cache[Form]][r]
  BY <1>1, <1>3 DEF Contents, Shown
<1>9. \A r \in Sections : Holds(r)' => Holds(r) /\ mine'[r] = mine[r]
  BY <1>1, <1>7, <1>8, FewerHeld
<1>10. MarkKept' /\ DialogsByKind' /\ SavesMine' /\ RestoresMine'
  BY <1>1, <1>3, <1>9, FewerAsked
<1>11. AskedAfterwards'
  BY DEF FormInv, FormParts, AskedAfterwards, NoSave
<1> QED BY <1>1, <1>2, <1>3, <1>4, <1>6, <1>7, <1>10, <1>11, UnsavedForm DEF FormTyped

LEMMA DiscardAllKeeps ==
  ASSUME EventsInv, FormInv, page = "forms", DiscardAll,
         UNCHANGED <<kind, stored, save, dialog, restore, typed, misled, events>>
  PROVE  EventsInv' /\ FormInv'
<1>1. /\ FormTyped /\ cache[Form] \in 1..server[Form] /\ Taken(cache[Form]) \in Drafts
  BY FormFacts
<1>2. EventsInv' /\ server' = server /\ cache' = cache
  BY EventsStay
<1>3. draft' \in Drafts /\ touched' = FALSE /\ mine' = Nothing /\ basis' = Nothing
  BY <1>1 DEF DiscardAll
<1>4. 0 \in -MaxVersion[Form]..typed
  BY <1>1, QueriesType, FormAssumption DEF FormTyped
<1>5. basis' \in Contents
  BY <1>3, <1>4 DEF Contents, Nothing
<1>6. mine' \in [Sections -> 0..typed] /\ \A r \in Sections : mine'[r] \in {0, mine[r]}
  BY <1>1, <1>3, MineStays
<1>7. \A r \in Sections : ~Holds(r)'
  BY <1>3 DEF Holds, Nothing
<1>8. DialogsByKind' /\ SavesMine' /\ RestoresMine'
  BY <1>1, <1>7, FewerAsked
<1>9. MarkKept' /\ AskedAfterwards'
  BY <1>7 DEF FormInv, FormParts, AskedAfterwards, MarkKept, NoSave
<1> QED BY <1>1, <1>2, <1>3, <1>5, <1>6, <1>8, <1>9, UnsavedForm DEF FormTyped

LEMMA VehicleKeeps ==
  ASSUME EventsInv, FormInv, page = "forms", OpenVehicle \/ CloseVehicle
  PROVE  EventsInv' /\ FormInv'
<1>1. /\ FormTyped /\ cache[Form] \in 1..server[Form] /\ Taken(cache[Form]) \in Drafts
      /\ Shown \in Contents /\ DOMAIN versions = 1..server[Form]
  BY FormFacts
<1>2. UNCHANGED events
  BY DEF OpenVehicle, CloseVehicle
<1>3. EventsInv' /\ server' = server /\ cache' = cache
  BY <1>2, EventsStay
<1>4. /\ UNCHANGED <<kind, stored, touched, save, restore, typed, misled>>
      /\ dialog' \in {"none", "vehicle"} /\ (mine' = mine \/ mine' = Nothing)
      /\ dialog' = "vehicle" => kind = "vehicle"
      /\ dialog' = "none" => mine' = Nothing
  BY DEF OpenVehicle, CloseVehicle
<1>5. /\ draft' \in Drafts /\ basis' \in Contents
      /\ draft' = draft \/ draft' = Taken(cache[Form])
  BY <1>1 DEF OpenVehicle, CloseVehicle, FormTyped
<1>6. mine' \in [Sections -> 0..typed] /\ \A r \in Sections : mine'[r] \in {0, mine[r]}
  BY <1>1, <1>4, MineStays
<1>7. \A r \in Sections : draft'.of[r] = draft.of[r] \/ draft'.of[r] = versions[cache[Form]][r]
  BY <1>5 DEF Taken
<1>8. \A r \in Sections : Holds(r)' => Holds(r) /\ mine'[r] = mine[r]
  BY <1>1, <1>6, <1>7, FewerHeld
<1>9. MarkKept' /\ SavesMine' /\ RestoresMine'
  BY <1>1, <1>4, <1>8, FewerAsked
<1>10. DialogsByKind' /\ AskedAfterwards'
  <2>1. dialog' = "none" => \A r \in Sections : ~Holds(r)'
    BY <1>4 DEF Holds, Nothing
  <2> QED BY <1>4, <2>1 DEF FormInv, FormParts, DialogsByKind, AskedAfterwards, NoRestore
<1> QED BY <1>1, <1>3, <1>4, <1>5, <1>6, <1>9, <1>10, UnsavedForm DEF FormTyped

LEMMA SaveKeeps ==
  ASSUME EventsInv, FormInv, page = "forms", Save
  PROVE  EventsInv' /\ FormInv'
<1>1. /\ FormTyped /\ cache[Form] \in 1..server[Form] /\ Shown \in Contents
      /\ draft.of \in Contents /\ draft.revision \in 1..server[Form]
  BY FormFacts
<1>2. EventsInv' /\ server' = server /\ cache' = cache
  BY EventsStay DEF Save
<1>3. /\ UNCHANGED <<kind, stored, draft, touched, dialog, restore, typed, mine, basis, misled>>
      /\ dialog # "conflict"
  BY DEF Save, notes
<1>4. \A s \in Sections : Holds(s)' => Holds(s) /\ mine'[s] = mine[s]
  BY <1>3 DEF Holds
<1>5. typed \in 0..typed /\ (kind = "vehicle" => cache[Form] \in 1..server[Form])
  BY <1>1, FormAssumption DEF FormTyped
<1>6. /\ save' \in SavesSent /\ save'.stage = "sent"
      /\ \A s \in save'.meant : save'.of[s] = draft.of[s]
      /\ kind # "plan" => save'.meant = Sections
  <2>1. CASE kind = "plan"
    <3>1. PICK s \in Sections : Sent([Shown EXCEPT ![s] = draft.of[s]], {s})
      BY <2>1 DEF Save, SavePlan
    <3>2. /\ [Shown EXCEPT ![s] = draft.of[s]] \in Contents
          /\ [Shown EXCEPT ![s] = draft.of[s]][s] = draft.of[s]
      BY <1>1 DEF Contents
    <3> QED BY <1>1, <1>5, <2>1, <3>1, <3>2 DEF Sent, SavesSent
  <2>2. CASE kind # "plan"
    <3>1. Sent(draft.of, Sections)
      BY <1>1, <2>2 DEF Save, SaveAccount, SaveVehicle, SaveList, FormTyped, Kinds
    <3> QED BY <1>1, <1>5, <2>2, <3>1 DEF Sent, SavesSent
  <2> QED BY <2>1, <2>2
<1>7. SavesMine'
  BY <1>3, <1>6 DEF SavesMine, Holds
<1>8. MarkKept' /\ DialogsByKind' /\ RestoresMine' /\ AskedAfterwards'
  BY <1>1, <1>3, <1>4, FewerAsked DEF AskedAfterwards
<1>9. save' \in Saves0 /\ \A s \in Sections : mine'[s] \in {0, mine[s]}
  BY <1>3, <1>6 DEF Saves0
<1> QED BY <1>1, <1>2, <1>3, <1>7, <1>8, <1>9, UnsavedForm DEF FormTyped

\* The answer of a save.
LEMMA SaveAnsweredKeeps ==
  ASSUME EventsInv, FormInv, page = "forms", SaveAnswered
  PROVE  EventsInv' /\ FormInv'
<1>1. /\ FormTyped /\ cache[Form] \in 1..server[Form] /\ Form \in Queries
      /\ draft.of \in Contents /\ server[Form] \in Nat /\ DOMAIN versions = 1..server[Form]
      /\ \A v \in 1..server[Form] : versions[v] \in Contents
  BY FormFacts, FormAssumption
<1>2. save.stage = "accepted" /\ save \in SavesAccepted
  BY <1>1, StageForms DEF SaveAnswered
<1>3. save.version \in 1..server[Form] /\ save.own \in BOOLEAN
  BY <1>2 DEF SavesAccepted
<1>4. /\ draft' = Answered(save.version) /\ touched' = FALSE /\ save' = NoSave
      /\ SetData(Form, save.version, kind = "circles")
      /\ dialog' = IF dialog = "vehicle" THEN "none" ELSE dialog
      /\ basis' = [s \in Sections |-> IF s \in save.meant THEN 0 ELSE basis[s]]
      /\ UNCHANGED <<kind, stored, restore, typed, mine, server, stream, incidents>>
  BY DEF SaveAnswered
<1>5. EventsInv' /\ cache'[Form] = save.version
  <2>1. (kind = "circles") \in BOOLEAN
    OBVIOUS
  <2>2. UNCHANGED <<server, stream, incidents>>
    BY <1>4
  <2> QED BY <1>1, <1>3, <1>4, <2>1, <2>2, SetDataKeeps
<1>6. draft' \in Drafts
  <2>1. versions[save.version] \in Contents
    BY <1>1, <1>3
  <2>2. /\ draft'.of \in Contents /\ draft'.revision = save.version
        /\ draft' = [revision |-> draft'.revision, of |-> draft'.of]
    BY <1>1, <1>4, <2>1 DEF Answered, Contents
  <2> QED BY <1>3, <2>2 DEF Drafts
<1>7. basis' \in Contents
  <2>1. 0 \in -MaxVersion[Form]..typed
    BY <1>1, QueriesType, FormAssumption DEF FormTyped
  <2> QED BY <1>1, <1>4, <2>1 DEF FormTyped, Contents
<1>8. \A s \in Sections : \/ kind = "plan" /\ draft'.of[s] = draft.of[s]
                          \/ draft'.of[s] = versions[save.version][s]
  BY <1>4 DEF Answered
<1>9. \A s \in Sections : Holds(s)' => Holds(s) /\ mine'[s] = mine[s]
  BY <1>1, <1>3, <1>4, <1>8, FewerHeld
<1>10. kind # "plan" => \A s \in Sections : ~Holds(s)'
  <2> SUFFICES ASSUME kind # "plan", NEW s \in Sections, Holds(s)' PROVE FALSE
    OBVIOUS
  <2>1. mine[s] # 0 /\ versions[save.version][s] = mine[s]
    BY <1>4, <1>8 DEF Holds
  <2> QED BY <1>1, <1>3, <2>1 DEF FormInv, FormParts, TypedOnce
<1>11. MarkKept' /\ DialogsByKind' /\ AskedAfterwards'
  <2>1. MarkKept'
    BY <1>4, <1>10 DEF MarkKept, Marks
  <2>2. DialogsByKind'
    BY <1>4, <1>10 DEF FormInv, FormParts, DialogsByKind, NoRestore
  <2> QED BY <1>4, <2>1, <2>2 DEF AskedAfterwards, NoSave
<1>12. SavesMine' /\ RestoresMine' /\ save' \in Saves0
  BY <1>1, <1>4, <1>9, StageForms, FewerAsked
<1>13. dialog' \in {"none", "conflict", "reload", "vehicle"} /\ misled' \in BOOLEAN
  BY <1>1, <1>3, <1>4 DEF FormTyped, SaveAnswered
<1>14. \A s \in Sections : mine'[s] \in {0, mine[s]}
  BY <1>4
<1> QED BY <1>1, <1>3, <1>4, <1>5, <1>6, <1>7, <1>11, <1>12, <1>13, <1>14,
           UnsavedForm DEF FormTyped

LEMMA SaveEndsKeeps ==
  ASSUME EventsInv, FormInv, page = "forms", SaveRefused \/ SaveLost
  PROVE  EventsInv' /\ FormInv'
<1>1. FormTyped /\ cache[Form] \in 1..server[Form]
  BY FormFacts
<1>2. EventsInv' /\ server' = server /\ cache' = cache
  <2>1. CASE SaveRefused
    BY <2>1, EventsStay DEF SaveRefused
  <2>2. CASE SaveLost
    <3>1. incidents' \in 0..MaxIncidents
      BY <2>2, QueriesType DEF SaveLost, EventsInv, CountsTyped
    <3> QED BY <2>2, <3>1 DEF SaveLost, EventsInv, AnswersTyped, MarksTyped, CountsTyped,
               stream, round, held, known
  <2> QED BY <2>1, <2>2
<1>3. /\ save' = NoSave
      /\ UNCHANGED <<kind, stored, draft, touched, restore, typed, mine, basis, misled>>
      /\ dialog' = dialog \/ (kind = "plan" /\ dialog' = "conflict")
  BY DEF SaveRefused, SaveLost, notes
<1>4. \A s \in Sections : Holds(s)' => Holds(s) /\ mine'[s] = mine[s]
  BY <1>3 DEF Holds
<1>5. MarkKept' /\ RestoresMine' /\ SavesMine' /\ save' \in Saves0
  BY <1>1, <1>3, <1>4, StageForms, FewerAsked
<1>6. DialogsByKind' /\ AskedAfterwards'
  BY <1>3, <1>4 DEF FormInv, FormParts, DialogsByKind, AskedAfterwards, NoRestore, NoSave
<1>7. /\ \A s \in Sections : mine'[s] \in {0, mine[s]}
      /\ dialog' \in {"none", "conflict", "reload", "vehicle"}
  BY <1>1, <1>3 DEF FormTyped
<1> QED BY <1>1, <1>2, <1>3, <1>5, <1>6, <1>7, UnsavedForm DEF FormTyped

LEMMA ConflictKeeps ==
  ASSUME EventsInv, FormInv, page = "forms", KeepDraft \/ Reload
  PROVE  EventsInv' /\ FormInv'
<1>1. FormTyped /\ cache[Form] \in 1..server[Form] /\ server[Form] \in Nat
  BY FormFacts
<1>2. EventsInv' /\ server' = server /\ cache' = cache
  <2>1. CASE KeepDraft
    BY <2>1, EventsStay DEF KeepDraft
  <2>2. CASE Reload
    <3>1. /\ fetching' = [fetching EXCEPT ![Form] = "asked"]
          /\ answer' = [answer EXCEPT ![Form] = 0]
          /\ UNCHANGED <<server, stream, active, invalidated, pending, timer, known, incidents>>
      BY <2>2 DEF Reload
    <3>2. 0 \in 0..server[Form]
      BY <1>1
    <3>3. cache' = cache /\ server' = server
      BY <3>1 DEF known
    <3>4. AnswersTyped'
      BY <3>1, <3>2, <3>3, AnswerForm, FormAssumption
    <3> QED BY <3>1, <3>4 DEF EventsInv, MarksTyped, CountsTyped, stream, known
  <2> QED BY <2>1, <2>2
<1>3. /\ UNCHANGED <<kind, stored, draft, touched, save, restore, typed, basis, misled>>
      /\ dialog = "conflict" /\ dialog' \in {"none", "reload"}
      /\ mine' = mine \/ mine' = Nothing
  BY DEF KeepDraft, Reload, notes
<1>4. mine' \in [Sections -> 0..typed] /\ \A r \in Sections : mine'[r] \in {0, mine[r]}
  BY <1>1, <1>3, MineStays
<1>5. kind = "plan"
  BY <1>3 DEF FormInv, FormParts, DialogsByKind
<1>6. \A s \in Sections : Holds(s)' => Holds(s) /\ mine'[s] = mine[s]
  BY <1>3, <1>4 DEF Holds
<1>7. MarkKept' /\ SavesMine' /\ RestoresMine'
  BY <1>1, <1>3, <1>6, FewerAsked
<1>8. DialogsByKind' /\ AskedAfterwards'
  BY <1>3, <1>5 DEF DialogsByKind, AskedAfterwards
<1> QED BY <1>1, <1>2, <1>3, <1>4, <1>7, <1>8, UnsavedForm DEF FormTyped

\* An answer has come, and fills the form or replaces it.
LEMMA ReloadedKeeps ==
  ASSUME EventsInv, FormInv, page = "forms", NEW version \in 1..server[Form], Reloaded(version),
         server' = server, cache'[Form] \in 1..server[Form], misled' \in BOOLEAN
  PROVE  FormInv'
<1>1. /\ FormTyped /\ versions[version] \in Contents /\ Taken(version) \in Drafts
      /\ Shown \in Contents /\ draft.of \in Contents /\ draft.revision \in 1..server[Form]
      /\ DOMAIN versions = 1..server[Form]
  BY FormFacts
<1>2. /\ dialog' = IF dialog = "reload" THEN "none" ELSE dialog
      /\ draft' = IF dialog = "reload" THEN Taken(version) ELSE Filled(version)
      /\ UNCHANGED <<kind, stored, touched, save, restore, typed, mine, basis>>
  BY DEF Reloaded
<1>3. PlanFilled(version) \in Drafts
  <2>1. PlanFilled(version).of \in Contents
    BY <1>1 DEF PlanFilled, Contents
  <2>2. PlanFilled(version).revision \in 1..server[Form]
    BY <1>1 DEF PlanFilled
  <2>3. PlanFilled(version)
          = [revision |-> PlanFilled(version).revision, of |-> PlanFilled(version).of]
    BY DEF PlanFilled
  <2> QED BY <2>1, <2>2, <2>3 DEF Drafts
<1>4. draft' \in {draft, Taken(version), PlanFilled(version)}
  BY <1>2 DEF Filled, AccountFilled, ListFilled
<1>5. draft' \in Drafts
  BY <1>1, <1>3, <1>4 DEF FormTyped
<1>6. \A s \in Sections : draft'.of[s] = draft.of[s] \/ draft'.of[s] = versions[version][s]
  BY <1>4 DEF PlanFilled, Taken
<1>7. \A s \in Sections : Holds(s)' => Holds(s) /\ mine'[s] = mine[s]
  BY <1>1, <1>2, <1>6, FewerHeld
<1>8. MarkKept' /\ SavesMine' /\ RestoresMine'
  BY <1>1, <1>2, <1>7, FewerAsked
<1>9. DialogsByKind' /\ AskedAfterwards'
  BY <1>2, <1>7 DEF FormInv, FormParts, DialogsByKind, AskedAfterwards, NoRestore, NoSave
<1>10. \A s \in Sections : mine'[s] \in {0, mine[s]}
  BY <1>2
<1>11. dialog' \in {"none", "conflict", "reload", "vehicle"}
  BY <1>1, <1>2 DEF FormTyped
<1> QED BY <1>1, <1>2, <1>5, <1>8, <1>9, <1>10, <1>11, UnsavedForm DEF FormTyped

LEMMA FilledKeeps ==
  ASSUME EventsInv, FormInv, page = "forms", FormSettles \/ FormFails
  PROVE  EventsInv' /\ FormInv'
<1>1. FormTyped /\ cache[Form] \in 1..server[Form] /\ Form \in Queries
  BY FormFacts, FormAssumption
<1>2. CASE FormSettles
  <2>1. EventsInv' /\ cache'[Form] \in 1..server[Form] /\ server' = server
    BY <1>1, <1>2, SettleKeeps DEF FormSettles
  <2>2. answer[Form] \in 1..server[Form]
    BY <1>1, <1>2 DEF FormSettles, Settle, EventsInv, AnswersTyped
  <2>3. misled' \in BOOLEAN
    BY <1>1, <1>2 DEF FormSettles, FormTyped
  <2> QED BY <1>2, <2>1, <2>2, <2>3, ReloadedKeeps DEF FormSettles
<1>3. CASE FormFails
  <2>1. EventsInv' /\ cache' = cache /\ server' = server
    BY <1>1, <1>3, FailKeeps DEF FormFails
  <2> QED BY <1>1, <1>3, <2>1, ReloadedKeeps DEF FormFails, FormTyped
<1> QED BY <1>2, <1>3

LEMMA RestoreKeeps ==
  ASSUME EventsInv, FormInv, page = "forms", Restore
  PROVE  EventsInv' /\ FormInv'
<1>1. /\ FormTyped /\ cache[Form] \in 1..server[Form]
      /\ \A s \in Sections : Holds(s) => Dirty(s)
  BY FormFacts
<1>2. /\ kind = "plan" /\ ~Edited /\ restore' = [stage |-> "sent", at |-> typed]
      /\ UNCHANGED <<kind, stored, draft, touched, save, dialog, typed, mine, basis, misled>>
  BY DEF Restore, notes
<1>3. EventsInv' /\ server' = server /\ cache' = cache
  <2>1. incidents' \in 0..MaxIncidents
    BY QueriesType DEF Restore, EventsInv, CountsTyped
  <2> QED BY <2>1 DEF Restore, EventsInv, AnswersTyped, MarksTyped, CountsTyped,
             stream, round, held, known
<1>4. \A s \in Sections : ~Holds(s)'
  BY <1>1, <1>2 DEF Edited, Locked, Holds
<1>5. MarkKept' /\ DialogsByKind' /\ RestoresMine' /\ AskedAfterwards'
  BY <1>2, <1>4 DEF FormInv, FormParts, MarkKept, DialogsByKind, RestoresMine, AskedAfterwards,
     NoSave
<1>6. SavesMine'
  BY <1>1, <1>2, <1>4, FewerAsked
<1>7. restore' \in Restores0
  BY <1>1, <1>2, FormAssumption DEF FormTyped, Restores0, RestoresSent
<1>8. \A s \in Sections : mine'[s] \in {0, mine[s]}
  BY <1>2
<1> QED BY <1>1, <1>2, <1>3, <1>5, <1>6, <1>7, <1>8, UnsavedForm DEF FormTyped

LEMMA RestoredKeeps ==
  ASSUME EventsInv, FormInv, page = "forms", Restored
  PROVE  EventsInv' /\ FormInv'
<1>1. /\ FormTyped /\ Form \in Queries /\ \A v \in 1..server[Form] : Taken(v) \in Drafts
      /\ DOMAIN versions = 1..server[Form]
  BY FormFacts, FormAssumption
<1>2. restore.version \in 1..server[Form]
  BY <1>1, StageForms DEF Restored, RestoresDone
<1>3. /\ draft' = Taken(restore.version) /\ restore' = NoRestore
      /\ SetData(Form, restore.version, FALSE)
      /\ UNCHANGED <<kind, stored, touched, save, dialog, typed, mine, basis, misled>>
      /\ UNCHANGED <<server, stream, incidents>>
  BY DEF Restored, notes
<1>4. EventsInv' /\ cache'[Form] = restore.version
  BY <1>1, <1>2, <1>3, SetDataKeeps
<1>5. \A s \in Sections : draft'.of[s] = versions[restore.version][s]
  BY <1>3 DEF Taken
<1>6. \A s \in Sections : Holds(s)' => Holds(s) /\ mine'[s] = mine[s]
  BY <1>1, <1>2, <1>3, <1>5, FewerHeld
<1>7. MarkKept' /\ SavesMine'
  BY <1>1, <1>3, <1>6, FewerAsked
<1>8. DialogsByKind' /\ RestoresMine' /\ AskedAfterwards'
  BY <1>3, <1>6 DEF FormInv, FormParts, DialogsByKind, RestoresMine, AskedAfterwards, NoRestore,
     NoSave
<1>9. restore' \in Restores0 /\ \A s \in Sections : mine'[s] \in {0, mine[s]}
  BY <1>1, <1>3, StageForms
<1> QED BY <1>1, <1>2, <1>3, <1>4, <1>7, <1>8, <1>9, UnsavedForm DEF FormTyped

-----------------------------------------------------------------------------
\* What a transaction writes is the newest there is, or its own.
LEMMA WrittenForm ==
  ASSUME EventsInv, FormInv, page = "forms", NEW of \in Contents, NEW loaded
  PROVE  /\ Written(of, loaded) \in Contents
         /\ \A s \in Sections : Written(of, loaded)[s] \in {of[s], Newest[s]}
<1>1. Newest \in Contents
  BY FormFacts
<1> QED BY <1>1 DEF Written, Contents

\* The server comes to have one more version.
LEMMA StoreForm ==
  ASSUME EventsInv, FormInv, page = "forms", NEW of \in Contents, NEW read \in 1..server[Form],
         Stores(of, read),
         UNCHANGED <<kind, draft, touched, dialog, typed, basis, misled, active, round, held,
                     incidents>>,
         mine' \in [Sections -> 0..typed],
         \A s \in Sections : mine'[s] \in {0, mine[s]} /\ (mine'[s] # 0 => of[s] # mine'[s]),
         save' \in Saves0', restore' \in Restores0',
         SavesMine', AskedAfterwards', RestoresMine', restore' # NoRestore => kind = "plan"
  PROVE  EventsInv' /\ FormInv'
<1>1. FormTyped /\ server[Form] \in Nat /\ cache[Form] \in 1..server[Form]
  BY FormFacts
<1>2. EventsInv' /\ server'[Form] = server[Form] + 1
  BY FormAssumption, PublishKeeps DEF Stores, EventsInv, CountsTyped
<1>3. cache' = cache
  BY DEF held, known
<1>4. /\ versions' \in Seq(Contents) /\ Len(versions') = server'[Form]
      /\ versions'[server'[Form]] = of
      /\ \A v \in 1..server[Form] : versions'[v] = versions[v]
  BY <1>1, <1>2, AppendProperties DEF FormTyped, Stores
<1>5. revisions' \in Seq(Nat) /\ Len(revisions') = server'[Form]
  <2>1. revisions \in Seq(Nat) /\ Len(revisions) = server[Form] /\ revisions[read] \in Nat
    BY <1>1 DEF FormTyped
  <2>2. revisions' = Append(revisions, revisions[read] + 1) /\ revisions[read] + 1 \in Nat
    BY <2>1 DEF Stores
  <2> QED BY <1>1, <1>2, <2>1, <2>2, AppendProperties
<1>6. Contents' = Contents /\ Drafts \subseteq Drafts'
  BY <1>1, <1>2 DEF Contents, Drafts
<1>7. FormTyped'
  BY <1>1, <1>4, <1>5, <1>6 DEF FormTyped
<1>8. TypedOnce'
  <2> SUFFICES ASSUME NEW v \in DOMAIN versions', NEW s \in Sections, mine'[s] # 0
               PROVE  versions'[v][s] # mine'[s]
    BY DEF TypedOnce
  <2>1. v \in 1..server[Form] \/ v = server'[Form]
    BY <1>1, <1>2, <1>4
  <2>2. CASE v \in 1..server[Form]
    <3>1. versions'[v] = versions[v] /\ v \in DOMAIN versions /\ mine'[s] = mine[s]
      BY <1>1, <1>4, <2>2 DEF FormTyped
    <3> QED BY <3>1 DEF FormInv, FormParts, TypedOnce
  <2>3. CASE v = server'[Form]
    BY <1>4, <2>3
  <2> QED BY <2>1, <2>2, <2>3
<1>9. ShownThere'
  BY <1>1, <1>3 DEF ShownThere
<1>10. MarkKept' /\ DialogsByKind'
  BY DEF FormInv, FormParts, MarkKept, Marks, DialogsByKind, Holds, NoRestore
<1> QED BY <1>2, <1>7, <1>8, <1>9, <1>10 DEF FormInv, FormParts

\* A change by others is none of the user's.
LEMMA TheirsForm ==
  ASSUME EventsInv, FormInv, page = "forms", NEW s \in Contested, NEW read \in 1..server[Form]
  PROVE  /\ [versions[read] EXCEPT ![s] = Theirs] \in Contents
         /\ \A r \in Sections : mine[r] # 0 =>
              [versions[read] EXCEPT ![s] = Theirs][r] # mine[r] /\ Newest[r] # mine[r]
<1>1. /\ FormTyped /\ server[Form] \in Nat /\ versions[read] \in Contents
      /\ DOMAIN versions = 1..server[Form]
      /\ cache[Form] \in 1..server[Form] /\ s \in Sections
  BY FormFacts, FormAssumption
<1>2. /\ server[Form] \in 1..MaxVersion[Form] /\ MaxVersion[Form] \in Nat /\ typed \in Nat
      /\ Theirs = -server[Form]
  BY <1>1, QueriesType, FormAssumption DEF EventsInv, AnswersTyped, Theirs, FormTyped
<1>3. Theirs \in -MaxVersion[Form]..typed /\ Theirs < 0
  BY <1>2
<1>4. \A r \in Sections :
        mine[r] # 0 => versions[read][r] # mine[r] /\ Newest[r] # mine[r] /\ mine[r] > 0
  <2>1. Len(versions) \in DOMAIN versions /\ read \in DOMAIN versions
    BY <1>1, <1>2 DEF FormTyped
  <2>2. \A v \in DOMAIN versions : \A r \in Sections : mine[r] # 0 => versions[v][r] # mine[r]
    BY DEF FormInv, FormParts, TypedOnce
  <2>3. \A r \in Sections : mine[r] \in 0..typed
    BY <1>1 DEF FormTyped
  <2>4. \A r \in Sections : mine[r] # 0 => mine[r] > 0
    BY <1>2, <2>3
  <2> QED BY <2>1, <2>2, <2>4 DEF Newest
<1>5. \A r \in Sections : [versions[read] EXCEPT ![s] = Theirs][r] \in {versions[read][r], Theirs}
  BY <1>1 DEF Contents
<1>6. [versions[read] EXCEPT ![s] = Theirs] \in Contents
  BY <1>1, <1>3 DEF Contents
<1>7. \A r \in Sections : mine[r] # 0 => Theirs # mine[r]
  BY <1>2, <1>3, <1>4
<1> QED BY <1>4, <1>5, <1>6, <1>7

\* What was sent or restored before stays what it was.
LEMMA StagesStay ==
  ASSUME server[Form] \in Nat, server'[Form] = server[Form] + 1, typed' = typed
  PROVE  Saves0 \subseteq Saves0' /\ Restores0 \subseteq Restores0'
<1>1. 1..server[Form] \subseteq 1..server'[Form] /\ Contents' = Contents
  BY DEF Contents
<1> QED BY <1>1 DEF Saves0, Restores0, SavesSent, SavesChecked, SavesAccepted, RestoresSent,
           RestoresDone

LEMMA OthersSaveKeeps ==
  ASSUME EventsInv, FormInv, page = "forms", OthersSave
  PROVE  EventsInv' /\ FormInv'
<1>1. FormTyped /\ server[Form] \in Nat /\ DOMAIN versions = 1..server[Form]
  BY FormFacts
<1>2. PICK s \in Contested, read \in Reads : \E loaded \in RowsRead(read) :
        Stores(Written([versions[read] EXCEPT ![s] = Theirs], loaded), read)
  BY DEF OthersSave
<1>3. PICK loaded \in RowsRead(read) :
        Stores(Written([versions[read] EXCEPT ![s] = Theirs], loaded), read)
  BY <1>2
<1>4. read \in 1..server[Form]
  BY <1>1 DEF Reads
<1> DEFINE theirs == [versions[read] EXCEPT ![s] = Theirs]
           of == Written(theirs, loaded)
<1>5. /\ theirs \in Contents
      /\ \A r \in Sections : mine[r] # 0 => theirs[r] # mine[r] /\ Newest[r] # mine[r]
  BY <1>4, TheirsForm
<1> HIDE DEF theirs
<1>6. of \in Contents /\ \A r \in Sections : of[r] \in {theirs[r], Newest[r]}
  BY <1>5, WrittenForm
<1>7. Stores(of, read)
  BY <1>3 DEF theirs
<1> HIDE DEF of
<1>8. UNCHANGED <<kind, draft, touched, save, dialog, restore, typed, mine, basis, misled,
                  active, round, held, incidents>>
  BY DEF OthersSave, notes
<1>9. server'[Form] = server[Form] + 1
  BY <1>7, <1>8, FormAssumption, PublishKeeps DEF Stores, EventsInv, CountsTyped
<1>10. save' \in Saves0' /\ restore' \in Restores0'
  BY <1>1, <1>8, <1>9, StagesStay DEF FormTyped
<1>11. \A r \in Sections : Holds(r)' => Holds(r) /\ mine'[r] = mine[r]
  BY <1>8 DEF Holds
<1>12. SavesMine' /\ RestoresMine'
  BY <1>1, <1>8, <1>11, FewerAsked
<1>13. AskedAfterwards' /\ (restore' # NoRestore => kind = "plan")
  BY <1>8 DEF FormInv, FormParts, DialogsByKind, AskedAfterwards, NoSave
<1>14. \A r \in Sections : mine'[r] \in {0, mine[r]} /\ (mine'[r] # 0 => of[r] # mine'[r])
  BY <1>5, <1>6, <1>8
<1>15. mine' \in [Sections -> 0..typed]
  BY <1>1, <1>8 DEF FormTyped
<1> QED BY <1>4, <1>6, <1>7, <1>8, <1>10, <1>12, <1>13, <1>14, <1>15, StoreForm

LEMMA ServerRestoresKeeps ==
  ASSUME EventsInv, FormInv, page = "forms", ServerRestores
  PROVE  EventsInv' /\ FormInv'
<1>1. /\ FormTyped /\ server[Form] \in Nat /\ DOMAIN versions = 1..server[Form]
      /\ Len(versions) = server[Form] /\ cache[Form] \in 1..server[Form]
  BY FormFacts DEF FormTyped
<1>2. PICK s \in Contested, read \in Reads : Stores([Newest EXCEPT ![s] = Theirs], read)
  BY DEF ServerRestores
<1>3. /\ restore.stage = "sent"
      /\ restore' = [stage |-> "done", version |-> server'[Form], at |-> restore.at]
      /\ UNCHANGED <<kind, draft, touched, save, dialog, typed, mine, basis, misled, active,
                     round, held, incidents>>
  BY DEF ServerRestores, notes
<1>4. read \in 1..server[Form] /\ server[Form] \in 1..server[Form]
  BY <1>1 DEF Reads
<1> DEFINE of == [Newest EXCEPT ![s] = Theirs]
<1>5. of \in Contents /\ \A r \in Sections : mine[r] # 0 => of[r] # mine[r]
  <2>1. Newest = versions[server[Form]]
    BY <1>1 DEF Newest
  <2> QED BY <1>4, <2>1, TheirsForm
<1>6. Stores(of, read)
  BY <1>2
<1> HIDE DEF of
<1>7. server'[Form] = server[Form] + 1
  BY <1>3, <1>6, FormAssumption, PublishKeeps DEF Stores, EventsInv, CountsTyped
<1>8. save' \in Saves0'
  BY <1>1, <1>3, <1>7, StagesStay DEF FormTyped
<1>9. restore # NoRestore /\ restore.at \in 0..typed
  BY <1>1, <1>3, StageForms
<1>10. restore' \in Restores0'
  <2>1. server'[Form] \in 1..server'[Form] /\ restore.at \in 0..typed'
    BY <1>1, <1>3, <1>7, <1>9
  <2> QED BY <1>3, <2>1 DEF Restores0, RestoresDone
<1>11. \A r \in Sections : Holds(r)' => Holds(r) /\ mine'[r] = mine[r]
  BY <1>3 DEF Holds
<1>12. SavesMine'
  BY <1>1, <1>3, <1>11, FewerAsked
<1>13. RestoresMine'
  BY <1>3, <1>9, <1>11 DEF FormInv, FormParts, RestoresMine
<1>14. AskedAfterwards' /\ kind = "plan"
  BY <1>3, <1>9 DEF FormInv, FormParts, DialogsByKind, AskedAfterwards, NoSave
<1>15. /\ mine' \in [Sections -> 0..typed]
       /\ \A r \in Sections : mine'[r] \in {0, mine[r]} /\ (mine'[r] # 0 => of[r] # mine'[r])
  BY <1>1, <1>3, <1>5 DEF FormTyped
<1> QED BY <1>3, <1>4, <1>5, <1>6, <1>8, <1>10, <1>12, <1>13, <1>14, <1>15, StoreForm

LEMMA ServerChecksKeeps ==
  ASSUME EventsInv, FormInv, page = "forms", ServerChecks
  PROVE  EventsInv' /\ FormInv'
<1>1. FormTyped /\ cache[Form] \in 1..server[Form] /\ server[Form] \in Nat
  BY FormFacts
<1>2. EventsInv' /\ server' = server /\ cache' = cache
  BY EventsStay DEF ServerChecks
<1>3. /\ save.stage = "sent"
      /\ UNCHANGED <<kind, stored, draft, touched, dialog, restore, typed, mine, basis, misled>>
      /\ \/ save' = [stage |-> "checked", of |-> save.of, meant |-> save.meant, at |-> save.at,
                     revision |-> save.revision, read |-> Len(versions)]
         \/ save' = Refused
  BY DEF ServerChecks, notes, Refused
<1>4. \A s \in Sections : Holds(s)' => Holds(s) /\ mine'[s] = mine[s]
  BY <1>3 DEF Holds
<1>5. SavesMine' /\ save' \in Saves0
  <2>1. CASE save' = Refused
    BY <1>1, <1>3, <1>4, <2>1, StageForms, FewerAsked
  <2>2. CASE save' # Refused
    <3>1. save \in SavesSent /\ Len(versions) \in 1..server[Form]
      BY <1>1, <1>3, StageForms DEF FormTyped
    <3>2. save' \in SavesChecked
      BY <1>3, <2>2, <3>1 DEF SavesSent, SavesChecked
    <3>3. /\ save'.stage = "checked" /\ save'.meant = save.meant /\ save'.of = save.of
          /\ save'.at = save.at /\ save.meant \subseteq Sections
      BY <1>3, <2>2, <3>1 DEF SavesSent
    <3>4. SavesMine'
      BY <1>3, <1>4, <3>3 DEF FormInv, FormParts, SavesMine, Locked
    <3> QED BY <3>2, <3>4 DEF Saves0
  <2> QED BY <2>1, <2>2
<1>6. MarkKept' /\ DialogsByKind' /\ RestoresMine'
  BY <1>1, <1>3, <1>4, FewerAsked
<1>7. dialog # "conflict"
  BY <1>1, <1>3, StageForms DEF FormInv, FormParts, AskedAfterwards
<1>8. AskedAfterwards' /\ \A s \in Sections : mine'[s] \in {0, mine[s]}
  BY <1>3, <1>7 DEF AskedAfterwards
<1> QED BY <1>1, <1>2, <1>3, <1>5, <1>6, <1>8, UnsavedForm DEF FormTyped

LEMMA ServerStoresKeeps ==
  ASSUME EventsInv, FormInv, page = "forms", ServerStores
  PROVE  EventsInv' /\ FormInv'
<1>1. PICK some \in SUBSET Sections, loaded \in RowsRead(save.read) : Stored(some, loaded)
  BY DEF ServerStores
<1> DEFINE written == Written(save.of, loaded)
           of == [s \in Sections |-> IF s \in some THEN written[s] ELSE Newest[s]]
<1>2. /\ FormTyped /\ server[Form] \in Nat /\ Newest \in Contents
      /\ DOMAIN versions = 1..server[Form] /\ cache[Form] \in 1..server[Form]
  BY FormFacts
<1>3. /\ save.stage = "checked"
      /\ UNCHANGED <<kind, draft, touched, dialog, restore, typed, basis, misled, active,
                     round, held, incidents>>
  BY DEF ServerStores
<1>4. /\ save.of \in Contents /\ save.meant \subseteq Sections /\ save.read \in 1..server[Form]
      /\ save.at \in 0..typed
  BY <1>2, <1>3, StageForms DEF SavesChecked
<1>5. /\ Stores(of, save.read)
      /\ mine' = [s \in Sections |-> IF s \in some /\ mine[s] = save.of[s] THEN 0 ELSE mine[s]]
      /\ save' = IF some = Sections
                 THEN [stage |-> "accepted", version |-> server'[Form], meant |-> save.meant,
                       at |-> save.at, own |-> Checked => save.revision = Len(versions)]
                 ELSE [stage |-> "refused"]
  BY <1>1 DEF Stored
<1>6. written \in Contents /\ \A s \in Sections : written[s] \in {save.of[s], Newest[s]}
  BY <1>4, WrittenForm
<1> HIDE DEF written
<1>7. of \in Contents /\ \A s \in Sections : of[s] = IF s \in some THEN written[s] ELSE Newest[s]
  BY <1>2, <1>6 DEF Contents
<1>8. server'[Form] = server[Form] + 1
  BY <1>3, <1>5, FormAssumption, PublishKeeps DEF Stores, EventsInv, CountsTyped
<1>9. mine \in [Sections -> 0..typed] /\ typed \in Nat
  BY <1>2, FormAssumption DEF FormTyped
<1>10. mine' \in [Sections -> 0..typed] /\ \A s \in Sections : mine'[s] \in {0, mine[s]}
  BY <1>5, <1>9
<1>11. \A s \in Sections : mine[s] # 0 => Newest[s] # mine[s]
  <2>1. Len(versions) \in DOMAIN versions
    BY <1>2 DEF FormTyped
  <2> QED BY <2>1 DEF FormInv, FormParts, TypedOnce, Newest
<1>12. \A s \in Sections : mine'[s] # 0 => of[s] # mine'[s]
  BY <1>5, <1>6, <1>7, <1>11
<1>13. save' \in Saves0'
  <2>1. server'[Form] \in 1..server'[Form] /\ save.at \in 0..typed'
    BY <1>2, <1>3, <1>4, <1>8
  <2>2. CASE some = Sections
    <3>1. (Checked => save.revision = Len(versions)) \in BOOLEAN
      OBVIOUS
    <3> QED BY <1>4, <1>5, <2>1, <2>2, <3>1 DEF Saves0, SavesAccepted
  <2>3. CASE some # Sections
    BY <1>5, <2>3 DEF Saves0, Refused
  <2> QED BY <2>2, <2>3
<1>14. restore' \in Restores0'
  BY <1>2, <1>3, <1>8, StagesStay DEF FormTyped
<1>15. \A s \in Sections : Holds(s)' => Holds(s) /\ mine'[s] = mine[s]
  BY <1>3, <1>10 DEF Holds
<1>16. SavesMine'
  <2>1. CASE some = Sections
    <3>1. save'.stage = "accepted" /\ save'.meant = save.meant /\ save'.at = save.at
      BY <1>5, <2>1
    <3>2. kind # "plan" => save.meant = Sections
      BY <1>3 DEF FormInv, FormParts, SavesMine
    <3>3. ASSUME NEW s \in save.meant, Holds(s)' PROVE ~Locked /\ mine'[s] > save.at
      <4>1. s \in Sections /\ mine'[s] = mine[s] /\ Holds(s) /\ mine'[s] # 0
        BY <1>4, <1>15, <3>3 DEF Holds
      <4>2. mine[s] # save.of[s]
        BY <1>5, <2>1, <4>1
      <4>3. ~(Locked \/ mine[s] <= save.at)
        BY <1>3, <4>1, <4>2 DEF FormInv, FormParts, SavesMine
      <4>4. mine[s] \in Nat /\ save.at \in Nat
        BY <1>4, <1>9, <4>1
      <4> QED BY <4>1, <4>3, <4>4
    <3> QED BY <1>3, <3>1, <3>2, <3>3 DEF SavesMine, Locked
  <2>2. CASE some # Sections
    BY <1>5, <2>2 DEF SavesMine
  <2> QED BY <2>1, <2>2
<1>17. RestoresMine'
  BY <1>2, <1>3, <1>15, FewerAsked
<1>18. dialog # "conflict"
  BY <1>2, <1>3, StageForms DEF FormInv, FormParts, AskedAfterwards
<1>19. AskedAfterwards' /\ (restore' # NoRestore => kind = "plan")
  BY <1>3, <1>18 DEF FormInv, FormParts, DialogsByKind, AskedAfterwards
<1>20. \A s \in Sections : mine'[s] \in {0, mine[s]} /\ (mine'[s] # 0 => of[s] # mine'[s])
  BY <1>10, <1>12
<1> HIDE DEF of
<1> QED BY <1>3, <1>4, <1>5, <1>7, <1>10, <1>13, <1>14, <1>16, <1>17, <1>19, <1>20, StoreForm

-----------------------------------------------------------------------------
LEMMA FormInits ==
  ASSUME ConsoleInit, EventsInv
  PROVE  FormInv
<1>1. /\ kind \in Kinds /\ versions = <<Nothing>> /\ revisions = <<1>>
      /\ draft = [revision |-> 1, of |-> Nothing]
      /\ touched = FALSE /\ save = NoSave /\ dialog = "none" /\ restore = NoRestore
      /\ typed = 0 /\ mine = Nothing /\ basis = Nothing /\ misled = FALSE
  BY DEF ConsoleInit, FormInit
<1>2. server[Form] = 1 /\ ShownThere
  BY FormAssumption DEF ConsoleInit, EventsInit, ShownThere
<1>3. MaxVersion[Form] \in Nat /\ Form \in Queries
  BY QueriesType, FormAssumption
<1>4. 0 \in -MaxVersion[Form]..typed
  BY <1>1, <1>3
<1>5. Nothing \in Contents
  BY <1>4 DEF Contents, Nothing
<1>6. versions \in Seq(Contents) /\ Len(versions) = server[Form]
  BY <1>1, <1>2, <1>5
<1>7. revisions \in Seq(Nat) /\ Len(revisions) = server[Form]
  BY <1>1, <1>2
<1>8. mine \in [Sections -> 0..typed]
  BY <1>1 DEF Nothing
<1>9. FormTyped
  <2>1. draft \in Drafts
    BY <1>1, <1>2, <1>5 DEF Drafts
  <2>2. typed \in 0..MaxEdits
    BY <1>1, FormAssumption
  <2>3. save \in Saves0 /\ restore \in Restores0
    BY <1>1 DEF Saves0, Restores0
  <2> QED BY <1>1, <1>2, <1>5, <1>6, <1>7, <1>8, <2>1, <2>2, <2>3 DEF FormTyped
<1>10. NoSave.stage = "none"
  BY DEF NoSave
<1>11. \A s \in Sections : mine[s] = 0 /\ ~Holds(s)
  BY <1>1 DEF Nothing, Holds
<1>12. TypedOnce /\ MarkKept /\ RestoresMine
  BY <1>11 DEF TypedOnce, MarkKept, RestoresMine
<1>13. DialogsByKind /\ SavesMine /\ AskedAfterwards
  BY <1>1, <1>10, <1>11 DEF DialogsByKind, SavesMine, AskedAfterwards
<1> QED BY <1>2, <1>9, <1>12, <1>13 DEF FormInv, FormParts

LEMMA FormKeeps ==
  ASSUME EventsInv, FormInv, page = "forms", page' = page, FormNext
  PROVE  EventsInv' /\ FormInv'
<1>1. CASE Discard
  BY <1>1, DiscardSectionKeeps, DiscardAllKeeps DEF Discard
<1> QED BY <1>1, EditKeeps, VehicleKeeps, SaveKeeps, OthersSaveKeeps, ServerChecksKeeps,
           ServerStoresKeeps, SaveAnsweredKeeps, SaveEndsKeeps, ConflictKeeps, FilledKeeps,
           RestoreKeeps, ServerRestoresKeeps, RestoredKeeps
    DEF FormNext

\* On another page, and while answers are read, the form stays as it is.
LEMMA FormStays ==
  ASSUME FormInv, UNCHANGED form, page' = page, server'[Form] = server[Form],
         page = "forms" => cache' = cache
  PROVE  FormInv'
<1>1. UNCHANGED <<kind, versions, revisions, draft, touched, save, dialog, restore, typed, mine,
                  basis, misled>>
  BY DEF form, notes, stored
<1>2. Contents' = Contents /\ Drafts' = Drafts /\ Saves0' = Saves0 /\ Restores0' = Restores0
  BY <1>1 DEF Contents, Drafts, Saves0, Restores0, SavesSent, SavesChecked, SavesAccepted,
     RestoresSent, RestoresDone
<1>3. FormTyped'
  BY <1>1, <1>2 DEF FormInv, FormTyped
<1>4. ShownThere'
  BY DEF FormInv, ShownThere
<1>5. FormTyped /\ \A s \in Sections : Holds(s)' => Holds(s) /\ mine'[s] = mine[s]
  BY <1>1 DEF Holds, FormInv
<1>6. MarkKept' /\ DialogsByKind' /\ SavesMine' /\ RestoresMine'
  BY <1>1, <1>5, FewerAsked
<1>7. TypedOnce' /\ AskedAfterwards'
  BY <1>1 DEF FormInv, FormParts, TypedOnce, AskedAfterwards, NoSave
<1> QED BY <1>3, <1>4, <1>6, <1>7 DEF FormInv, FormParts

-----------------------------------------------------------------------------
(* What leaves the form.                                                   *)

Excused(s) == TypedDuringSave(s) \/ TypedDuringRestore(s) \/ TypedDuringReload

\* The form is shown as it was.
LEMMA ShownAsBefore ==
  ASSUME FormTyped, NEW s \in Sections, draft'.of[s] = draft.of[s], mine'[s] \in {0, mine[s]}
  PROVE  ~Vanishes(s)
BY DEF Vanishes

LEMMA AnswerLeaves ==
  ASSUME EventsInv, FormInv, page = "forms", SaveAnswered, NEW s \in Sections, Vanishes(s)
  PROVE  TypedDuringSave(s)
<1>1. /\ FormTyped /\ \A r \in Sections : Holds(r) => Dirty(r)
  BY FormFacts
<1>2. save.stage = "accepted" /\ save' = NoSave /\ mine' = mine /\ draft' = Answered(save.version)
  BY DEF SaveAnswered
<1>3. Holds(s) /\ draft'.of[s] # draft.of[s]
  BY <1>2 DEF Vanishes, Holds
<1>4. s \in save.meant
  <2>1. ~(kind = "plan" /\ Dirty(s) /\ s \notin save.meant)
    BY <1>2, <1>3 DEF Answered
  <2>2. kind # "plan" => save.meant = Sections
    BY <1>2 DEF FormInv, FormParts, SavesMine
  <2> QED BY <1>1, <1>3, <2>1, <2>2
<1>5. ~Locked /\ mine[s] > save.at
  BY <1>2, <1>3, <1>4 DEF FormInv, FormParts, SavesMine
<1> QED BY <1>2, <1>5 DEF TypedDuringSave

LEMMA ReloadLeaves ==
  ASSUME EventsInv, FormInv, page = "forms", NEW version, Reloaded(version),
         NEW s \in Sections, Vanishes(s)
  PROVE  TypedDuringReload
<1>1. /\ FormTyped /\ \A r \in Sections : Holds(r) => Dirty(r)
  BY FormFacts
<1>2. /\ dialog' = IF dialog = "reload" THEN "none" ELSE dialog
      /\ draft' = IF dialog = "reload" THEN Taken(version) ELSE Filled(version)
      /\ mine' = mine
  BY DEF Reloaded
<1>3. Holds(s) /\ Dirty(s) /\ draft'.of[s] # draft.of[s]
  BY <1>1, <1>2 DEF Vanishes, Holds
<1>4. ASSUME dialog # "reload" PROVE FALSE
  <2>1. draft' = Filled(version)
    BY <1>2, <1>4
  <2>2. PlanFilled(version).of[s] = draft.of[s]
    BY <1>3 DEF PlanFilled
  <2>3. kind = "account" => AccountFilled(version) = draft
    BY <1>3 DEF AccountFilled, Edited, Locked
  <2>4. Marks => ListFilled(version) = draft
    BY <1>3 DEF ListFilled, FormInv, FormParts, MarkKept
  <2>5. kind \in Kinds
    BY <1>1 DEF FormTyped
  <2> QED BY <1>3, <2>1, <2>2, <2>3, <2>4, <2>5 DEF Filled, Marks, Kinds
<1> QED BY <1>2, <1>4 DEF TypedDuringReload

LEMMA OpenLeaves ==
  ASSUME EventsInv, FormInv, page = "forms", OpenVehicle, NEW s \in Sections
  PROVE  ~Vanishes(s)
<1>1. kind = "vehicle" /\ dialog # "vehicle" /\ mine' = mine
  BY DEF OpenVehicle
<1>2. ~Holds(s)
  BY <1>1 DEF FormInv, FormParts, DialogsByKind
<1> QED BY <1>1, <1>2 DEF Vanishes, Holds

LEMMA RestoredLeaves ==
  ASSUME EventsInv, FormInv, page = "forms", Restored, NEW s \in Sections, Vanishes(s)
  PROVE  TypedDuringRestore(s)
<1>1. restore.stage = "done" /\ restore' = NoRestore /\ mine' = mine
  BY DEF Restored, notes
<1>2. restore # NoRestore
  BY <1>1 DEF NoRestore
<1>3. Holds(s)
  BY <1>1 DEF Vanishes, Holds
<1> QED BY <1>1, <1>2, <1>3 DEF TypedDuringRestore, FormInv, FormParts, RestoresMine

LEMMA EditLeaves ==
  ASSUME EventsInv, FormInv, page = "forms", NEW r \in Sections, Edit(r), NEW s \in Sections
  PROVE  ~Vanishes(s)
<1>1. /\ draft \in Drafts /\ mine \in [Sections -> 0..typed]
      /\ draft' = [draft EXCEPT !.of[r] = typed'] /\ mine' = [mine EXCEPT ![r] = typed']
  BY DEF FormInv, FormTyped, Edit
<1>2. \/ draft'.of[s] = draft.of[s] /\ mine'[s] = mine[s]
      \/ draft'.of[s] = mine'[s]
  BY <1>1 DEF Drafts, Contents
<1> QED BY <1>2 DEF Vanishes

LEMMA DiscardLeaves ==
  ASSUME EventsInv, FormInv, page = "forms", Discard, NEW s \in Sections
  PROVE  ~Vanishes(s)
<1>1. draft.of \in Contents /\ mine \in [Sections -> 0..typed]
  BY FormFacts DEF FormInv, FormTyped
<1>2. ASSUME NEW r \in Sections, DiscardSection(r) PROVE ~Vanishes(s)
  <2>1. draft'.of = [draft.of EXCEPT ![r] = Shown[r]] /\ mine' = [mine EXCEPT ![r] = 0]
    BY <1>2 DEF DiscardSection
  <2>2. mine'[s] = 0 \/ (draft'.of[s] = draft.of[s] /\ mine'[s] = mine[s])
    BY <1>1, <2>1 DEF Contents
  <2> QED BY <2>2 DEF Vanishes
<1>3. DiscardAll => ~Vanishes(s)
  BY DEF DiscardAll, Vanishes, Nothing
<1> QED BY <1>2, <1>3 DEF Discard

\* Storing takes nothing out of the form, and no section becomes another's.
LEMMA StoringLeaves ==
  ASSUME EventsInv, FormInv, page = "forms", NEW s \in Sections,
         OthersSave \/ ServerChecks \/ ServerStores \/ ServerRestores
  PROVE  ~Vanishes(s)
<1>1. draft' = draft
  BY DEF OthersSave, ServerChecks, ServerStores, ServerRestores
<1>2. mine'[s] \in {0, mine[s]}
  BY DEF OthersSave, ServerChecks, ServerStores, ServerRestores, Stored, notes
<1> QED BY <1>1, <1>2, ShownAsBefore DEF FormInv

LEMMA RestLeaves ==
  ASSUME EventsInv, FormInv, page = "forms", NEW s \in Sections,
         CloseVehicle \/ Save \/ SaveRefused \/ SaveLost \/ KeepDraft \/ Reload \/ Restore
  PROVE  ~Vanishes(s)
<1>1. draft' = draft /\ mine' \in {Nothing, mine}
  BY DEF CloseVehicle, Save, SaveRefused, SaveLost, KeepDraft, Reload, Restore, notes
<1>2. mine'[s] \in {0, mine[s]}
  BY <1>1 DEF Nothing
<1> QED BY <1>1, <1>2, ShownAsBefore DEF FormInv

\* Nothing of the user's leaves the form but what was typed while an answer that
\* replaces it was on its way.
LEMMA FormLeaves ==
  ASSUME EventsInv, FormInv, page = "forms", FormNext, NEW s \in Sections, Vanishes(s)
  PROVE  Excused(s)
BY EditLeaves, OpenLeaves, DiscardLeaves, StoringLeaves, RestLeaves, AnswerLeaves, ReloadLeaves,
   RestoredLeaves
   DEF FormNext, FormSettles, FormFails, Excused

-----------------------------------------------------------------------------
(* The window for a session, and the browsers.                             *)

Tasks == [status : Live \cup Over, ready : BOOLEAN, driver : BOOLEAN,
          browser : {"none", "running", "closing"}, profile : BOOLEAN, expired : BOOLEAN,
          broken : BOOLEAN, astray : BOOLEAN]
WithTask == {"closing", "stopping", "replacing", "exchanging"}
Requests == [kind : {"create", "end"}, of : Nat,
             at : {"sent", "closing", "stopping", "replacing", "exchanging", "answered", "done"}]
Streams == [task : Nat, at : Inside \cup {"sent", "waiting", "done"}, linked : BOOLEAN]

WindowTyped ==
  /\ open \in BOOLEAN /\ saved \in BOOLEAN /\ pageStatus \in PageStatuses
  /\ shown \in 0..Len(tasks) /\ current \in 0..Len(streams)
TasksTyped == tasks \in Seq(Tasks) /\ Len(tasks) <= MaxTasks
StreamsTyped ==
  /\ streams \in Seq(Streams) /\ Len(streams) <= MaxStreams
  /\ \A s \in DOMAIN streams : streams[s].task \in DOMAIN tasks

\* A request that closes, replaces or has made a task has one.
HasTask(request, last) ==
  /\ request.of \in 0..last
  /\ request.at \in WithTask => request.of # 0
  /\ request.kind = "create" /\ request.at = "answered" => request.of # 0
RequestsTyped ==
  /\ requests \in Seq(Requests) /\ Len(requests) <= MaxRequests
  /\ \A c \in DOMAIN requests : HasTask(requests[c], Len(tasks))

AuthTyped == WindowTyped /\ TasksTyped /\ StreamsTyped /\ RequestsTyped

\* A task's lock.
OneInside ==
  \A s, r \in DOMAIN streams :
    s # r /\ streams[s].task = streams[r].task /\ streams[s].at \in Inside
      => streams[r].at \notin Inside

\* What a stream at `at` may count on of its task: while it sets everything up anew
\* the browser is not ready, and one that still runs was left after a broken saving;
\* a browser that is worked is that of an active task; one that is given up is gone.
Shutting == {"saving", "storing", "closing", "stopping"}
Works(task, at) ==
  /\ at \in {"starting", "launching"} => ~task.ready
  /\ at \in {"starting", "launching"} /\ task.browser = "running" => task.broken
  /\ at \in {"serving", "exporting"} /\ task.browser = "running" => task.status = "active"
  /\ at = "serving" /\ task.browser = "running" => task.ready
  /\ at \in Shutting => task.browser # "running"

\* What holds of a task always, and what when no stream has its lock.
Kept(task) ==
  /\ task.astray => task.broken
  /\ task.ready /\ task.browser = "running" => task.status = "active"
Left(task) ==
  task.browser = "running" => task.status = "active" /\ (task.ready \/ task.broken)

StreamsWork == \A s \in DOMAIN streams : Works(tasks[streams[s].task], streams[s].at)
TasksKept == \A t \in DOMAIN tasks : Kept(tasks[t])
TasksLeft ==
  \A t \in DOMAIN tasks :
    Left(tasks[t]) \/ \E s \in DOMAIN streams : streams[s].task = t /\ streams[s].at \in Inside

BrowserParts == OneInside /\ StreamsWork /\ TasksKept /\ TasksLeft
AuthInv == AuthTyped /\ BrowserParts

LEMMA Accounts == AuthInv => BrowsersAccounted
BY DEF AuthInv, BrowserParts, TasksKept, TasksLeft, Kept, Left, BrowsersAccounted

\* A task that stays as it was, but for its time, or has lost its browser.
Quieter(before, after) ==
  /\ after.broken = before.broken /\ after.astray = before.astray
  /\ \/ /\ after.status = before.status /\ after.ready = before.ready
        /\ after.browser = before.browser
     \/ after.browser # "running" /\ (after.ready => before.ready)

LEMMA QuieterKeeps ==
  ASSUME NEW before, NEW after, Quieter(before, after)
  PROVE  /\ Kept(before) => Kept(after)
         /\ Left(before) => Left(after)
         /\ \A at : Works(before, at) => Works(after, at)
BY DEF Quieter, Kept, Left, Works

\* Nothing is asked of a task by who does not work it.
LEMMA OutsideWorks ==
  ASSUME NEW task, NEW at, at \notin Inside
  PROVE  Works(task, at)
<1>1. {"serving", "exporting", "starting", "launching"} \cup Shutting \subseteq Inside
  BY DEF Inside, Shutting
<1> QED BY <1>1 DEF Works

\* What happens outside of a task's lock: streams come and end, a task loses its
\* browser or is new; its time runs out.
LEMMA OutsideKeeps ==
  ASSUME AuthInv, AuthTyped',
         \A s \in DOMAIN streams :
           /\ s \in DOMAIN streams' /\ streams'[s].task = streams[s].task
           /\ \/ streams'[s].at = streams[s].at
              \/ streams[s].at \notin Inside /\ streams'[s].at \notin Inside,
         \A s \in DOMAIN streams' : s \in DOMAIN streams \/ streams'[s].at \notin Inside,
         \A t \in DOMAIN tasks :
           /\ t \in DOMAIN tasks'
           /\ Quieter(tasks[t], tasks'[t]),
         \A t \in DOMAIN tasks' :
           t \in DOMAIN tasks \/ (tasks'[t].browser # "running" /\ ~tasks'[t].astray)
  PROVE  BrowserParts'
<1> USE DEF AuthInv, BrowserParts
<1>1. \A s \in DOMAIN streams : streams[s].task \in DOMAIN tasks
  BY DEF AuthTyped, StreamsTyped
<1>2. OneInside'
  BY DEF OneInside
<1>3. TasksKept'
  <2> SUFFICES ASSUME NEW t \in DOMAIN tasks' PROVE Kept(tasks'[t])
    BY DEF TasksKept
  <2>1. CASE t \in DOMAIN tasks
    BY <2>1, QuieterKeeps DEF TasksKept
  <2>2. CASE t \notin DOMAIN tasks
    BY <2>2 DEF Kept
  <2> QED BY <2>1, <2>2
<1>4. StreamsWork'
  <2> SUFFICES ASSUME NEW s \in DOMAIN streams'
               PROVE  Works(tasks'[streams'[s].task], streams'[s].at)
    BY DEF StreamsWork
  <2>1. CASE streams'[s].at \notin Inside
    BY <2>1, OutsideWorks
  <2>2. CASE streams'[s].at \in Inside
    <3>1. /\ s \in DOMAIN streams /\ streams'[s].at = streams[s].at
          /\ streams'[s].task = streams[s].task /\ streams[s].task \in DOMAIN tasks
      BY <1>1, <2>2
    <3>2. Works(tasks[streams[s].task], streams[s].at)
      BY <3>1 DEF StreamsWork
    <3>3. Works(tasks'[streams[s].task], streams[s].at)
      BY <3>1, <3>2, QuieterKeeps
    <3> QED BY <3>1, <3>3
  <2> QED BY <2>1, <2>2
<1>5. TasksLeft'
  <2> SUFFICES ASSUME NEW t \in DOMAIN tasks', ~Left(tasks'[t])
               PROVE  \E s \in DOMAIN streams' : streams'[s].task = t /\ streams'[s].at \in Inside
    BY DEF TasksLeft
  <2>1. t \in DOMAIN tasks
    BY DEF Left
  <2>2. ~Left(tasks[t])
    BY <2>1, QuieterKeeps
  <2>3. PICK s \in DOMAIN streams : streams[s].task = t /\ streams[s].at \in Inside
    BY <2>1, <2>2 DEF TasksLeft
  <2> QED BY <2>3
<1> QED BY <1>2, <1>3, <1>4, <1>5

\* What a stream does with its task, having the lock or taking it: what it leaves
\* behind says whether browsers are still accounted for.
LEMMA InsideKeeps ==
  ASSUME AuthInv, AuthTyped', NEW s \in DOMAIN streams,
         streams[s].at \in Inside \/ Free(streams[s].task),
         DOMAIN streams' = DOMAIN streams, DOMAIN tasks' = DOMAIN tasks,
         streams'[s].task = streams[s].task,
         \A r \in DOMAIN streams : r # s => streams'[r] = streams[r],
         \A u \in DOMAIN tasks : u # streams[s].task => tasks'[u] = tasks[u],
         Kept(tasks'[streams[s].task]), Works(tasks'[streams[s].task], streams'[s].at),
         streams'[s].at \in Inside \/ Left(tasks'[streams[s].task])
  PROVE  BrowserParts'
<1> DEFINE t == streams[s].task
<1> USE DEF AuthInv, BrowserParts
<1>1. t \in DOMAIN tasks /\ \A r \in DOMAIN streams : streams[r].task \in DOMAIN tasks
  BY DEF AuthTyped, StreamsTyped
<1>2. \A r \in DOMAIN streams : r # s /\ streams[r].task = t => streams[r].at \notin Inside
  BY DEF OneInside, Free
<1>3. OneInside'
  BY <1>2 DEF OneInside
<1>4. TasksKept'
  BY DEF TasksKept
<1>5. StreamsWork'
  <2> SUFFICES ASSUME NEW r \in DOMAIN streams, r # s
               PROVE  Works(tasks'[streams'[r].task], streams'[r].at)
    BY DEF StreamsWork
  <2>1. streams'[r] = streams[r] /\ streams[r].task \in DOMAIN tasks
    BY <1>1
  <2>2. CASE streams[r].task = t
    BY <1>2, <2>1, <2>2, OutsideWorks
  <2>3. CASE streams[r].task # t
    BY <2>1, <2>3 DEF StreamsWork
  <2> QED BY <2>2, <2>3
<1>6. TasksLeft'
  <2> SUFFICES ASSUME NEW u \in DOMAIN tasks, ~Left(tasks'[u])
               PROVE  \E r \in DOMAIN streams' : streams'[r].task = u /\ streams'[r].at \in Inside
    BY DEF TasksLeft
  <2>1. CASE u = t
    BY <2>1
  <2>2. CASE u # t
    <3>1. PICK r \in DOMAIN streams : streams[r].task = u /\ streams[r].at \in Inside
      BY <2>2 DEF TasksLeft
    <3> QED BY <2>2, <3>1
  <2> QED BY <2>1, <2>2
<1> QED BY <1>3, <1>4, <1>5, <1>6

(* Sequences, and what the operators make of them.                         *)

LEMMA Put ==
  ASSUME NEW S, NEW q \in Seq(S), NEW i \in DOMAIN q, NEW x \in S
  PROVE  /\ [q EXCEPT ![i] = x] \in Seq(S)
         /\ Len([q EXCEPT ![i] = x]) = Len(q) /\ DOMAIN [q EXCEPT ![i] = x] = DOMAIN q
         /\ [q EXCEPT ![i] = x][i] = x
         /\ \A j \in DOMAIN q : j # i => [q EXCEPT ![i] = x][j] = q[j]
<1>1. DOMAIN q = 1..Len(q)
  OBVIOUS
<1> QED BY <1>1, ExceptSeq

LEMMA PutLast ==
  ASSUME NEW S, NEW q \in Seq(S), NEW x \in S
  PROVE  /\ Append(q, x) \in Seq(S) /\ Len(Append(q, x)) = Len(q) + 1
         /\ Len(q) + 1 \in DOMAIN Append(q, x)
         /\ \A i \in DOMAIN q : i \in DOMAIN Append(q, x) /\ Append(q, x)[i] = q[i]
         /\ \A i \in DOMAIN Append(q, x) :
              i \notin DOMAIN q => i = Len(q) + 1 /\ Append(q, x)[i] = x
<1>1. /\ Append(q, x) \in Seq(S) /\ Len(Append(q, x)) = Len(q) + 1
      /\ \A i \in 1..Len(q) : Append(q, x)[i] = q[i]
      /\ Append(q, x)[Len(q) + 1] = x
  BY AppendProperties
<1>2. DOMAIN q = 1..Len(q) /\ DOMAIN Append(q, x) = 1..(Len(q) + 1) /\ Len(q) \in Nat
  BY <1>1
<1> QED BY <1>1, <1>2

\* The number of a task.
LEMMA Numbers ==
  ASSUME NEW S, NEW q \in Seq(S)
  PROVE  \A i : i \in DOMAIN q <=> i \in 0..Len(q) /\ i # 0
  OBVIOUS

LEMMA OfTask ==
  ASSUME NEW task \in Tasks
  PROVE  /\ task.status \in Live \cup Over /\ task.ready \in BOOLEAN
         /\ task.browser \in {"none", "running", "closing"}
         /\ task.broken \in BOOLEAN /\ task.astray \in BOOLEAN /\ task.driver \in BOOLEAN
  BY DEF Tasks

\* What is left of a task's browser, an await later.
LEMMA ClosedForms ==
  ASSUME NEW task \in Tasks,
         NEW after \in {DriverTaken(task), DriverStopped(task), ContextClosed(task),
                        [task EXCEPT !.browser = Gone(@)]}
  PROVE  /\ after \in Tasks /\ Quieter(task, after)
         /\ task.browser # "running" => after.browser # "running"
<1>1. Gone(task.browser) \in {"none", "running"}
  BY DEF Gone, Tasks
<1>2. /\ Gone(task.browser) = "running" <=> task.browser = "running"
  BY DEF Gone, Tasks
<1> DEFINE gone == [task EXCEPT !.browser = Gone(@)]
<1>3. /\ gone \in Tasks /\ Quieter(task, gone)
      /\ task.browser # "running" => gone.browser # "running"
  BY <1>1, <1>2 DEF Tasks, Quieter
<1>4. ASSUME NEW any \in Tasks
      PROVE  /\ DriverTaken(any) \in Tasks /\ Quieter(any, DriverTaken(any))
             /\ DriverTaken(any).browser # "running"
             /\ DriverTaken(any).ready = any.ready /\ DriverTaken(any).broken = any.broken
             /\ DriverTaken(any).astray = any.astray
  BY <1>4 DEF DriverTaken, Tasks, Quieter
<1>5. /\ DriverStopped(task) \in Tasks /\ Quieter(task, DriverStopped(task))
      /\ task.browser # "running" => DriverStopped(task).browser # "running"
  BY <1>1, <1>2 DEF DriverStopped, Tasks, Quieter
<1>6. DriverTaken(gone) \in Tasks /\ DriverTaken(gone).browser # "running"
  BY <1>3, <1>4
<1>7. Quieter(task, DriverTaken(gone))
  <2>1. gone.ready = task.ready /\ gone.broken = task.broken /\ gone.astray = task.astray
    BY DEF Tasks
  <2> HIDE DEF gone
  <2> QED BY <1>3, <1>4, <1>6, <2>1 DEF Quieter
<1>8. ContextClosed(task) \in {DriverTaken(gone), DriverStopped(task)}
  BY DEF ContextClosed
<1> HIDE DEF gone
<1>9. CASE after = DriverTaken(task)
  BY <1>4, <1>9
<1>10. CASE after = DriverStopped(task)
  BY <1>5, <1>10
<1>11. CASE after = ContextClosed(task)
  BY <1>5, <1>6, <1>7, <1>8, <1>11
<1>12. CASE after = [task EXCEPT !.browser = Gone(@)]
  BY <1>3, <1>12 DEF gone
<1> QED BY <1>9, <1>10, <1>11, <1>12

\* One task is put in another's place.
LEMMA QuietPut ==
  ASSUME AuthTyped, NEW t \in DOMAIN tasks, NEW after \in Tasks, Quieter(tasks[t], after),
         NEW now, now = [tasks EXCEPT ![t] = after]
  PROVE  /\ now \in Seq(Tasks) /\ Len(now) = Len(tasks) /\ DOMAIN now = DOMAIN tasks
         /\ now[t] = after
         /\ \A u \in DOMAIN tasks : u # t => now[u] = tasks[u]
         /\ \A u \in DOMAIN tasks : Quieter(tasks[u], now[u])
<1>1. tasks \in Seq(Tasks)
  BY DEF AuthTyped, TasksTyped
<1>2. /\ now \in Seq(Tasks) /\ Len(now) = Len(tasks) /\ DOMAIN now = DOMAIN tasks
      /\ now[t] = after
      /\ \A u \in DOMAIN tasks : u # t => now[u] = tasks[u]
  BY <1>1, Put
<1>3. \A u \in DOMAIN tasks : u # t => Quieter(tasks[u], now[u])
  BY <1>2 DEF Quieter
<1> QED BY <1>2, <1>3

LEMMA Endings ==
  ASSUME AuthTyped, NEW t \in DOMAIN tasks, NEW status \in Live \cup Over
  PROVE  /\ Ending(t, status) \in Seq(Tasks) /\ Len(Ending(t, status)) = Len(tasks)
         /\ DOMAIN Ending(t, status) = DOMAIN tasks
         /\ Ending(t, status)[t].browser # "running"
         /\ \A u \in DOMAIN tasks : u # t => Ending(t, status)[u] = tasks[u]
         /\ \A u \in DOMAIN tasks : Quieter(tasks[u], Ending(t, status)[u])
<1> DEFINE ending == [tasks[t] EXCEPT !.status = status, !.ready = FALSE]
           closing == [ending EXCEPT !.browser = "closing"]
           bare == [ending EXCEPT !.profile = FALSE]
           last == Awaits(t, closing, DriverTaken(ending), bare)
<1>1. tasks \in Seq(Tasks) /\ tasks[t] \in Tasks
  BY DEF AuthTyped, TasksTyped
<1>2. /\ ending \in Tasks /\ ~ending.ready /\ ending.browser = tasks[t].browser
      /\ ending.broken = tasks[t].broken /\ ending.astray = tasks[t].astray
  BY <1>1 DEF Tasks
<1> HIDE DEF ending
<1>3. /\ closing \in Tasks /\ closing.browser # "running" /\ ~closing.ready
      /\ closing.broken = tasks[t].broken /\ closing.astray = tasks[t].astray
  BY <1>2 DEF Tasks
<1>4. /\ bare \in Tasks /\ bare.browser = tasks[t].browser /\ ~bare.ready
      /\ bare.broken = tasks[t].broken /\ bare.astray = tasks[t].astray
  BY <1>2 DEF Tasks
<1>5. /\ DriverTaken(ending) \in Tasks /\ DriverTaken(ending).browser # "running"
      /\ ~DriverTaken(ending).ready /\ DriverTaken(ending).broken = tasks[t].broken
      /\ DriverTaken(ending).astray = tasks[t].astray
  BY <1>2 DEF DriverTaken, Tasks
<1>6. /\ last \in Tasks /\ last.browser # "running" /\ ~last.ready
      /\ last.broken = tasks[t].broken /\ last.astray = tasks[t].astray
  <2> HIDE DEF closing, bare
  <2> QED BY <1>3, <1>4, <1>5 DEF Awaits, Reachable
<1>7. Ending(t, status) = [tasks EXCEPT ![t] = last]
  BY DEF Ending, ending
<1> HIDE DEF last
<1>8. Quieter(tasks[t], last)
  BY <1>6 DEF Quieter
<1> QED BY <1>1, <1>6, <1>7, <1>8, QuietPut

LEMMA MovesForm ==
  ASSUME AuthTyped, NEW s \in DOMAIN streams, NEW at \in Inside \cup {"waiting", "done"},
         Moves(s, at)
  PROVE  /\ streams' \in Seq(Streams) /\ Len(streams') = Len(streams)
         /\ DOMAIN streams' = DOMAIN streams
         /\ streams'[s].task = streams[s].task /\ streams'[s].at = at
         /\ \A r \in DOMAIN streams : r # s => streams'[r] = streams[r]
<1> DEFINE now == [streams[s] EXCEPT !.at = at]
<1>1. streams \in Seq(Streams) /\ streams[s] \in Streams
  BY DEF AuthTyped, StreamsTyped
<1>2. now \in Streams /\ now.task = streams[s].task /\ now.at = at
  BY <1>1 DEF Streams
<1>3. streams' = [streams EXCEPT ![s] = now]
  BY DEF Moves
<1> HIDE DEF now
<1> QED BY <1>1, <1>2, <1>3, Put

LEMMA UnlinkedForm ==
  ASSUME AuthTyped, NEW s \in DOMAIN streams
  PROVE  /\ Unlinked(s) \in Seq(Streams) /\ Len(Unlinked(s)) = Len(streams)
         /\ DOMAIN Unlinked(s) = DOMAIN streams
         /\ \A r \in DOMAIN streams : /\ Unlinked(s)[r].task = streams[r].task
                                      /\ Unlinked(s)[r].at = streams[r].at
<1> DEFINE now == [streams[s] EXCEPT !.linked = FALSE]
<1>1. streams \in Seq(Streams) /\ streams[s] \in Streams
  BY DEF AuthTyped, StreamsTyped
<1>2. now \in Streams /\ now.task = streams[s].task /\ now.at = streams[s].at
  BY <1>1 DEF Streams
<1>3. Unlinked(s) = [streams EXCEPT ![s] = now]
  BY DEF Unlinked
<1> HIDE DEF now
<1> QED BY <1>1, <1>2, <1>3, Put

LEMMA CurrentForm ==
  ASSUME AuthTyped
  PROVE  /\ WithoutCurrent \in Seq(Streams) /\ Len(WithoutCurrent) = Len(streams)
         /\ DOMAIN WithoutCurrent = DOMAIN streams
         /\ \A r \in DOMAIN streams : /\ WithoutCurrent[r].task = streams[r].task
                                      /\ WithoutCurrent[r].at = streams[r].at
<1>1. streams \in Seq(Streams) /\ current \in 0..Len(streams)
  BY DEF AuthTyped, StreamsTyped, WindowTyped
<1>2. current # 0 => current \in DOMAIN streams
  BY <1>1
<1> QED BY <1>1, <1>2, UnlinkedForm DEF WithoutCurrent

\* A request goes on, with a task if it needs one.
LEMMA AtForm ==
  ASSUME AuthTyped, NEW c \in DOMAIN requests,
         NEW at \in {"sent", "closing", "stopping", "replacing", "exchanging", "answered", "done"},
         NEW t \in 0..Len(tasks'),
         At(c, at, t), Len(tasks') \in Nat, Len(tasks) <= Len(tasks'),
         t # 0 \/ at \in {"sent", "done"} \/ (at = "answered" /\ requests[c].kind = "end")
  PROVE  RequestsTyped'
<1> DEFINE now == [requests[c] EXCEPT !.at = at, !.of = t]
<1>1. requests \in Seq(Requests) /\ requests[c] \in Requests /\ Len(requests) <= MaxRequests
  BY DEF AuthTyped, RequestsTyped
<1>2. now \in Requests /\ now.kind = requests[c].kind /\ now.at = at /\ now.of = t
  <2>1. t \in Nat
    OBVIOUS
  <2> QED BY <1>1, <2>1 DEF Requests
<1>3. requests' = [requests EXCEPT ![c] = now]
  BY DEF At
<1> HIDE DEF now
<1>4. /\ requests' \in Seq(Requests) /\ Len(requests') = Len(requests)
      /\ DOMAIN requests' = DOMAIN requests
      /\ requests'[c] = now /\ \A d \in DOMAIN requests : d # c => requests'[d] = requests[d]
  BY <1>1, <1>2, <1>3, Put
<1>5. Len(tasks) \in Nat
  BY DEF AuthTyped, TasksTyped
<1>6. HasTask(now, Len(tasks'))
  BY <1>2 DEF HasTask, WithTask
<1>7. ASSUME NEW d \in DOMAIN requests, HasTask(requests[d], Len(tasks))
      PROVE  HasTask(requests[d], Len(tasks'))
  BY <1>5, <1>7 DEF HasTask
<1>8. \A d \in DOMAIN requests' : HasTask(requests'[d], Len(tasks'))
  BY <1>4, <1>6, <1>7 DEF AuthTyped, RequestsTyped
<1> QED BY <1>1, <1>4, <1>8 DEF RequestsTyped

LEMMA AskForm ==
  ASSUME AuthTyped, NEW kind1 \in {"create", "end"}, Ask(kind1), tasks' = tasks
  PROVE  RequestsTyped'
<1> DEFINE now == [kind |-> kind1, at |-> "sent", of |-> 0]
<1>1. requests \in Seq(Requests) /\ Len(requests) \in Nat
  BY DEF AuthTyped, RequestsTyped
<1>2. now \in Requests /\ now.at = "sent" /\ now.of = 0
  BY DEF Requests
<1>3. requests' = Append(requests, now) /\ Len(requests) < MaxRequests
  BY DEF Ask
<1> HIDE DEF now
<1>4. /\ requests' \in Seq(Requests) /\ Len(requests') = Len(requests) + 1
      /\ \A i \in DOMAIN requests' :
           requests'[i] = now \/ (i \in DOMAIN requests /\ requests'[i] = requests[i])
  BY <1>1, <1>2, <1>3, PutLast
<1>5. HasTask(now, Len(tasks))
  BY <1>2 DEF AuthTyped, TasksTyped, HasTask, WithTask
<1>6. \A i \in DOMAIN requests' : HasTask(requests'[i], Len(tasks'))
  BY <1>4, <1>5 DEF AuthTyped, RequestsTyped
<1>7. Len(requests') <= MaxRequests
  BY <1>1, <1>3, <1>4, AuthAssumption
<1> QED BY <1>4, <1>6, <1>7 DEF RequestsTyped

(* The steps of the window.                                                *)

\* Neither the tasks nor what the streams do change.
LEMMA WindowKeeps ==
  ASSUME AuthInv, WindowTyped', StreamsTyped', RequestsTyped', tasks' = tasks,
         \A s \in DOMAIN streams :
           /\ s \in DOMAIN streams' /\ streams'[s].task = streams[s].task
           /\ streams'[s].at = streams[s].at,
         \A s \in DOMAIN streams' : s \in DOMAIN streams \/ streams'[s].at = "sent"
  PROVE  AuthInv'
<1>1. AuthTyped'
  BY DEF AuthInv, AuthTyped, TasksTyped
<1>2. "sent" \notin Inside
  BY DEF Inside
<1> QED BY <1>1, <1>2, OutsideKeeps DEF AuthInv, Quieter

LEMMA ConnectForm ==
  ASSUME AuthTyped, NEW t \in DOMAIN tasks, Connect(t), tasks' = tasks
  PROVE  /\ StreamsTyped' /\ current' \in 0..Len(streams')
         /\ \A s \in DOMAIN streams :
              /\ s \in DOMAIN streams' /\ streams'[s].task = streams[s].task
              /\ streams'[s].at = streams[s].at
         /\ \A s \in DOMAIN streams' : s \in DOMAIN streams \/ streams'[s].at = "sent"
<1> DEFINE now == [task |-> t, at |-> "sent", linked |-> TRUE]
<1>1. /\ WithoutCurrent \in Seq(Streams) /\ Len(WithoutCurrent) = Len(streams)
      /\ DOMAIN WithoutCurrent = DOMAIN streams
      /\ \A r \in DOMAIN streams : /\ WithoutCurrent[r].task = streams[r].task
                                   /\ WithoutCurrent[r].at = streams[r].at
  BY CurrentForm
<1>2. /\ t \in Nat /\ Len(streams) \in Nat
      /\ \A s \in DOMAIN streams : streams[s].task \in DOMAIN tasks
  BY DEF AuthTyped, TasksTyped, StreamsTyped
<1>3. now \in Streams /\ now.task = t /\ now.at = "sent"
  BY <1>2 DEF Streams
<1>4. /\ streams' = Append(WithoutCurrent, now) /\ Len(streams) < MaxStreams
      /\ current' = Len(streams')
  BY DEF Connect
<1> HIDE DEF now
<1>5. /\ streams' \in Seq(Streams) /\ Len(streams') = Len(streams) + 1
      /\ \A s \in DOMAIN streams : s \in DOMAIN streams' /\ streams'[s] = WithoutCurrent[s]
      /\ \A s \in DOMAIN streams' : s \in DOMAIN streams \/ streams'[s] = now
  BY <1>1, <1>3, <1>4, PutLast
<1>6. \A s \in DOMAIN streams' : streams'[s].task \in DOMAIN tasks'
  BY <1>1, <1>2, <1>3, <1>5
<1>7. Len(streams') <= MaxStreams
  BY <1>2, <1>4, <1>5, AuthAssumption
<1>8. current' \in 0..Len(streams')
  BY <1>2, <1>4, <1>5
<1> QED BY <1>1, <1>3, <1>5, <1>6, <1>7, <1>8 DEF StreamsTyped

LEMMA ShutForm ==
  ASSUME AuthTyped, Shut, tasks' = tasks
  PROVE  /\ StreamsTyped' /\ open' = FALSE /\ shown' = 0 /\ current' = 0 /\ pageStatus' = "idle"
         /\ \A s \in DOMAIN streams :
              /\ s \in DOMAIN streams' /\ streams'[s].task = streams[s].task
              /\ streams'[s].at = streams[s].at
         /\ DOMAIN streams' = DOMAIN streams
BY CurrentForm DEF Shut, AuthTyped, StreamsTyped

\* Two forms in which the window leaves the streams and the tasks alone.
LEMMA QuietForm ==
  ASSUME AuthInv, WindowTyped', RequestsTyped', tasks' = tasks, streams' = streams
  PROVE  AuthInv'
<1>1. StreamsTyped'
  BY DEF AuthInv, AuthTyped, StreamsTyped
<1> QED BY <1>1, WindowKeeps

LEMMA ShutKeeps ==
  ASSUME AuthInv, Shut, saved' \in BOOLEAN, RequestsTyped', tasks' = tasks
  PROVE  AuthInv'
<1>1. AuthTyped
  BY DEF AuthInv
<1>2. Len(tasks) \in Nat /\ Len(streams') \in Nat
  BY <1>1, ShutForm DEF AuthTyped, TasksTyped, StreamsTyped
<1>3. WindowTyped'
  BY <1>1, <1>2, ShutForm DEF WindowTyped, PageStatuses
<1> QED BY <1>1, <1>3, ShutForm, WindowKeeps

LEMMA SameRequests ==
  ASSUME AuthTyped, requests' = requests, Len(tasks') \in Nat, Len(tasks) <= Len(tasks')
  PROVE  RequestsTyped'
<1>1. Len(tasks) \in Nat
  BY DEF AuthTyped, TasksTyped
<1>2. \A c \in DOMAIN requests :
        HasTask(requests[c], Len(tasks)) => HasTask(requests[c], Len(tasks'))
  BY <1>1 DEF HasTask
<1> QED BY <1>2 DEF AuthTyped, RequestsTyped

LEMMA WindowStepsKeep ==
  ASSUME AuthInv,
         OpenWindow \/ StartAgain \/ Rejoin \/ CloseWindow \/ CloseSaved \/ EndRun \/ Lose
  PROVE  AuthInv'
<1>1. AuthTyped /\ tasks' = tasks /\ Len(tasks) \in Nat /\ tasks \in Seq(Tasks)
  BY DEF AuthInv, AuthTyped, TasksTyped, OpenWindow, StartAgain, Rejoin, CloseWindow, CloseSaved,
         EndRun, Lose, window
<1>2. requests' = requests => RequestsTyped'
  BY <1>1, SameRequests
<1>3. CASE OpenWindow \/ StartAgain
  <2>1. Ask("create") /\ pageStatus' = "starting" /\ streams' = streams
        /\ UNCHANGED <<shown, current, saved>> /\ open' = TRUE
    BY <1>3 DEF OpenWindow, StartAgain, Start, AuthInv, AuthTyped, WindowTyped
  <2>2. RequestsTyped'
    BY <1>1, <2>1, AskForm
  <2>3. WindowTyped'
    BY <1>1, <2>1 DEF AuthTyped, WindowTyped, PageStatuses
  <2> QED BY <1>1, <2>1, <2>2, <2>3, QuietForm
<1>4. CASE Rejoin
  <2>1. shown \in DOMAIN tasks
    BY <1>1, <1>4, Numbers DEF Rejoin, AuthTyped, WindowTyped
  <2>2. Connect(shown) /\ UNCHANGED <<open, shown, pageStatus, saved, requests>>
    BY <1>4 DEF Rejoin
  <2>3. WindowTyped'
    BY <1>1, <2>1, <2>2, ConnectForm DEF AuthTyped, WindowTyped
  <2> QED BY <1>1, <1>2, <2>1, <2>2, <2>3, ConnectForm, WindowKeeps
<1>5. CASE CloseWindow
  BY <1>1, <1>2, <1>5, ShutKeeps DEF CloseWindow, AuthTyped, WindowTyped
<1>6. CASE CloseSaved
  <2>1. saved' = FALSE /\ requests' = requests
    BY <1>6 DEF CloseSaved
  <2>2. CASE open
    BY <1>1, <1>2, <1>6, <2>1, <2>2, ShutKeeps DEF CloseSaved
  <2>3. CASE ~open
    <3>1. UNCHANGED <<open, shown, current, pageStatus, streams>>
      BY <1>6, <2>3 DEF CloseSaved
    <3>2. WindowTyped'
      BY <1>1, <2>1, <3>1 DEF AuthTyped, WindowTyped
    <3> QED BY <1>1, <1>2, <2>1, <3>1, <3>2, QuietForm
  <2> QED BY <2>2, <2>3
<1>7. CASE EndRun
  <2>1. Ask("end") /\ streams' = streams /\ UNCHANGED <<open, shown, current, pageStatus, saved>>
    BY <1>7 DEF EndRun, window
  <2>2. RequestsTyped'
    BY <1>1, <2>1, AskForm
  <2>3. WindowTyped'
    BY <1>1, <2>1 DEF AuthTyped, WindowTyped
  <2> QED BY <1>1, <2>1, <2>2, <2>3, QuietForm
<1>8. CASE Lose
  <2>1. /\ current # 0 /\ streams' = Unlinked(current) /\ requests' = requests
        /\ UNCHANGED <<open, shown, current, pageStatus, saved>>
    BY <1>8 DEF Lose, window
  <2>2. current \in DOMAIN streams
    BY <1>1, <2>1, Numbers DEF AuthTyped, WindowTyped, StreamsTyped
  <2>3. StreamsTyped'
    BY <1>1, <2>1, <2>2, UnlinkedForm DEF AuthTyped, StreamsTyped
  <2>4. WindowTyped'
    BY <1>1, <2>1, <2>2, UnlinkedForm DEF AuthTyped, WindowTyped
  <2> QED BY <1>1, <1>2, <2>1, <2>2, <2>3, <2>4, UnlinkedForm, WindowKeeps
<1> QED BY <1>3, <1>4, <1>5, <1>6, <1>7, <1>8

(* The steps of the requests.                                              *)

LEMMA AnswersKeep ==
  ASSUME AuthInv, NEW c \in DOMAIN requests, Created(c) \/ NotCreated(c) \/ RunEnded(c)
  PROVE  AuthInv'
<1>1. AuthTyped /\ tasks' = tasks /\ Len(tasks) \in Nat /\ tasks \in Seq(Tasks)
  BY DEF AuthInv, AuthTyped, TasksTyped, Created, NotCreated, RunEnded
<1>2. RequestsTyped'
  <2>1. At(c, "done", 0)
    BY DEF Created, NotCreated, RunEnded
  <2>2. 0 \in 0..Len(tasks') /\ Len(tasks') \in Nat /\ Len(tasks) <= Len(tasks')
    BY <1>1
  <2> QED BY <1>1, <2>1, <2>2, AtForm
<1>3. CASE Created(c)
  <2>1. requests[c].of \in DOMAIN tasks
    BY <1>1, <1>3, Numbers DEF Created, AuthTyped, RequestsTyped, HasTask
  <2>2. /\ shown' = requests[c].of /\ Connect(requests[c].of)
        /\ UNCHANGED <<open, pageStatus, saved>>
    BY <1>3 DEF Created
  <2>3. WindowTyped'
    BY <1>1, <2>1, <2>2, ConnectForm, Numbers DEF AuthTyped, WindowTyped
  <2> QED BY <1>1, <1>2, <2>1, <2>2, <2>3, ConnectForm, WindowKeeps
<1>4. CASE NotCreated(c)
  <2>1. pageStatus' = "failed" /\ UNCHANGED <<open, shown, current, saved, streams>>
    BY <1>4 DEF NotCreated
  <2>2. WindowTyped'
    BY <1>1, <2>1 DEF AuthTyped, WindowTyped, PageStatuses
  <2> QED BY <1>1, <1>2, <2>1, <2>2, QuietForm
<1>5. CASE RunEnded(c)
  <2>1. saved' = saved /\ saved \in BOOLEAN
    BY <1>1, <1>5 DEF RunEnded, AuthTyped, WindowTyped
  <2>2. CASE open
    BY <1>1, <1>2, <1>5, <2>1, <2>2, ShutKeeps DEF RunEnded
  <2>3. CASE ~open
    <3>1. UNCHANGED <<open, shown, current, pageStatus, streams>>
      BY <1>5, <2>3 DEF RunEnded
    <3>2. WindowTyped'
      BY <1>1, <2>1, <3>1 DEF AuthTyped, WindowTyped
    <3> QED BY <1>1, <1>2, <3>1, <3>2, QuietForm
  <2> QED BY <2>2, <2>3
<1> QED BY <1>3, <1>4, <1>5

\* What a request does with the tasks, while nothing else changes.
LEMMA TasksKeep ==
  ASSUME AuthInv, UNCHANGED <<window, streams>>, TasksTyped', RequestsTyped',
         Len(tasks) <= Len(tasks'),
         \A t \in DOMAIN tasks : t \in DOMAIN tasks' /\ Quieter(tasks[t], tasks'[t]),
         \A t \in DOMAIN tasks' :
           t \in DOMAIN tasks \/ (tasks'[t].browser # "running" /\ ~tasks'[t].astray)
  PROVE  AuthInv'
<1>1. streams' = streams /\ UNCHANGED <<open, shown, current, pageStatus, saved>>
  BY DEF window
<1>2. Len(tasks) \in Nat /\ Len(tasks') \in Nat
  BY DEF AuthInv, AuthTyped, TasksTyped
<1>3. WindowTyped'
  BY <1>1, <1>2 DEF AuthInv, AuthTyped, WindowTyped
<1>4. StreamsTyped'
  BY <1>1 DEF AuthInv, AuthTyped, StreamsTyped
<1> QED BY <1>1, <1>3, <1>4, OutsideKeeps DEF AuthInv, AuthTyped

\* The least of some tasks is one of them.
LEMMA LeastIsOne ==
  ASSUME NEW some \in SUBSET Nat, some # {}
  PROVE  Min(some) \in some
<1>1. PICK t \in some : \A u \in some : <<u, t>> \notin OpToRel(<, Nat)
  BY NatLessThanWellFounded, WFMin
<1>2. ASSUME NEW u \in some PROVE t <= u
  <2>1. u \in Nat /\ t \in Nat
    OBVIOUS
  <2>2. u < t => <<u, t>> \in OpToRel(<, Nat)
    BY <2>1 DEF OpToRel
  <2>3. ~(u < t)
    BY <1>1, <2>2
  <2> QED BY <2>1, <2>3
<1> QED BY <1>2 DEF Min

\* A task is ended.
LEMMA EndingKeeps ==
  ASSUME AuthInv, NEW t \in DOMAIN tasks, NEW status \in Live \cup Over,
         tasks' = Ending(t, status), RequestsTyped', UNCHANGED <<window, streams>>
  PROVE  AuthInv'
<1>1. AuthTyped /\ Len(tasks) \in Nat
  BY DEF AuthInv, AuthTyped, TasksTyped
<1>2. TasksTyped'
  BY <1>1, Endings DEF AuthTyped, TasksTyped
<1> QED BY <1>1, <1>2, Endings, TasksKeep

\* A task is new.
LEMMA NewKeeps ==
  ASSUME AuthInv, NEW c \in DOMAIN requests, NEW sofar, NewFor(c, sofar),
         UNCHANGED <<window, streams>>,
         sofar \in Seq(Tasks), Len(sofar) = Len(tasks), DOMAIN sofar = DOMAIN tasks,
         \A t \in DOMAIN tasks : Quieter(tasks[t], sofar[t])
  PROVE  AuthInv'
<1>1. AuthTyped /\ Len(tasks) \in Nat
  BY DEF AuthInv, AuthTyped, TasksTyped
<1>2. NewTask \in Tasks /\ NewTask.browser = "none" /\ ~NewTask.astray
  BY DEF NewTask, Tasks, Live
<1>3. tasks' = Append(sofar, NewTask) /\ Len(tasks) < MaxTasks /\ At(c, "answered", Len(tasks'))
  BY DEF NewFor
<1> HIDE DEF NewTask
<1>4. /\ tasks' \in Seq(Tasks) /\ Len(tasks') = Len(tasks) + 1
      /\ \A t \in DOMAIN tasks : t \in DOMAIN tasks' /\ tasks'[t] = sofar[t]
      /\ \A t \in DOMAIN tasks' : t \in DOMAIN tasks \/ tasks'[t] = NewTask
  BY <1>2, <1>3, PutLast
<1>5. TasksTyped'
  BY <1>1, <1>3, <1>4, AuthAssumption DEF TasksTyped
<1>6. RequestsTyped'
  BY <1>1, <1>3, <1>4, AtForm
<1>7. Len(tasks) <= Len(tasks')
  BY <1>1, <1>4
<1> QED BY <1>2, <1>4, <1>5, <1>6, <1>7, TasksKeep

\* A request goes on with a task: it was closed by an await's worth.
LEMMA QuietKeeps ==
  ASSUME AuthInv, NEW t \in DOMAIN tasks, NEW after \in Tasks, Quieter(tasks[t], after),
         tasks' = [tasks EXCEPT ![t] = after], RequestsTyped', UNCHANGED <<window, streams>>
  PROVE  AuthInv'
<1>1. AuthTyped /\ Len(tasks) \in Nat
  BY DEF AuthInv, AuthTyped, TasksTyped
<1>2. /\ tasks' \in Seq(Tasks) /\ Len(tasks') = Len(tasks) /\ DOMAIN tasks' = DOMAIN tasks
      /\ \A u \in DOMAIN tasks : Quieter(tasks[u], tasks'[u])
  BY <1>1, QuietPut
<1>3. TasksTyped'
  BY <1>1, <1>2 DEF AuthTyped, TasksTyped
<1> QED BY <1>1, <1>2, <1>3, TasksKeep

LEMMA CleanKeeps ==
  ASSUME AuthInv, NEW c \in DOMAIN requests, Clean(c)
  PROVE  AuthInv'
<1> DEFINE t == Min(ToClose(c))
<1>1. AuthTyped /\ Len(tasks) \in Nat /\ DOMAIN tasks = 1..Len(tasks)
  BY DEF AuthInv, AuthTyped, TasksTyped
<1>2. t \in DOMAIN tasks
  <2>1. ToClose(c) \in SUBSET Nat /\ ToClose(c) \subseteq DOMAIN tasks /\ ToClose(c) # {}
    BY <1>1 DEF ToClose, Clean
  <2> QED BY <2>1, LeastIsOne
<1>3. PICK status \in Live \cup Over : tasks' = Ending(t, status)
  BY DEF Clean, Live, Over
<1>4. UNCHANGED <<window, streams>>
      /\ At(c, Awaits(t, "closing", "stopping", "sent"), IF Idle(t) THEN 0 ELSE t)
  BY DEF Clean
<1>5. At(c, "closing", t) \/ At(c, "stopping", t) \/ At(c, "sent", 0)
  BY <1>4 DEF Awaits, Idle
<1> HIDE DEF t
<1>6. Len(tasks') = Len(tasks)
  BY <1>1, <1>2, <1>3, Endings
<1>7. RequestsTyped'
  <2>1. t \in 0..Len(tasks') /\ t # 0 /\ 0 \in 0..Len(tasks')
    BY <1>1, <1>2, <1>6
  <2> QED BY <1>1, <1>5, <1>6, <2>1, AtForm
<1> QED BY <1>2, <1>3, <1>4, <1>7, EndingKeeps

\* The task of a request that has one.
LEMMA RequestsTask ==
  ASSUME AuthInv, NEW c \in DOMAIN requests, requests[c].at \in WithTask
  PROVE  /\ AuthTyped /\ Len(tasks) \in Nat /\ requests[c].of \in DOMAIN tasks
         /\ requests[c].of \in 0..Len(tasks) /\ requests[c].of # 0
         /\ tasks[requests[c].of] \in Tasks /\ tasks \in Seq(Tasks)
<1>1. AuthTyped /\ Len(tasks) \in Nat /\ tasks \in Seq(Tasks)
  BY DEF AuthInv, AuthTyped, TasksTyped
<1>2. requests[c].of \in 0..Len(tasks) /\ requests[c].of # 0
  BY <1>1 DEF AuthTyped, RequestsTyped, HasTask
<1>3. requests[c].of \in DOMAIN tasks
  BY <1>1, <1>2, Numbers
<1> QED BY <1>1, <1>2, <1>3

LEMMA CleanedKeeps ==
  ASSUME AuthInv, NEW c \in DOMAIN requests, ContextCleaned(c) \/ Cleaned(c) \/ CloseFails(c)
  PROVE  AuthInv'
<1> DEFINE t == requests[c].of
<1>1. requests[c].at \in WithTask
  BY DEF ContextCleaned, Cleaned, CloseFails, WithTask
<1>2. /\ AuthTyped /\ Len(tasks) \in Nat /\ t \in DOMAIN tasks /\ tasks[t] \in Tasks
      /\ tasks \in Seq(Tasks) /\ t \in 0..Len(tasks) /\ t # 0 /\ 0 \in 0..Len(tasks)
  BY <1>1, RequestsTask
<1>3. PICK after \in {DriverTaken(tasks[t]), DriverStopped(tasks[t]), ContextClosed(tasks[t]),
                      [tasks[t] EXCEPT !.browser = Gone(@)]} :
        tasks' = [tasks EXCEPT ![t] = after]
  BY <1>2 DEF ContextCleaned, Cleaned, CloseFails
<1>4. /\ streams' = streams /\ UNCHANGED <<open, shown, current, saved>>
      /\ pageStatus' \in {pageStatus, "failed"}
      /\ At(c, "stopping", t) \/ At(c, "sent", 0) \/ At(c, "done", 0)
  BY DEF ContextCleaned, Cleaned, CloseFails, window
<1> HIDE DEF t
<1>5. after \in Tasks /\ Quieter(tasks[t], after)
  BY <1>2, ClosedForms
<1>6. /\ tasks' \in Seq(Tasks) /\ Len(tasks') = Len(tasks) /\ DOMAIN tasks' = DOMAIN tasks
      /\ \A u \in DOMAIN tasks : Quieter(tasks[u], tasks'[u])
  BY <1>2, <1>3, <1>5, QuietPut
<1>7. RequestsTyped'
  <2> QED BY <1>2, <1>4, <1>6, AtForm
<1>8. TasksTyped' /\ StreamsTyped'
  BY <1>2, <1>4, <1>6 DEF AuthTyped, TasksTyped, StreamsTyped
<1>9. WindowTyped'
  BY <1>2, <1>4, <1>6 DEF AuthTyped, WindowTyped, PageStatuses
<1>10. AuthTyped'
  BY <1>7, <1>8, <1>9 DEF AuthTyped
<1> QED BY <1>4, <1>6, <1>10, OutsideKeeps DEF AuthInv

LEMMA ReplacedKeeps ==
  ASSUME AuthInv, NEW c \in DOMAIN requests, ContextReplaced(c) \/ Replaced(c)
  PROVE  AuthInv'
<1> DEFINE t == requests[c].of
           closed == [tasks EXCEPT ![t] = ContextClosed(@)]
           stopped == [tasks EXCEPT ![t] = DriverStopped(@)]
<1>1. requests[c].at \in WithTask
  BY DEF ContextReplaced, Replaced, WithTask
<1>2. /\ AuthTyped /\ Len(tasks) \in Nat /\ t \in DOMAIN tasks /\ tasks[t] \in Tasks
      /\ tasks \in Seq(Tasks) /\ t \in 0..Len(tasks) /\ t # 0
  BY <1>1, RequestsTask
<1>3. PICK after \in {DriverTaken(tasks[t]), DriverStopped(tasks[t]), ContextClosed(tasks[t]),
                      [tasks[t] EXCEPT !.browser = Gone(@)]} :
        \/ NewFor(c, [tasks EXCEPT ![t] = after])
        \/ tasks' = [tasks EXCEPT ![t] = after] /\ At(c, "exchanging", t)
  BY <1>2 DEF ContextReplaced, Replaced
<1>4. UNCHANGED <<window, streams>>
  BY DEF ContextReplaced, Replaced
<1> HIDE DEF t
<1>5. after \in Tasks /\ Quieter(tasks[t], after)
  BY <1>2, ClosedForms
<1>6. CASE NewFor(c, [tasks EXCEPT ![t] = after])
  <2> DEFINE sofar == [tasks EXCEPT ![t] = after]
  <2>1. /\ sofar \in Seq(Tasks) /\ Len(sofar) = Len(tasks) /\ DOMAIN sofar = DOMAIN tasks
        /\ \A u \in DOMAIN tasks : Quieter(tasks[u], sofar[u])
    BY <1>2, <1>5, QuietPut
  <2>2. NewFor(c, sofar)
    BY <1>6
  <2> HIDE DEF sofar
  <2> QED BY <1>4, <2>1, <2>2, NewKeeps
<1>7. CASE tasks' = [tasks EXCEPT ![t] = after] /\ At(c, "exchanging", t)
  <2>1. Len(tasks') = Len(tasks)
    BY <1>2, <1>5, <1>7, QuietPut
  <2>2. RequestsTyped'
    BY <1>2, <1>7, <2>1, AtForm
  <2> QED BY <1>2, <1>4, <1>5, <1>7, <2>2, QuietKeeps
<1> QED BY <1>3, <1>6, <1>7

LEMMA CreateKeeps ==
  ASSUME AuthInv, NEW c \in DOMAIN requests, Create(c)
  PROVE  AuthInv'
<1> DEFINE live == {t \in DOMAIN tasks : tasks[t].status \in Live}
           t == Min(live)
<1>1. AuthTyped /\ Len(tasks) \in Nat /\ DOMAIN tasks = 1..Len(tasks) /\ tasks \in Seq(Tasks)
  BY DEF AuthInv, AuthTyped, TasksTyped
<1>2. UNCHANGED <<window, streams>> /\ "cancelled" \in Live \cup Over
  BY DEF Create, Over
<1>3. CASE live = {}
  <2>1. NewFor(c, tasks)
    BY <1>3 DEF Create
  <2> QED BY <1>1, <1>2, <2>1, NewKeeps DEF Quieter
<1>4. CASE live # {}
  <2>1. t \in DOMAIN tasks
    <3>1. live \in SUBSET Nat /\ live \subseteq DOMAIN tasks
      BY <1>1
    <3> HIDE DEF live
    <3> QED BY <1>4, <3>1, LeastIsOne
  <2>2. \/ At(c, "answered", t) /\ tasks' = tasks
        \/ NewFor(c, Ending(t, "cancelled"))
        \/ /\ tasks' = Ending(t, "cancelled")
           /\ At(c, Awaits(t, "replacing", "exchanging", "answered"), t)
    BY <1>4 DEF Create
  <2>3. t \in 0..Len(tasks) /\ t # 0
    BY <1>1, <2>1
  <2> HIDE DEF t
  <2>4. CASE At(c, "answered", t) /\ tasks' = tasks
    <3>1. RequestsTyped'
      BY <1>1, <2>3, <2>4, AtForm
    <3> QED BY <1>1, <1>2, <2>4, <3>1, TasksKeep DEF Quieter, AuthTyped, TasksTyped
  <2>5. CASE NewFor(c, Ending(t, "cancelled"))
    BY <1>1, <1>2, <2>1, <2>5, Endings, NewKeeps
  <2>6. CASE /\ tasks' = Ending(t, "cancelled")
             /\ At(c, Awaits(t, "replacing", "exchanging", "answered"), t)
    <3> DEFINE at == Awaits(t, "replacing", "exchanging", "answered")
    <3>1. Len(tasks') = Len(tasks)
      BY <1>1, <1>2, <2>1, <2>6, Endings
    <3>2. at \in {"replacing", "exchanging", "answered"} /\ At(c, at, t)
      BY <2>6 DEF Awaits
    <3> HIDE DEF at
    <3>3. RequestsTyped'
      BY <1>1, <2>3, <3>1, <3>2, AtForm
    <3> QED BY <1>2, <2>1, <2>6, <3>3, EndingKeeps
  <2> QED BY <2>2, <2>4, <2>5, <2>6
<1> QED BY <1>3, <1>4

LEMMA RequestStepsKeep ==
  ASSUME AuthInv, NEW c \in DOMAIN requests, RequestRuns(c)
  PROVE  AuthInv'
<1>1. CASE Ended(c)
  <2>1. AuthTyped /\ Len(tasks) \in Nat /\ tasks' = tasks /\ UNCHANGED <<window, streams>>
    BY <1>1 DEF AuthInv, AuthTyped, TasksTyped, Ended
  <2>2. RequestsTyped'
    BY <1>1, <2>1, AtForm DEF Ended
  <2> QED BY <2>1, <2>2, TasksKeep DEF Quieter, AuthTyped, TasksTyped
<1> QED BY <1>1, CleanKeeps, CleanedKeeps, CreateKeeps, ReplacedKeeps DEF RequestRuns

(* The steps of the streams.                                               *)

\* One record is replaced.
LEMMA TaskPut ==
  ASSUME AuthTyped, NEW t \in DOMAIN tasks, NEW now \in Tasks, tasks' = [tasks EXCEPT ![t] = now]
  PROVE  /\ tasks' \in Seq(Tasks) /\ Len(tasks') = Len(tasks) /\ DOMAIN tasks' = DOMAIN tasks
         /\ tasks'[t] = now
         /\ \A u \in DOMAIN tasks : u # t => tasks'[u] = tasks[u]
<1>1. tasks \in Seq(Tasks)
  BY DEF AuthTyped, TasksTyped
<1> QED BY <1>1, Put

\* Two updates of one record of a sequence.
LEMMA TwoFields ==
  ASSUME AuthTyped, NEW t \in DOMAIN tasks, NEW status \in Live \cup Over, NEW set \in BOOLEAN,
         tasks' = [tasks EXCEPT ![t].status = status, ![t].ready = set]
  PROVE  /\ tasks' \in Seq(Tasks) /\ Len(tasks') = Len(tasks) /\ DOMAIN tasks' = DOMAIN tasks
         /\ tasks'[t].status = status /\ tasks'[t].ready = set
         /\ tasks'[t].browser = tasks[t].browser
         /\ tasks'[t].broken = tasks[t].broken /\ tasks'[t].astray = tasks[t].astray
         /\ \A u \in DOMAIN tasks : u # t => tasks'[u] = tasks[u]
<1> DEFINE now == [tasks[t] EXCEPT !.status = status, !.ready = set]
<1>1. tasks \in Seq(Tasks) /\ tasks[t] \in Tasks
  BY DEF AuthTyped, TasksTyped
<1>2. /\ now \in Tasks /\ now.status = status /\ now.ready = set
      /\ now.browser = tasks[t].browser
      /\ now.broken = tasks[t].broken /\ now.astray = tasks[t].astray
  BY <1>1 DEF Tasks
<1>3. tasks' = [tasks EXCEPT ![t] = now]
  BY <1>1
<1> HIDE DEF now
<1> QED BY <1>1, <1>2, <1>3, TaskPut

\* The window hears of it, or nothing comes to it.
LEMMA Told ==
  ASSUME AuthTyped, NEW s, NEW told \in PageStatuses,
         UNCHANGED window \/ Tell(s, told),
         Len(tasks') = Len(tasks), Len(streams') = Len(streams)
  PROVE  WindowTyped'
<1>1. WindowTyped
  BY DEF AuthTyped
<1>2. CASE UNCHANGED window
  BY <1>1, <1>2 DEF WindowTyped, window
<1>3. CASE Tell(s, told)
  BY <1>1, <1>3 DEF WindowTyped, Tell
<1> QED BY <1>2, <1>3

\* A step within a task's lock, with the types of what it leaves.
LEMMA StreamKeeps ==
  ASSUME AuthInv, NEW s \in DOMAIN streams, NEW at \in Inside \cup {"done"}, Moves(s, at),
         NEW told \in PageStatuses, UNCHANGED window \/ Tell(s, told), requests' = requests,
         streams[s].at \in Inside \/ Free(streams[s].task),
         tasks' \in Seq(Tasks), Len(tasks') = Len(tasks), DOMAIN tasks' = DOMAIN tasks,
         \A u \in DOMAIN tasks : u # streams[s].task => tasks'[u] = tasks[u],
         Kept(tasks'[streams[s].task]), Works(tasks'[streams[s].task], at),
         at \in Inside \/ Left(tasks'[streams[s].task])
  PROVE  AuthInv'
<1>1. AuthTyped /\ Len(tasks) \in Nat
  BY DEF AuthInv, AuthTyped, TasksTyped
<1>2. /\ streams' \in Seq(Streams) /\ Len(streams') = Len(streams)
      /\ DOMAIN streams' = DOMAIN streams
      /\ streams'[s].task = streams[s].task /\ streams'[s].at = at
      /\ \A r \in DOMAIN streams : r # s => streams'[r] = streams[r]
  BY <1>1, MovesForm
<1>3. TasksTyped' /\ StreamsTyped'
  BY <1>1, <1>2 DEF AuthTyped, TasksTyped, StreamsTyped
<1>4. WindowTyped' /\ RequestsTyped'
  <2>1. RequestsTyped'
    BY <1>1, SameRequests
  <2>2. WindowTyped'
    BY <1>1, <1>2, Told
  <2> QED BY <2>1, <2>2
<1>5. AuthTyped'
  BY <1>3, <1>4 DEF AuthTyped
<1> QED BY <1>2, <1>5, InsideKeeps DEF AuthInv

\* What a stream sees before it acts.
LEMMA StreamForm ==
  ASSUME AuthInv, NEW s \in DOMAIN streams
  PROVE  /\ AuthTyped /\ streams[s].task \in DOMAIN tasks
         /\ tasks[streams[s].task] \in Tasks /\ tasks \in Seq(Tasks)
         /\ streams[s] \in Streams
         /\ Kept(tasks[streams[s].task]) /\ Works(tasks[streams[s].task], streams[s].at)
<1>1. /\ AuthTyped /\ streams[s].task \in DOMAIN tasks
      /\ tasks[streams[s].task] \in Tasks /\ tasks \in Seq(Tasks)
      /\ streams[s] \in Streams
  BY DEF AuthInv, AuthTyped, StreamsTyped, TasksTyped
<1> QED BY <1>1 DEF AuthInv, BrowserParts, TasksKept, StreamsWork

\* The same, when what it leaves of its task is one record.
LEMMA StreamPut ==
  ASSUME AuthInv, NEW s \in DOMAIN streams, NEW at \in Inside \cup {"done"}, Moves(s, at),
         NEW told \in PageStatuses, UNCHANGED window \/ Tell(s, told), requests' = requests,
         streams[s].at \in Inside \/ Free(streams[s].task),
         NEW now \in Tasks, tasks' = [tasks EXCEPT ![streams[s].task] = now],
         Kept(now), Works(now, at), at \in Inside \/ Left(now)
  PROVE  AuthInv'
<1>1. AuthTyped /\ streams[s].task \in DOMAIN tasks
  BY StreamForm
<1>2. /\ tasks' \in Seq(Tasks) /\ Len(tasks') = Len(tasks) /\ DOMAIN tasks' = DOMAIN tasks
      /\ tasks'[streams[s].task] = now
      /\ \A u \in DOMAIN tasks : u # streams[s].task => tasks'[u] = tasks[u]
  BY <1>1, TaskPut
<1> QED BY <1>2, StreamKeeps

\* An exception.
LEMMA FailsKeep ==
  ASSUME AuthInv, NEW s \in DOMAIN streams, streams[s].at \in Inside, Fails(s),
         requests' = requests
  PROVE  AuthInv'
<1> DEFINE t == streams[s].task
           now == [tasks[t] EXCEPT !.status = "failed", !.ready = FALSE]
<1>1. AuthTyped /\ t \in DOMAIN tasks /\ tasks[t] \in Tasks /\ Kept(tasks[t])
  BY StreamForm
<1>2. Moves(s, "failing") /\ Tell(s, "failed") /\ tasks' = [tasks EXCEPT ![t] = now]
  BY <1>1 DEF Fails
<1>3. "failing" \in Inside /\ "failed" \in PageStatuses
  BY DEF Inside, PageStatuses
<1>4. now \in Tasks /\ Kept(now) /\ Works(now, "failing")
  BY <1>1 DEF Tasks, Over, Kept, Works, Shutting
<1> HIDE DEF now
<1> QED BY <1>2, <1>3, <1>4, StreamPut

LEMMA AcceptKeeps ==
  ASSUME AuthInv, NEW s \in DOMAIN streams, NEW at \in {"waiting", "done"},
         streams[s].at \notin Inside, Moves(s, at), UNCHANGED <<window, tasks, requests>>
  PROVE  AuthInv'
<1>1. AuthTyped /\ Len(tasks) \in Nat
  BY DEF AuthInv, AuthTyped, TasksTyped
<1>2. /\ streams' \in Seq(Streams) /\ Len(streams') = Len(streams)
      /\ DOMAIN streams' = DOMAIN streams
      /\ streams'[s].task = streams[s].task /\ streams'[s].at = at
      /\ \A r \in DOMAIN streams : r # s => streams'[r] = streams[r]
  BY <1>1, MovesForm
<1>3. at \notin Inside
  BY DEF Inside
<1>4. StreamsTyped' /\ TasksTyped' /\ RequestsTyped'
  <2>1. RequestsTyped'
    BY <1>1, SameRequests
  <2>2. TasksTyped'
    BY <1>1 DEF AuthTyped, TasksTyped
  <2>3. \A r \in DOMAIN streams : streams'[r].task = streams[r].task
    BY <1>2
  <2>4. StreamsTyped'
    BY <1>1, <1>2, <2>3 DEF AuthTyped, StreamsTyped
  <2> QED BY <2>1, <2>2, <2>4
<1>5. WindowTyped'
  BY <1>1, <1>2 DEF AuthTyped, WindowTyped, window
<1>6. AuthTyped'
  BY <1>4, <1>5 DEF AuthTyped
<1> QED BY <1>2, <1>3, <1>6, OutsideKeeps DEF AuthInv, Quieter

LEMMA EnterKeeps ==
  ASSUME AuthInv, NEW s \in DOMAIN streams, Enter(s)
  PROVE  AuthInv'
<1> DEFINE t == streams[s].task
           now == [tasks[t] EXCEPT !.ready = FALSE, !.profile = TRUE]
<1>1. /\ AuthTyped /\ t \in DOMAIN tasks /\ tasks[t] \in Tasks /\ tasks \in Seq(Tasks)
      /\ Kept(tasks[t])
  BY StreamForm
<1>2. streams[s].at \notin Inside /\ Free(t) /\ requests' = requests
  BY DEF Enter, Inside
<1>3. Left(tasks[t])
  BY <1>1, <1>2 DEF AuthInv, BrowserParts, TasksLeft, Free
<1>4. CASE Moves(s, "done") /\ UNCHANGED <<window, tasks>>
  BY <1>2, <1>4, AcceptKeeps
<1>5. CASE /\ tasks[t].ready /\ tasks[t].browser = "running"
           /\ Moves(s, "serving") /\ Tell(s, "ready") /\ UNCHANGED tasks
  <2>1. "serving" \in Inside /\ "ready" \in PageStatuses
    BY DEF Inside, PageStatuses
  <2>2. Works(tasks[t], "serving")
    BY <1>1, <1>5 DEF Kept, Works, Shutting
  <2> QED BY <1>1, <1>2, <1>5, <2>1, <2>2, StreamKeeps
<1>6. CASE /\ ~(tasks[t].ready /\ tasks[t].browser = "running")
           /\ Moves(s, "starting") /\ Tell(s, "starting")
           /\ tasks' = [tasks EXCEPT ![t].ready = FALSE, ![t].profile = TRUE]
  <2>1. now \in Tasks /\ Kept(now) /\ Works(now, "starting")
    BY <1>1, <1>3, <1>6 DEF Tasks, Kept, Left, Works, Shutting
  <2>2. tasks' = [tasks EXCEPT ![t] = now]
    BY <1>1, <1>6
  <2>3. "starting" \in Inside /\ "starting" \in PageStatuses
    BY DEF Inside, PageStatuses
  <2> HIDE DEF now
  <2> QED BY <1>2, <1>6, <2>1, <2>2, <2>3, StreamPut
<1> QED BY <1>4, <1>5, <1>6 DEF Enter

LEMMA SetUpKeeps ==
  ASSUME AuthInv, NEW s \in DOMAIN streams, Starts(s) \/ Launches(s) \/ Loads(s)
  PROVE  AuthInv'
<1> DEFINE t == streams[s].task
<1>1. /\ AuthTyped /\ t \in DOMAIN tasks /\ tasks[t] \in Tasks /\ tasks \in Seq(Tasks)
      /\ Kept(tasks[t]) /\ Works(tasks[t], streams[s].at)
  BY StreamForm
<1>2. streams[s].at \in Inside /\ requests' = requests
  BY DEF Starts, Launches, Loads, Inside
<1>3. {"launching", "loading", "serving"} \subseteq Inside /\ "ready" \in PageStatuses
  BY DEF Inside, PageStatuses
<1>4. CASE Fails(s)
  BY <1>2, <1>4, FailsKeep
<1>5. CASE Starts(s) /\ ~Fails(s)
  <2> DEFINE now == [tasks[t] EXCEPT !.driver = TRUE]
  <2>1. Moves(s, "launching") /\ UNCHANGED window /\ streams[s].at = "starting"
    BY <1>5 DEF Starts
  <2>2. tasks' = [tasks EXCEPT ![t] = now]
    BY <1>1, <1>5 DEF Starts
  <2>3. now \in Tasks /\ Kept(now) /\ Works(now, "launching")
    BY <1>1, <2>1 DEF Tasks, Kept, Works, Shutting
  <2> HIDE DEF now
  <2> QED BY <1>2, <1>3, <2>1, <2>2, <2>3, StreamPut
<1>6. CASE Launches(s) /\ ~Fails(s)
  <2> DEFINE now == [tasks[t] EXCEPT !.browser = "running", !.astray = @ \/ Reachable(t)]
  <2>1. Moves(s, "loading") /\ UNCHANGED window /\ streams[s].at = "launching"
    BY <1>6 DEF Launches
  <2>2. tasks' = [tasks EXCEPT ![t] = now]
    BY <1>1, <1>6 DEF Launches
  <2>3. Reachable(t) \in BOOLEAN /\ (Reachable(t) => tasks[t].broken) /\ ~tasks[t].ready
    BY <1>1, <2>1 DEF Works, Reachable
  <2>4. /\ now \in Tasks /\ now.browser = "running" /\ ~now.ready
        /\ now.broken = tasks[t].broken
    BY <1>1, <2>3 DEF Tasks
  <2>5. now.astray => tasks[t].astray \/ Reachable(t)
    BY <1>1 DEF Tasks
  <2>6. Kept(now) /\ Works(now, "loading")
    <3> HIDE DEF now
    <3> QED BY <1>1, <2>3, <2>4, <2>5 DEF Kept, Works, Shutting
  <2> HIDE DEF now
  <2> QED BY <1>2, <1>3, <2>1, <2>2, <2>4, <2>6, StreamPut
<1>7. CASE Loads(s) /\ ~Fails(s)
  <2> DEFINE now == [tasks[t] EXCEPT !.status = "active", !.ready = TRUE]
  <2>1. tasks' = [tasks EXCEPT ![t] = now]
    BY <1>1, <1>7 DEF Loads
  <2>2. PICK at \in {"serving", "done"} :
          Moves(s, at) /\ (UNCHANGED window \/ Tell(s, "ready"))
    BY <1>7 DEF Loads
  <2>3. now \in Tasks /\ Kept(now) /\ Left(now) /\ Works(now, at)
    BY <1>1 DEF Tasks, Live, Kept, Left, Works, Shutting
  <2> HIDE DEF now
  <2> QED BY <1>2, <1>3, <2>1, <2>2, <2>3, StreamPut
<1> QED BY <1>4, <1>5, <1>6, <1>7

\* A stream whose task's browser is given up leaves none running.
LEMMA GivenUp ==
  ASSUME NEW task \in Tasks, task.browser # "running", task.astray => task.broken
  PROVE  Kept(task) /\ Left(task) /\ \A at \in Shutting \cup {"done", "failing"} : Works(task, at)
BY DEF Kept, Left, Works, Shutting

LEMMA GivenUpKeeps ==
  ASSUME AuthInv, NEW s \in DOMAIN streams, streams[s].at \in Inside,
         NEW at \in {"closing", "stopping", "storing", "saving", "failing", "done"}, Moves(s, at),
         NEW told \in PageStatuses, UNCHANGED window \/ Tell(s, told), requests' = requests,
         NEW now \in Tasks, now.browser # "running", now.astray => now.broken,
         tasks' = [tasks EXCEPT ![streams[s].task] = now]
  PROVE  AuthInv'
<1>1. at \in Inside \cup {"done"} /\ at \in Shutting \cup {"done", "failing"}
  BY DEF Inside, Shutting
<1>2. Kept(now) /\ Left(now) /\ Works(now, at)
  BY <1>1, GivenUp
<1> QED BY <1>1, <1>2, StreamPut

LEMMA EndingStreams ==
  ASSUME AuthInv, NEW s \in DOMAIN streams, TimesOut(s) \/ Abandon(s)
  PROVE  AuthInv'
<1> DEFINE t == streams[s].task
           at == Awaits(t, "closing", "stopping", "done")
<1>1. AuthTyped /\ t \in DOMAIN tasks /\ tasks[t] \in Tasks /\ Kept(tasks[t])
  BY StreamForm
<1>2. streams[s].at \in Inside /\ UNCHANGED <<window, requests>>
  BY DEF TimesOut, Abandon, Inside
<1>3. tasks[t].status \in Live \cup Over /\ "expired" \in Live \cup Over
  BY <1>1, OfTask DEF Over
<1>4. PICK status \in Live \cup Over : tasks' = Ending(t, status)
  BY <1>3 DEF TimesOut, Abandon
<1>5. at \in {"closing", "stopping", "done"} /\ Moves(s, at)
  BY DEF TimesOut, Abandon, Awaits
<1> HIDE DEF at
<1>6. /\ tasks' \in Seq(Tasks) /\ Len(tasks') = Len(tasks) /\ DOMAIN tasks' = DOMAIN tasks
      /\ tasks'[t].browser # "running" /\ Quieter(tasks[t], tasks'[t])
      /\ \A u \in DOMAIN tasks : u # t => tasks'[u] = tasks[u]
  BY <1>1, <1>4, Endings
<1>7. at \in Inside \cup {"done"} /\ at \in Shutting \cup {"done", "failing"}
  BY <1>5 DEF Inside, Shutting
<1>8. Kept(tasks'[t]) /\ Left(tasks'[t]) /\ Works(tasks'[t], at)
  <2>1. Kept(tasks'[t])
    BY <1>1, <1>6, QuieterKeeps
  <2>2. tasks'[t] \in Tasks
    BY <1>1, <1>6
  <2> QED BY <1>6, <1>7, <2>1, <2>2, GivenUp DEF Kept
<1>9. "idle" \in PageStatuses
  BY DEF PageStatuses
<1> QED BY <1>2, <1>5, <1>6, <1>7, <1>8, <1>9, StreamKeeps

\* What closing leaves of a task whose browser is given up.
LEMMA ClosedTask ==
  ASSUME AuthInv, NEW s \in DOMAIN streams, streams[s].at \in Shutting,
         NEW now \in {DriverTaken(tasks[streams[s].task]), DriverStopped(tasks[streams[s].task]),
                      ContextClosed(tasks[streams[s].task]),
                      [tasks[streams[s].task] EXCEPT !.browser = Gone(@)]}
  PROVE  /\ now \in Tasks /\ now.browser # "running" /\ (now.astray => now.broken)
<1>1. /\ tasks[streams[s].task] \in Tasks /\ Kept(tasks[streams[s].task])
      /\ tasks[streams[s].task].browser # "running"
  BY StreamForm DEF Works
<1>2. /\ now \in Tasks /\ Quieter(tasks[streams[s].task], now) /\ now.browser # "running"
  BY <1>1, ClosedForms
<1> QED BY <1>1, <1>2 DEF Quieter, Kept

LEMMA ClosingKeeps ==
  ASSUME AuthInv, NEW s \in DOMAIN streams, Closes(s) \/ Closed(s)
  PROVE  AuthInv'
<1> DEFINE t == streams[s].task
<1>1. AuthTyped /\ t \in DOMAIN tasks
  BY StreamForm
<1>2. /\ streams[s].at \in Inside /\ streams[s].at \in Shutting /\ "idle" \in PageStatuses
      /\ UNCHANGED <<window, requests>>
  BY DEF Closes, Closed, Inside, Shutting, PageStatuses
<1>3. PICK at \in {"done", "stopping"} : Moves(s, at)
  BY DEF Closes, Closed
<1>4. PICK now \in {DriverStopped(tasks[t]), ContextClosed(tasks[t])} :
        tasks' = [tasks EXCEPT ![t] = now]
  BY <1>1 DEF Closes, Closed
<1>5. now \in Tasks /\ now.browser # "running" /\ (now.astray => now.broken)
  BY <1>2, <1>4, ClosedTask
<1> QED BY <1>2, <1>3, <1>4, <1>5, GivenUpKeeps

LEMMA ClosingFailsKeeps ==
  ASSUME AuthInv, NEW s \in DOMAIN streams, ClosingFails(s)
  PROVE  AuthInv'
<1> DEFINE t == streams[s].task
           gone == [tasks[t] EXCEPT !.browser = Gone(@)]
           now == [gone EXCEPT !.status = "failed"]
<1>1. AuthTyped /\ t \in DOMAIN tasks
  BY StreamForm
<1>2. /\ streams[s].at \in Inside /\ streams[s].at \in Shutting /\ "failed" \in PageStatuses
      /\ requests' = requests
  BY DEF ClosingFails, Inside, Shutting, PageStatuses
<1>3. PICK at \in {"done", "failing"} : Moves(s, at) /\ (UNCHANGED window \/ Tell(s, "failed"))
  BY DEF ClosingFails
<1>4. gone \in Tasks /\ gone.browser # "running" /\ (gone.astray => gone.broken)
  BY <1>2, ClosedTask
<1>5. tasks' = [tasks EXCEPT ![t] = now]
  <2>1. [tasks[t] EXCEPT !.browser = Gone(@), !.status = "failed"] = now
    OBVIOUS
  <2> QED BY <2>1 DEF ClosingFails
<1> HIDE DEF gone
<1>6. now \in Tasks /\ now.browser # "running" /\ (now.astray => now.broken)
  BY <1>4 DEF Tasks, Over
<1> HIDE DEF now
<1> QED BY <1>2, <1>3, <1>5, <1>6, GivenUpKeeps

\* A stream at work is that of an active task, as long as the browser runs.
LEMMA StopsKeeps ==
  ASSUME AuthInv, NEW s \in DOMAIN streams, Stops(s)
  PROVE  AuthInv'
<1> DEFINE t == streams[s].task
           now == [streams[s] EXCEPT !.at = "done", !.linked = FALSE]
<1>1. AuthTyped /\ t \in DOMAIN tasks /\ streams[s] \in Streams /\ streams \in Seq(Streams)
  BY StreamForm DEF AuthTyped, StreamsTyped
<1>2. /\ streams' = [streams EXCEPT ![s] = now]
      /\ streams[s].at = "serving" /\ UNCHANGED <<window, tasks, requests>>
  BY <1>1 DEF Stops
<1>3. now \in Streams /\ now.task = t /\ now.at = "done"
  BY <1>1 DEF Streams
<1> HIDE DEF now
<1>4. /\ streams' \in Seq(Streams) /\ Len(streams') = Len(streams)
      /\ DOMAIN streams' = DOMAIN streams
      /\ streams'[s].task = t /\ streams'[s].at = "done"
      /\ \A r \in DOMAIN streams : r # s => streams'[r] = streams[r]
  BY <1>1, <1>2, <1>3, Put
<1>5. StreamsTyped' /\ TasksTyped' /\ RequestsTyped'
  <2>1. Len(tasks) \in Nat
    BY <1>1 DEF AuthTyped, TasksTyped
  <2> QED BY <1>1, <1>2, <1>4, <2>1, SameRequests DEF AuthTyped, TasksTyped, StreamsTyped
<1>6. WindowTyped'
  BY <1>1, <1>2, <1>4 DEF AuthTyped, WindowTyped, window
<1>7. AuthTyped'
  BY <1>5, <1>6 DEF AuthTyped
<1>8. Kept(tasks[t]) /\ Works(tasks[t], "serving")
  BY <1>2, StreamForm
<1>9. Left(tasks[t])
  BY <1>8 DEF Works, Left
<1>10. Works(tasks[t], "done") /\ "serving" \in Inside /\ tasks' = tasks
  BY <1>2 DEF Inside, Works, Shutting
<1> QED BY <1>1, <1>2, <1>4, <1>7, <1>8, <1>9, <1>10, InsideKeeps DEF AuthInv

LEMMA FinishKeeps ==
  ASSUME AuthInv, NEW s \in DOMAIN streams, Finish(s)
  PROVE  AuthInv'
<1> DEFINE t == streams[s].task
           now == [tasks[t] EXCEPT !.ready = FALSE, !.broken = @ \/ ~streams[s].linked]
<1>1. /\ AuthTyped /\ t \in DOMAIN tasks /\ tasks[t] \in Tasks /\ tasks \in Seq(Tasks)
      /\ Kept(tasks[t]) /\ streams[s].linked \in BOOLEAN
  BY StreamForm DEF Streams
<1>2. /\ streams[s].at = "serving" /\ tasks[t].status = "active" /\ requests' = requests
      /\ tasks' = [tasks EXCEPT ![t] = now]
  BY <1>1 DEF Finish
<1>3. PICK at \in {"exporting", "done"} :
        /\ Moves(s, at) /\ (UNCHANGED window \/ Tell(s, "validating"))
        /\ at = "done" => ~streams[s].linked
  BY DEF Finish
<1>4. now \in Tasks /\ now.status = "active" /\ ~now.ready
  BY <1>1, <1>2 DEF Tasks
<1>5. /\ tasks[t].broken \/ ~streams[s].linked <=> now.broken
      /\ now.astray = tasks[t].astray
  BY <1>1 DEF Tasks
<1>6. {"serving", "exporting"} \subseteq Inside /\ "validating" \in PageStatuses
  BY DEF Inside, PageStatuses
<1> HIDE DEF now
<1>7. Kept(now) /\ Works(now, at) /\ (at = "done" => Left(now))
  BY <1>1, <1>3, <1>4, <1>5 DEF Kept, Works, Left, Shutting
<1> QED BY <1>2, <1>3, <1>4, <1>6, <1>7, StreamPut

LEMMA ExportsKeeps ==
  ASSUME AuthInv, NEW s \in DOMAIN streams, Exports(s)
  PROVE  AuthInv'
<1> DEFINE t == streams[s].task
           closing == [tasks[t] EXCEPT !.browser = "closing"]
           again == [tasks[t] EXCEPT !.ready = TRUE]
<1>1. /\ AuthTyped /\ t \in DOMAIN tasks /\ tasks[t] \in Tasks /\ tasks \in Seq(Tasks)
      /\ Kept(tasks[t]) /\ Works(tasks[t], streams[s].at)
  BY StreamForm
<1>2. streams[s].at = "exporting" /\ requests' = requests
  BY DEF Exports
<1>3. /\ {"exporting", "saving", "serving"} \subseteq Inside
      /\ {"ready", "idle"} \subseteq PageStatuses
  BY DEF Inside, PageStatuses
<1>4. /\ closing \in Tasks /\ closing.browser = "closing" /\ (closing.astray => closing.broken)
  BY <1>1 DEF Tasks, Kept
<1>5. again \in Tasks /\ Kept(again) /\ Works(again, "serving")
  BY <1>1, <1>2 DEF Tasks, Kept, Works, Shutting
<1>6. \/ tasks' = [tasks EXCEPT ![t] = closing] /\ Moves(s, "saving") /\ UNCHANGED window
      \/ tasks' = [tasks EXCEPT ![t] = again] /\ Moves(s, "serving") /\ Tell(s, "ready")
      \/ Fails(s)
  BY <1>1 DEF Exports
<1> HIDE DEF closing, again
<1>7. CASE tasks' = [tasks EXCEPT ![t] = closing] /\ Moves(s, "saving") /\ UNCHANGED window
  BY <1>2, <1>3, <1>4, <1>7, GivenUpKeeps
<1>8. CASE tasks' = [tasks EXCEPT ![t] = again] /\ Moves(s, "serving") /\ Tell(s, "ready")
  BY <1>2, <1>3, <1>5, <1>8, StreamPut
<1> QED BY <1>2, <1>3, <1>6, <1>7, <1>8, FailsKeep

LEMMA KeepsOrNotKeeps ==
  ASSUME AuthInv, NEW s \in DOMAIN streams, streams[s].at \in Inside, requests' = requests,
         NEW closed \in Tasks, closed.browser # "running", closed.astray => closed.broken,
         KeepsOrNot(s, closed)
  PROVE  AuthInv'
<1> DEFINE t == streams[s].task
           good == [closed EXCEPT !.status = "completed", !.profile = FALSE]
           bad == [closed EXCEPT !.status = "failed"]
<1>1. Moves(s, "done") /\ {"completed", "failed"} \subseteq PageStatuses
  BY DEF KeepsOrNot, PageStatuses
<1>2. \/ tasks' = [tasks EXCEPT ![t] = good] /\ Tell(s, "completed")
      \/ tasks' = [tasks EXCEPT ![t] = bad] /\ Tell(s, "failed")
  BY DEF KeepsOrNot
<1>3. good \in Tasks /\ good.browser # "running" /\ (good.astray => good.broken)
  BY DEF Tasks, Over
<1>4. bad \in Tasks /\ bad.browser # "running" /\ (bad.astray => bad.broken)
  BY DEF Tasks, Over
<1> HIDE DEF good, bad
<1> QED BY <1>1, <1>2, <1>3, <1>4, GivenUpKeeps

LEMMA SavesKeeps ==
  ASSUME AuthInv, NEW s \in DOMAIN streams, Saves(s) \/ Keeps(s)
  PROVE  AuthInv'
<1> DEFINE t == streams[s].task
           gone == [tasks[t] EXCEPT !.browser = Gone(@)]
<1>1. AuthTyped /\ t \in DOMAIN tasks /\ tasks[t] \in Tasks
  BY StreamForm
<1>2. streams[s].at \in Inside /\ streams[s].at \in Shutting /\ requests' = requests
  BY DEF Saves, Keeps, Inside, Shutting
<1>3. gone \in Tasks /\ gone.browser # "running" /\ (gone.astray => gone.broken)
  BY <1>2, ClosedTask
<1>4. \/ KeepsOrNot(s, gone)
      \/ /\ Moves(s, "storing") /\ UNCHANGED window
         /\ tasks' = [tasks EXCEPT ![t] = DriverTaken(gone)]
  BY DEF Saves, Keeps
<1> HIDE DEF gone
<1>5. CASE KeepsOrNot(s, gone)
  BY <1>2, <1>3, <1>5, KeepsOrNotKeeps
<1>6. CASE /\ Moves(s, "storing") /\ UNCHANGED window
           /\ tasks' = [tasks EXCEPT ![t] = DriverTaken(gone)]
  <2> DEFINE now == DriverTaken(gone)
  <2>1. now \in Tasks /\ now.browser # "running" /\ (now.astray => now.broken)
    <3>1. now \in Tasks /\ Quieter(gone, now) /\ now.browser # "running"
      BY <1>3, ClosedForms
    <3> HIDE DEF now
    <3> QED BY <1>3, <3>1 DEF Quieter
  <2>2. "idle" \in PageStatuses /\ tasks' = [tasks EXCEPT ![t] = now]
    BY <1>6 DEF PageStatuses
  <2> HIDE DEF now
  <2> QED BY <1>2, <1>6, <2>1, <2>2, GivenUpKeeps
<1> QED BY <1>4, <1>5, <1>6

LEMMA StreamStepsKeep ==
  ASSUME AuthInv, NEW s \in DOMAIN streams,
         Frame(s) \/ ServeFails(s) \/ Finish(s) \/ StreamRuns(s)
  PROVE  AuthInv'
<1>1. CASE Accept(s)
  <2>1. PICK at \in {"waiting", "done"} : Moves(s, at)
    BY <1>1 DEF Accept
  <2> QED BY <1>1, <2>1, AcceptKeeps DEF Accept, Inside
<1>2. CASE Frame(s)
  <2>1. PICK told \in PageStatuses : Tell(s, told)
    BY <1>2 DEF Frame, PageStatuses
  <2>2. AuthTyped /\ UNCHANGED <<tasks, requests, streams>> /\ Len(tasks) \in Nat
    BY <1>2 DEF Frame, AuthInv, AuthTyped, TasksTyped
  <2>3. WindowTyped' /\ RequestsTyped'
    BY <2>1, <2>2, Told, SameRequests
  <2> QED BY <2>2, <2>3, QuietForm
<1>3. CASE ServeFails(s)
  BY <1>3, FailsKeep DEF ServeFails, Inside
<1> QED BY <1>1, <1>2, <1>3, EnterKeeps, SetUpKeeps, StopsKeeps, FinishKeeps, ExportsKeeps,
           EndingStreams, ClosingKeeps, ClosingFailsKeeps, SavesKeeps DEF StreamRuns

LEMMA ExpireKeeps ==
  ASSUME AuthInv, NEW t \in DOMAIN tasks, Expire(t)
  PROVE  AuthInv'
<1> DEFINE now == [tasks[t] EXCEPT !.expired = TRUE]
<1>1. AuthTyped /\ tasks[t] \in Tasks /\ tasks \in Seq(Tasks) /\ Len(tasks) \in Nat
  BY DEF AuthInv, AuthTyped, TasksTyped
<1>2. now \in Tasks /\ Quieter(tasks[t], now)
  BY <1>1 DEF Tasks, Quieter
<1>3. tasks' = [tasks EXCEPT ![t] = now] /\ UNCHANGED <<window, requests, streams>>
  BY <1>1 DEF Expire
<1> HIDE DEF now
<1>4. /\ tasks' \in Seq(Tasks) /\ Len(tasks') = Len(tasks) /\ DOMAIN tasks' = DOMAIN tasks
      /\ \A u \in DOMAIN tasks : Quieter(tasks[u], tasks'[u])
  BY <1>1, <1>2, <1>3, TaskPut DEF Quieter
<1>5. TasksTyped' /\ RequestsTyped'
  BY <1>1, <1>3, <1>4, SameRequests DEF AuthTyped, TasksTyped
<1> QED BY <1>1, <1>3, <1>4, <1>5, TasksKeep

LEMMA AuthKeeps == AuthInv /\ [AuthNext]_authVars => AuthInv'
<1> SUFFICES ASSUME AuthInv, [AuthNext]_authVars PROVE AuthInv'
  OBVIOUS
<1>1. CASE UNCHANGED authVars
  <2>1. /\ UNCHANGED <<open, shown, current, pageStatus, saved, tasks, requests, streams>>
    BY <1>1 DEF authVars, window
  <2> QED BY <2>1 DEF AuthInv, AuthTyped, WindowTyped, TasksTyped, RequestsTyped, HasTask,
                      StreamsTyped, BrowserParts, OneInside, StreamsWork, TasksKept, TasksLeft
<1> QED BY <1>1, WindowStepsKeep, AnswersKeep, RequestStepsKeep, StreamStepsKeep, ExpireKeeps
        DEF AuthNext

LEMMA AuthInits == AuthInit => AuthInv
<1> SUFFICES ASSUME AuthInit PROVE AuthInv
  OBVIOUS
<1>1. /\ tasks = <<>> /\ requests = <<>> /\ streams = <<>>
      /\ open = FALSE /\ shown = 0 /\ current = 0 /\ pageStatus = "idle" /\ saved = FALSE
  BY DEF AuthInit
<1>2. /\ tasks \in Seq(Tasks) /\ requests \in Seq(Requests) /\ streams \in Seq(Streams)
      /\ Len(tasks) = 0 /\ Len(requests) = 0 /\ Len(streams) = 0
      /\ DOMAIN tasks = {} /\ DOMAIN requests = {} /\ DOMAIN streams = {}
  BY <1>1
<1>3. AuthTyped
  <2>1. WindowTyped
    <3>1. 0 \in 0..Len(tasks) /\ 0 \in 0..Len(streams)
      BY <1>2
    <3>2. "idle" \in PageStatuses
      BY DEF PageStatuses
    <3> QED BY <1>1, <3>1, <3>2 DEF WindowTyped
  <2>2. TasksTyped /\ StreamsTyped /\ RequestsTyped
    BY <1>2, AuthAssumption DEF TasksTyped, StreamsTyped, RequestsTyped
  <2> QED BY <2>1, <2>2 DEF AuthTyped
<1>4. BrowserParts
  BY <1>2 DEF BrowserParts, OneInside, StreamsWork, TasksKept, TasksLeft
<1> QED BY <1>3, <1>4 DEF AuthInv

-----------------------------------------------------------------------------
(* The console as a whole.                                                 *)

\* The pages that share the answers, one of which is shown.
AnswersInv == EventsInv /\ ReaderInv /\ FormInv

LEMMA AnswersInit == ConsoleInit => AnswersInv
<1> SUFFICES ASSUME ConsoleInit PROVE AnswersInv
  OBVIOUS
<1>1. EventsInv
  <2>1. EventsInit(IF page = "forms" THEN {Form} ELSE {})
    BY DEF ConsoleInit
  <2>2. (IF page = "forms" THEN {Form} ELSE {}) \in SUBSET Queries
    BY FormAssumption
  <2> QED BY <2>1, <2>2, EventsInits
<1> QED BY <1>1, ReaderInits, FormInits DEF AnswersInv, ConsoleInit

LEMMA AnswersStay == AnswersInv /\ [ConsoleNext]_console => AnswersInv'
<1> SUFFICES ASSUME AnswersInv, [ConsoleNext]_console PROVE AnswersInv'
  OBVIOUS
<1>1. EventsInv /\ ReaderInv /\ FormInv /\ page' = page
  BY StepsOfPages DEF AnswersInv
<1>2. Form \in Queries \ Posts
  BY FormAssumption, AnswersApart
<1>3. ASSUME UNCHANGED reader PROVE ReaderInv'
  BY <1>1, <1>3 DEF reader, ReaderInv, SentAsShown
<1>4. CASE UNCHANGED <<events, form, reader>>
  <2>1. EventsInv' /\ server' = server /\ cache' = cache
    BY <1>1, <1>4, EventsStay
  <2> QED BY <1>1, <1>3, <1>4, <2>1, FormStays DEF AnswersInv
<1>5. CASE EventsNext /\ UNCHANGED <<form, reader>>
  <2>1. EventsInv' /\ server' = server /\ cache' = cache
    BY <1>1, <1>5, EventsKeep
  <2> QED BY <1>1, <1>3, <1>5, <2>1, FormStays DEF AnswersInv
<1>6. CASE page = "forms" /\ FormNext /\ UNCHANGED reader
  BY <1>1, <1>3, <1>6, FormKeeps DEF AnswersInv
<1>7. CASE page = "posts" /\ ReaderNext /\ UNCHANGED form
  <2>1. EventsInv' /\ ReaderInv' /\ server'[Form] = server[Form]
    BY <1>1, <1>2, <1>7, ReaderKeeps DEF PostsOnly
  <2> QED BY <1>1, <1>7, <2>1, FormStays DEF AnswersInv
<1> QED BY <1>4, <1>5, <1>6, <1>7, StepsOfPages

LEMMA AuthTypes == AuthTyped => AuthTypeOK
<1> SUFFICES ASSUME AuthTyped PROVE AuthTypeOK
  OBVIOUS
<1>1. \A t \in DOMAIN tasks : tasks[t] \in Tasks
  BY DEF AuthTyped, TasksTyped
<1>2. \A c \in DOMAIN requests : requests[c] \in Requests /\ requests[c].of \in 0..Len(tasks)
  BY DEF AuthTyped, RequestsTyped, HasTask
<1>3. \A s \in DOMAIN streams : streams[s] \in Streams /\ streams[s].task \in DOMAIN tasks
  BY DEF AuthTyped, StreamsTyped
<1>4. \A t \in DOMAIN tasks : /\ tasks[t].status \in Live \cup Over
                              /\ tasks[t].browser \in {"none", "running", "closing"}
  BY <1>1 DEF Tasks
<1>5. \A c \in DOMAIN requests :
         /\ requests[c].kind \in {"create", "end"} /\ requests[c].of \in 0..Len(tasks)
         /\ requests[c].at \in {"sent", "closing", "stopping", "replacing", "exchanging",
                               "answered", "done"}
  BY <1>2 DEF Requests
<1>6. \A s \in DOMAIN streams :
         /\ streams[s].task \in DOMAIN tasks
         /\ streams[s].at \in {"sent", "waiting", "starting", "launching", "loading", "serving",
                               "exporting", "saving", "storing", "failing", "closing",
                               "stopping", "done"}
  BY <1>3 DEF Streams, Inside
<1> QED BY <1>4, <1>5, <1>6
        DEF AuthTyped, WindowTyped, TasksTyped, RequestsTyped, StreamsTyped, AuthTypeOK

\* Each page's variables keep their types, and the parts of the console what
\* their properties rest on.
THEOREM ConsoleInvariant == ConsoleSpec => [](AnswersInv /\ SheetInv /\ AuthInv)
<1>1. ConsoleInit => AnswersInv /\ SheetInv /\ AuthInv
  BY AnswersInit, SheetInits, AuthInits DEF ConsoleInit
<1>2. AnswersInv /\ SheetInv /\ AuthInv /\ [ConsoleNext]_console
        => (AnswersInv /\ SheetInv /\ AuthInv)'
  BY StepsOfPages, AnswersStay, SheetKeeps, AuthKeeps
<1> QED BY <1>1, <1>2, PTL DEF ConsoleSpec

\* All pages: the variables keep their types.
THEOREM ConsoleTyped == ConsoleSpec => []TypesOK
<1>1. AnswersInv /\ SheetInv /\ AuthInv => TypesOK
  BY EventsTyped, FormTypes, ReaderTyped, AuthTypes DEF AnswersInv, SheetInv, AuthInv, TypesOK
<1> QED BY <1>1, ConsoleInvariant, PTL

\* usePlanWorkspace, SentimentAccountEditor, the panels and the vehicle's window:
\* what was typed and is neither saved nor given up stays in the form, in every
\* order of saves, refusals, lost and late answers, reloads and others' changes;
\* only what was typed while the answer of a save, a restored rule or a reload was
\* on its way is replaced by that answer.
THEOREM DraftsStay == ConsoleSpec => DraftsAreTheUsers
<1>1. AnswersInv /\ SheetInv /\ AuthInv /\ [ConsoleNext]_console
        => [\A s \in Sections : Vanishes(s) => TypedDuringSave(s) \/ TypedDuringRestore(s)
                                             \/ TypedDuringReload]_form
  <2> SUFFICES ASSUME AnswersInv, [ConsoleNext]_console, form' # form, NEW s \in Sections,
                      Vanishes(s)
               PROVE  TypedDuringSave(s) \/ TypedDuringRestore(s) \/ TypedDuringReload
    OBVIOUS
  <2>1. page = "forms" /\ FormNext
    BY StepsOfPages
  <2> QED BY <2>1, FormLeaves DEF AnswersInv, Excused
<1> QED BY <1>1, ConsoleInvariant, PTL DEF ConsoleSpec, DraftsAreTheUsers

\* ManualSentimentDialog: a verdict is sent for the post and the content that its
\* fields were filled for, whatever the sheet has shown meanwhile.
THEOREM VerdictsAsShown == ConsoleSpec => []SentAsShown
<1>1. AnswersInv => SentAsShown
  BY DEF AnswersInv, ReaderInv
<1> QED BY <1>1, ConsoleInvariant, PTL

\* NewExtractionSheet: a run is started on the platform that what was put in is
\* of, in every history of the sheet.
THEOREM RunsOfTheirPlatform == ConsoleSpec => []StartedForItsPlatform
<1>1. SheetInv => StartedForItsPlatform
  BY DEF SheetInv
<1> QED BY <1>1, ConsoleInvariant, PTL

\* What is sent from the two pages is what was meant.
THEOREM SendingIsMeant == ConsoleSpec => []SentAsMeant
<1>1. SentAsShown /\ StartedForItsPlatform => SentAsMeant
  BY DEF SentAsMeant
<1> QED BY <1>1, VerdictsAsShown, RunsOfTheirPlatform, PTL

\* LocalAuthManager: whichever requests, sockets and failures there are, and
\* however they overlap, a browser that runs is that of an active task or some
\* stream inside its lock is still to deal with it; and a task loses a browser that
\* runs for another only after a saving that found its connection broken.
THEOREM NoBrowserLeft == ConsoleSpec => []BrowsersAccounted
<1> QED BY Accounts, ConsoleInvariant, PTL

-----------------------------------------------------------------------------
(* What a save overwrites.                                                 *)

\* A form is filled from what the page holds, unless that has gone back.
NotAhead == ~misled => draft.revision <= cache[Form]

OnNewest(revision) == ~misled /\ revision = server[Form]

\* What is edited in a form that is on the newest revision is edited from that.
EditsSeen ==
  Locked /\ OnNewest(draft.revision) =>
    \A s \in Sections : Dirty(s) => basis[s] = Newest[s]

\* A vehicle's window shows what it was opened on.
WindowSeen == dialog = "vehicle" => basis = versions[draft.revision]

\* A save the server is going to accept sends what is there, or changes what was seen.
SentSeen ==
  save.stage \in {"sent", "checked"} /\ Checked /\ OnNewest(save.revision) /\ ~WindowOutdated =>
    \A s \in Sections : \/ save.of[s] = Newest[s]
                        \/ s \in save.meant /\ basis[s] = Newest[s]

\* What stays in a plan beside a save was edited from what is stored then.
Saving == \/ save.stage \in {"sent", "checked"} /\ OnNewest(save.revision)
          \/ save.stage = "accepted" /\ OnNewest(save.version) /\ save.own
OthersSeen ==
  kind = "plan" /\ Saving =>
    \A s \in Sections \ save.meant : Dirty(s) => basis[s] = Newest[s]

\* The revision of a save that was checked is that of the newest version then.
CheckedSeen == save.stage = "checked" /\ Checked => revisions[save.revision] = revisions[save.read]

Seen == NotAhead /\ EditsSeen /\ WindowSeen /\ SentSeen /\ OthersSeen /\ CheckedSeen
SeenInv == page = "forms" => Seen

LEMMA SeenInits == ConsoleInit /\ EventsInv => SeenInv
<1> SUFFICES ASSUME ConsoleInit, EventsInv, page = "forms" PROVE Seen
  BY DEF SeenInv
<1>1. /\ versions = <<Nothing>> /\ draft = [revision |-> 1, of |-> Nothing]
      /\ save = NoSave /\ dialog = "none"
  BY DEF ConsoleInit, FormInit
<1>2. server[Form] = 1 /\ cache[Form] = 1
  BY FormAssumption DEF ConsoleInit, EventsInit
<1>3. \A s \in Sections : ~Dirty(s)
  BY <1>1, <1>2 DEF Dirty, Shown, Nothing
<1>4. save.stage = "none"
  BY <1>1 DEF NoSave
<1> QED BY <1>1, <1>2, <1>3, <1>4
        DEF Seen, NotAhead, EditsSeen, WindowSeen, SentSeen, OthersSeen, Saving, CheckedSeen

LEMMA SeenFacts ==
  ASSUME EventsInv, FormInv, Seen, page = "forms"
  PROVE  /\ server[Form] \in Nat /\ cache[Form] \in 1..server[Form] /\ Form \in Queries
         /\ draft \in Drafts /\ draft.revision \in 1..server[Form] /\ draft.of \in Contents
         /\ Len(versions) = server[Form] /\ DOMAIN versions = 1..server[Form]
         /\ versions \in Seq(Contents) /\ basis \in Contents /\ Newest = versions[server[Form]]
         /\ kind \in Kinds /\ Shown \in Contents /\ Newest \in Contents
         /\ DOMAIN revisions = 1..server[Form]
         /\ save.stage \in {"sent", "checked"} =>
              /\ save.revision \in 1..server[Form] /\ save.meant \subseteq Sections
              /\ save.of \in Contents
         /\ save.stage = "checked" => save.read \in 1..server[Form]
         /\ save.stage = "accepted" =>
              save.version \in 1..server[Form] /\ save.meant \subseteq Sections
         /\ restore.stage = "done" => restore.version \in 1..server[Form] /\ kind = "plan"
         /\ dialog = "vehicle" => kind = "vehicle"
         /\ dialog = "reload" => kind = "plan"
         /\ OnNewest(draft.revision) => cache[Form] = server[Form] /\ Shown = Newest
<1>1. /\ FormTyped /\ server[Form] \in Nat /\ cache[Form] \in 1..server[Form]
      /\ DOMAIN versions = 1..server[Form] /\ Shown \in Contents /\ Newest \in Contents
      /\ DOMAIN revisions = 1..server[Form]
      /\ draft.of \in Contents /\ draft.revision \in 1..server[Form] /\ Form \in Queries
  BY FormFacts, FormAssumption
<1>2. /\ save.stage \in {"sent", "checked"} =>
              /\ save.revision \in 1..server[Form] /\ save.meant \subseteq Sections
              /\ save.of \in Contents
      /\ save.stage = "checked" => save.read \in 1..server[Form]
      /\ save.stage = "accepted" =>
           save.version \in 1..server[Form] /\ save.meant \subseteq Sections
  BY <1>1, StageForms DEF SavesSent, SavesChecked, SavesAccepted
<1>3. restore.stage = "done" => restore.version \in 1..server[Form] /\ kind = "plan"
  BY <1>1, StageForms DEF RestoresDone, FormInv, FormParts, DialogsByKind, NoRestore
<1>4. Newest = versions[server[Form]]
  BY <1>1 DEF Newest, FormTyped
<1>5. OnNewest(draft.revision) => cache[Form] = server[Form]
  BY <1>1 DEF Seen, NotAhead, OnNewest
<1>6. /\ dialog = "vehicle" => kind = "vehicle"
      /\ dialog = "reload" => kind = "plan"
  BY DEF FormInv, FormParts, DialogsByKind
<1> QED BY <1>1, <1>2, <1>3, <1>4, <1>5, <1>6 DEF FormTyped, Shown

\* The form stays as it is; a window may be closed, a save may end.
LEMMA FormSame ==
  ASSUME Seen, server'[Form] = server[Form], cache'[Form] = cache[Form],
         UNCHANGED <<kind, stored, draft, basis, misled>>,
         dialog' = dialog \/ dialog' # "vehicle",
         save' = save \/ save'.stage \notin {"sent", "checked", "accepted"}
  PROVE  Seen'
<1>1. /\ \A s : Dirty(s)' <=> Dirty(s)
      /\ Newest' = Newest
  BY DEF Dirty, Shown, Newest, stored
<1>2. \A r : OnNewest(r)' <=> OnNewest(r)
  BY DEF OnNewest
<1>3. NotAhead' /\ EditsSeen' /\ WindowSeen'
  BY <1>1, <1>2 DEF Seen, NotAhead, EditsSeen, WindowSeen, Locked, OnNewest, stored
<1>4. SentSeen' /\ OthersSeen'
  BY <1>1, <1>2 DEF Seen, SentSeen, OthersSeen, Saving, WindowOutdated, Checked, OnNewest
<1>5. CheckedSeen'
  BY DEF Seen, CheckedSeen, Checked, stored
<1> QED BY <1>3, <1>4, <1>5 DEF Seen

\* What was checked stays so while no other save is.
LEMMA CheckedStays ==
  ASSUME Seen, kind' = kind, revisions' = revisions, save' = save \/ save'.stage # "checked"
  PROVE  CheckedSeen'
BY DEF Seen, CheckedSeen, Checked

\* No save is under way.
LEMMA NoneSaved ==
  ASSUME save'.stage \notin {"sent", "checked", "accepted"}
  PROVE  SentSeen' /\ OthersSeen' /\ CheckedSeen'
BY DEF SentSeen, OthersSeen, Saving, CheckedSeen

\* The form is filled from scratch.
LEMMA FilledAnew ==
  ASSUME NEW v, draft' = [revision |-> v, of |-> versions[v]], versions' = versions,
         cache'[Form] = v, v \in Nat
  PROVE  NotAhead' /\ EditsSeen' /\ \A s \in Sections : ~Dirty(s)'
<1>1. draft'.revision = v /\ draft'.of = versions'[cache'[Form]]
  OBVIOUS
<1>2. \A s \in Sections : ~Dirty(s)'
  BY <1>1 DEF Dirty, Shown
<1> QED BY <1>1, <1>2 DEF NotAhead, EditsSeen

LEMMA EditSeen ==
  ASSUME EventsInv, FormInv, Seen, page = "forms", NEW s \in Sections, Edit(s)
  PROVE  Seen'
<1>1. /\ draft \in Drafts /\ draft.of \in Contents /\ basis \in Contents
      /\ OnNewest(draft.revision) => Shown = Newest
      /\ dialog = "vehicle" => kind = "vehicle"
  BY SeenFacts
<1>2. /\ draft' = [draft EXCEPT !.of[s] = typed'] /\ Editable
      /\ basis' = CASE kind = "vehicle" -> basis
                    [] Locked /\ ~Dirty(s) -> [basis EXCEPT ![s] = Shown[s]]
                    [] OTHER -> basis
      /\ UNCHANGED <<kind, versions, revisions, save, dialog, misled, server, cache>>
  BY DEF Edit, events, held, known, stored
<1>3. /\ draft'.revision = draft.revision
      /\ \A r \in Sections \ {s} : draft'.of[r] = draft.of[r]
  BY <1>1, <1>2 DEF Drafts, Contents
<1>4. /\ Newest' = Newest /\ Shown' = Shown /\ \A r : OnNewest(r)' <=> OnNewest(r)
      /\ \A r \in Sections \ {s} : Dirty(r)' <=> Dirty(r)
  BY <1>2, <1>3 DEF Newest, Shown, OnNewest, Dirty
<1>5. /\ kind = "vehicle" => basis' = basis
      /\ Locked /\ ~Dirty(s) => basis'[s] = Shown[s]
      /\ Dirty(s) => basis' = basis
      /\ \A r \in Sections \ {s} : basis'[r] = basis[r]
  BY <1>1, <1>2 DEF Contents, Locked
<1>6. NotAhead' /\ WindowSeen'
  BY <1>1, <1>2, <1>3, <1>5 DEF Seen, NotAhead, WindowSeen
<1>7. EditsSeen'
  <2> SUFFICES ASSUME Locked, OnNewest(draft.revision), NEW r \in Sections, Dirty(r)'
               PROVE  basis'[r] = Newest[r]
    BY <1>2, <1>3, <1>4 DEF EditsSeen, Locked
  <2>1. Dirty(r) => basis[r] = Newest[r]
    BY DEF Seen, EditsSeen
  <2>2. CASE r = s
    BY <1>1, <1>5, <2>1, <2>2
  <2>3. CASE r # s
    BY <1>4, <1>5, <2>1, <2>3
  <2> QED BY <2>2, <2>3
<1>8. SentSeen' /\ OthersSeen'
  <2>1. CASE kind \in {"plan", "account"}
    <3>1. save'.stage = "none"
      BY <1>2, <2>1 DEF Editable, PlanOpen, AccountOpen, NoSave
    <3> QED BY <3>1, NoneSaved
  <2>2. CASE kind = "vehicle"
    BY <1>2, <1>3, <1>4, <1>5, <2>2
    DEF Seen, SentSeen, OthersSeen, WindowOutdated, Checked, OnNewest
  <2>3. CASE kind \notin {"plan", "account", "vehicle"}
    BY <1>2, <2>3 DEF SentSeen, OthersSeen, Checked
  <2> QED BY <2>1, <2>2, <2>3
<1> QED BY <1>2, <1>6, <1>7, <1>8, CheckedStays DEF Seen

LEMMA DiscardSeen ==
  ASSUME EventsInv, FormInv, Seen, page = "forms", Discard
  PROVE  Seen'
<1>1. /\ draft \in Drafts /\ draft.of \in Contents /\ basis \in Contents
      /\ cache[Form] \in 1..server[Form] /\ server[Form] \in Nat
      /\ dialog = "vehicle" => kind = "vehicle"
  BY SeenFacts
<1>2. UNCHANGED <<kind, versions, save, dialog, misled, server, cache>>
  BY DEF Discard, events, held, known, stored
<1>3. ASSUME NEW s \in Sections, DiscardSection(s) PROVE Seen'
  <2>1. /\ kind = "plan" /\ save = NoSave
        /\ draft'.of = [draft.of EXCEPT ![s] = Shown[s]]
        /\ draft'.revision = draft.revision \/ draft'.revision = cache[Form]
        /\ (\E r \in Sections \ {s} : Dirty(r)) => draft'.revision = draft.revision
        /\ basis' = [basis EXCEPT ![s] = 0]
    BY <1>3 DEF DiscardSection, Editable, PlanOpen
  <2>2. /\ ~Dirty(s)' /\ \A r \in Sections \ {s} : Dirty(r)' <=> Dirty(r)
        /\ Newest' = Newest /\ \A r \in Sections \ {s} : basis'[r] = basis[r]
    BY <1>1, <1>2, <2>1 DEF Dirty, Shown, Newest, Contents
  <2>3. NotAhead'
    BY <1>1, <1>2, <2>1 DEF Seen, NotAhead
  <2>4. EditsSeen'
    <3> SUFFICES ASSUME OnNewest(draft'.revision), NEW r \in Sections, Dirty(r)'
                 PROVE  basis'[r] = Newest[r]
      BY <1>2, <2>2 DEF EditsSeen, OnNewest
    <3>1. r # s /\ Dirty(r)
      BY <2>2
    <3>2. OnNewest(draft.revision)
      BY <2>1, <3>1
    <3> QED BY <2>1, <2>2, <3>1, <3>2 DEF Seen, EditsSeen, Locked
  <2>5. save'.stage = "none" /\ WindowSeen'
    BY <1>1, <1>2, <2>1 DEF NoSave, WindowSeen
  <2> QED BY <2>3, <2>4, <2>5, NoneSaved DEF Seen
<1>4. CASE DiscardAll
  <2>1. /\ kind # "vehicle" /\ save'.stage = "none"
        /\ draft' = [revision |-> cache[Form], of |-> versions[cache[Form]]]
    BY <1>2, <1>4 DEF DiscardAll, Taken, NoSave
  <2>2. NotAhead' /\ EditsSeen'
    BY <1>1, <1>2, <2>1, FilledAnew
  <2>3. WindowSeen'
    BY <1>1, <1>2, <2>1 DEF WindowSeen
  <2> QED BY <2>1, <2>2, <2>3, NoneSaved DEF Seen
<1> QED BY <1>3, <1>4 DEF Discard

LEMMA VehicleSeen ==
  ASSUME EventsInv, FormInv, Seen, page = "forms", OpenVehicle \/ CloseVehicle
  PROVE  Seen'
<1>1. UNCHANGED <<server, cache>>
  BY DEF OpenVehicle, CloseVehicle, events, held, known
<1>2. CASE OpenVehicle
  <2>1. /\ draft' = [revision |-> cache[Form], of |-> versions[cache[Form]]] /\ basis' = Shown
        /\ save'.stage = "none" /\ versions' = versions
    BY <1>2 DEF OpenVehicle, Taken, NoSave, stored
  <2>2. cache[Form] \in Nat
    BY SeenFacts
  <2>3. NotAhead' /\ EditsSeen'
    BY <1>1, <2>1, <2>2, FilledAnew
  <2>4. WindowSeen'
    BY <2>1 DEF WindowSeen, Shown
  <2> QED BY <2>1, <2>3, <2>4, NoneSaved DEF Seen
<1>3. CASE CloseVehicle
  <2>1. /\ UNCHANGED <<kind, stored, draft, basis, misled, save>> /\ dialog' # "vehicle"
    BY <1>3 DEF CloseVehicle
  <2> QED BY <1>1, <2>1, FormSame
<1> QED BY <1>2, <1>3

LEMMA SaveSeen ==
  ASSUME EventsInv, FormInv, Seen, page = "forms", Save
  PROVE  Seen'
<1>1. /\ draft.of \in Contents /\ Shown \in Contents /\ kind \in Kinds
      /\ Newest = versions[server[Form]]
      /\ OnNewest(draft.revision) => cache[Form] = server[Form] /\ Shown = Newest
  BY SeenFacts
<1>2. UNCHANGED <<kind, versions, draft, basis, dialog, misled, server, cache>>
  BY DEF Save, notes, events, held, known, stored
<1>3. /\ Newest' = Newest /\ \A r : Dirty(r)' <=> Dirty(r)
      /\ \A r : OnNewest(r)' <=> OnNewest(r)
  BY <1>2 DEF Newest, Dirty, Shown, OnNewest
<1>4. NotAhead' /\ EditsSeen' /\ WindowSeen' /\ CheckedSeen'
  <2>1. save'.stage = "sent"
    BY <1>1 DEF Save, SavePlan, SaveAccount, SaveVehicle, SaveList, Sent, Kinds
  <2> QED BY <1>2, <1>3, <2>1
          DEF Seen, NotAhead, EditsSeen, WindowSeen, Locked, OnNewest, CheckedSeen
<1>5. CASE kind = "plan"
  <2>1. PICK s \in Sections : Dirty(s) /\ Sent([Shown EXCEPT ![s] = draft.of[s]], {s})
    BY <1>5 DEF Save, SavePlan
  <2>2. /\ save'.stage = "sent" /\ save'.meant = {s} /\ save'.revision = draft.revision
        /\ save'.of = [Shown EXCEPT ![s] = draft.of[s]]
    BY <1>5, <2>1 DEF Sent
  <2>3. \A r \in Sections \ {s} : save'.of[r] = Shown[r]
    BY <1>1, <2>2 DEF Contents
  <2>4. OnNewest(draft.revision) => \A r \in Sections : Dirty(r) => basis[r] = Newest[r]
    BY <1>5 DEF Seen, EditsSeen, Locked
  <2>5. SentSeen'
    BY <1>1, <1>2, <1>3, <2>1, <2>2, <2>3, <2>4 DEF SentSeen
  <2>6. OthersSeen'
    BY <1>2, <1>3, <2>2, <2>4 DEF OthersSeen, Saving, OnNewest
  <2> QED BY <1>4, <2>5, <2>6 DEF Seen
<1>6. CASE kind # "plan"
  <2>1. Sent(draft.of, Sections)
    BY <1>1, <1>6 DEF Save, SaveAccount, SaveVehicle, SaveList, Kinds
  <2>2. /\ save'.stage = "sent" /\ save'.meant = Sections /\ save'.of = draft.of
        /\ save'.revision = IF kind = "vehicle" THEN cache[Form] ELSE draft.revision
    BY <2>1 DEF Sent
  <2>3. ASSUME Checked, OnNewest(draft.revision) PROVE
          \A r \in Sections : draft.of[r] = Newest[r] \/ basis[r] = Newest[r]
    <3>1. CASE kind = "account"
      BY <1>1, <2>3, <3>1 DEF Seen, EditsSeen, Locked, Dirty
    <3>2. CASE kind = "vehicle"
      BY <1>1, <2>3, <3>2 DEF Seen, WindowSeen, Save, SaveVehicle, OnNewest
    <3> QED BY <1>6, <2>3, <3>1, <3>2 DEF Checked
  <2>4. SentSeen'
    <3> SUFFICES ASSUME Checked, OnNewest(save'.revision), ~WindowOutdated', NEW r \in Sections
                 PROVE  save'.of[r] = Newest[r] \/ basis[r] = Newest[r]
      BY <1>2, <1>3, <2>2 DEF SentSeen, Checked, OnNewest
    <3>1. save'.revision = draft.revision
      BY <1>2, <2>2 DEF WindowOutdated
    <3> QED BY <2>2, <2>3, <3>1
  <2> QED BY <1>2, <1>4, <1>6, <2>4 DEF Seen, OthersSeen
<1> QED BY <1>5, <1>6

\* The server has one more version, and the form stays as it is.
LEMMA NewerSeen ==
  ASSUME EventsInv, FormInv, Seen, page = "forms", EventsInv',
         NEW of, NEW read \in 1..server[Form], Stores(of, read),
         UNCHANGED <<active, round, held, incidents>>,
         UNCHANGED <<kind, draft, basis, dialog, misled>>
  PROVE  /\ server'[Form] = server[Form] + 1 /\ server[Form] \in Nat
         /\ cache' = cache /\ Newest' = of
         /\ \A s : Dirty(s)' <=> Dirty(s)
         /\ NotAhead' /\ EditsSeen' /\ WindowSeen'
         /\ save' = save => Seen'
<1>1. /\ server[Form] \in Nat /\ cache[Form] \in 1..server[Form] /\ Form \in Queries
      /\ draft.revision \in 1..server[Form] /\ Len(versions) = server[Form]
      /\ versions \in Seq(Contents)
      /\ save.stage \in {"sent", "checked"} => save.revision \in 1..server[Form]
      /\ save.stage = "checked" => save.read \in 1..server[Form]
      /\ save.stage = "accepted" => save.version \in 1..server[Form]
  BY SeenFacts
<1>2. versions' = Append(versions, of) /\ Publish(Form)
  BY DEF Stores
<1>3. incidents' \in 0..MaxIncidents
  BY DEF EventsInv, CountsTyped
<1>4. server'[Form] = server[Form] + 1
  BY <1>1, <1>2, <1>3, PublishKeeps
<1>5. cache' = cache
  BY DEF held, known
<1>6. /\ Len(versions') = server[Form] + 1 /\ versions'[Len(versions')] = of
      /\ \A v \in 1..server[Form] : versions'[v] = versions[v]
  <2> DEFINE Any == Contents \cup {of}
  <2>1. Contents \subseteq Any /\ of \in Any
    OBVIOUS
  <2> HIDE DEF Any
  <2>2. versions \in Seq(Any)
    BY <1>1, <2>1, SeqMonotonic
  <2>3. /\ Len(Append(versions, of)) = Len(versions) + 1
        /\ Append(versions, of)[Len(versions) + 1] = of
        /\ \A v \in 1..Len(versions) : Append(versions, of)[v] = versions[v]
    BY <2>1, <2>2, AppendProperties
  <2> QED BY <1>1, <1>2, <2>3
<1>7. \A v \in 1..server[Form] : revisions'[v] = revisions[v]
  <2>1. revisions \in Seq(Nat) /\ Len(revisions) = server[Form] /\ revisions[read] \in Nat
    BY <1>1 DEF FormInv, FormTyped
  <2>2. revisions' = Append(revisions, revisions[read] + 1) /\ revisions[read] + 1 \in Nat
    BY <2>1 DEF Stores
  <2> QED BY <2>1, <2>2, AppendProperties
<1>8. Newest' = of
  BY <1>6 DEF Newest
<1>9. \A s : Dirty(s)' <=> Dirty(s)
  BY <1>1, <1>5, <1>6 DEF Dirty, Shown
<1>10. NotAhead'
  BY <1>5 DEF Seen, NotAhead
<1>11. WindowSeen'
  BY <1>1, <1>6 DEF Seen, WindowSeen
<1>12. \A r \in 1..server[Form] : ~OnNewest(r)'
  BY <1>1, <1>4 DEF OnNewest
<1>13. EditsSeen'
  BY <1>1, <1>12 DEF EditsSeen, OnNewest
<1>14. ASSUME save' = save PROVE SentSeen' /\ OthersSeen' /\ CheckedSeen'
  <2>1. SentSeen' /\ OthersSeen'
    BY <1>1, <1>12, <1>14 DEF SentSeen, OthersSeen, Saving, OnNewest
  <2>2. CheckedSeen'
    BY <1>1, <1>7, <1>14 DEF Seen, CheckedSeen, Checked
  <2> QED BY <2>1, <2>2
<1> QED BY <1>1, <1>4, <1>5, <1>8, <1>9, <1>10, <1>11, <1>13, <1>14 DEF Seen

LEMMA TheirsSeen ==
  ASSUME EventsInv, FormInv, Seen, page = "forms", EventsInv', OthersSave \/ ServerRestores
  PROVE  Seen'
<1>1. DOMAIN versions = 1..server[Form]
  BY SeenFacts
<1>2. PICK of : \E read \in Reads : Stores(of, read)
  BY DEF OthersSave, ServerRestores
<1>3. PICK read \in 1..server[Form] : Stores(of, read)
  BY <1>1, <1>2 DEF Reads
<1>4. /\ UNCHANGED <<active, round, held, incidents>>
      /\ UNCHANGED <<kind, draft, basis, dialog, misled>> /\ save' = save
  BY DEF OthersSave, ServerRestores, notes
<1> QED BY <1>2, <1>3, <1>4, NewerSeen

LEMMA ServerChecksSeen ==
  ASSUME EventsInv, FormInv, Seen, page = "forms", ServerChecks
  PROVE  Seen'
<1>1. /\ save.stage = "sent"
      /\ UNCHANGED <<kind, versions, revisions, draft, dialog, basis, misled, server, cache>>
  BY DEF ServerChecks, stored, notes, events, held, known
<1>2. CASE save' = [stage |-> "refused"]
  <2>1. save'.stage \notin {"sent", "checked", "accepted"}
    BY <1>2
  <2> QED BY <1>1, <2>1, FormSame DEF stored
<1>3. CASE Accepts /\ save' = [stage |-> "checked", of |-> save.of, meant |-> save.meant,
                              at |-> save.at, revision |-> save.revision, read |-> Len(versions)]
  <2>1. /\ save'.stage = "checked" /\ save'.of = save.of /\ save'.meant = save.meant
        /\ save'.revision = save.revision /\ save'.read = server[Form]
    BY <1>3, SeenFacts
  <2>2. /\ Newest' = Newest /\ \A s : Dirty(s)' <=> Dirty(s)
        /\ \A r : OnNewest(r)' <=> OnNewest(r)
    BY <1>1 DEF Newest, Dirty, Shown, OnNewest
  <2>3. NotAhead' /\ EditsSeen' /\ WindowSeen'
    BY <1>1, <2>2 DEF Seen, NotAhead, EditsSeen, WindowSeen, Locked, OnNewest
  <2>4. SentSeen'
    BY <1>1, <2>1, <2>2 DEF Seen, SentSeen, Checked, WindowOutdated
  <2>5. OthersSeen'
    BY <1>1, <2>1, <2>2 DEF Seen, OthersSeen, Saving
  <2>6. CheckedSeen'
    BY <1>1, <1>3, <2>1 DEF CheckedSeen, Accepts, Checked
  <2> QED BY <2>3, <2>4, <2>5, <2>6 DEF Seen
<1> QED BY <1>2, <1>3 DEF ServerChecks

\* A save that was checked against the newest version, which still is that, stores
\* what it sent.
LEMMA WhatIsStored ==
  ASSUME EventsInv, FormInv, Seen, page = "forms", save.stage = "checked",
         NEW loaded \in RowsRead(save.read), save.read = server[Form]
  PROVE  Written(save.of, loaded) = save.of
<1>1. /\ Len(versions) = server[Form] /\ server[Form] \in Nat /\ save.of \in Contents
      /\ Newest = versions[server[Form]]
  BY SeenFacts
<1>2. \A s \in Sections : loaded[s] = server[Form]
  BY <1>1 DEF RowsRead
<1> QED BY <1>1, <1>2 DEF Written, Contents

LEMMA ServerStoresSeen ==
  ASSUME EventsInv, FormInv, Seen, page = "forms", EventsInv', ServerStores
  PROVE  Seen'
<1>1. /\ UNCHANGED <<active, round, held, incidents>>
      /\ UNCHANGED <<kind, draft, basis, dialog, misled>>
      /\ save.stage = "checked"
  BY DEF ServerStores
<1>2. PICK some \in SUBSET Sections, loaded \in RowsRead(save.read) : Stored(some, loaded)
  BY DEF ServerStores
<1> DEFINE of == [s \in Sections |-> IF s \in some THEN Written(save.of, loaded)[s] ELSE Newest[s]]
<1>3. /\ save.read \in 1..server[Form] /\ save.revision \in 1..server[Form]
      /\ save.of \in Contents /\ server[Form] \in Nat /\ Len(versions) = server[Form]
  BY <1>1, SeenFacts
<1>4. /\ Stores(of, save.read)
      /\ some = Sections =>
           save' = [stage |-> "accepted", version |-> server'[Form], meant |-> save.meant,
                    at |-> save.at, own |-> Checked => save.revision = Len(versions)]
      /\ some # Sections => save' = [stage |-> "refused"]
  BY <1>2 DEF Stored
<1>5. \A s \in some : of[s] = Written(save.of, loaded)[s]
  OBVIOUS
<1> HIDE DEF of
<1>6. /\ Newest' = of /\ \A s : Dirty(s)' <=> Dirty(s)
      /\ NotAhead' /\ EditsSeen' /\ WindowSeen'
  BY <1>1, <1>3, <1>4, NewerSeen
<1>7. CASE some # Sections
  <2>1. save'.stage \notin {"sent", "checked", "accepted"}
    BY <1>4, <1>7
  <2> QED BY <1>6, <2>1, NoneSaved DEF Seen
<1>8. CASE some = Sections
  <2>1. /\ save'.stage = "accepted" /\ save'.meant = save.meant
        /\ save'.own <=> (Checked => save.revision = Len(versions))
    <3> DEFINE own == Checked => save.revision = Len(versions)
    <3>1. save' = [stage |-> "accepted", version |-> server'[Form], meant |-> save.meant,
                   at |-> save.at, own |-> own]
      BY <1>4, <1>8
    <3> HIDE DEF own
    <3>2. save'.stage = "accepted" /\ save'.meant = save.meant /\ save'.own = own
      BY <3>1
    <3>3. own = (Checked => save.revision = Len(versions))
      BY DEF own
    <3> QED BY <3>2, <3>3
  <2>2. SentSeen' /\ CheckedSeen'
    BY <2>1 DEF SentSeen, CheckedSeen
  <2>3. OthersSeen'
    <3> SUFFICES ASSUME kind = "plan", ~misled, save'.own, NEW s \in Sections \ save.meant, Dirty(s)
                 PROVE  basis[s] = of[s]
      BY <1>1, <1>6, <2>1 DEF OthersSeen, Saving, OnNewest
    <3>1. Checked /\ save.revision = server[Form] /\ OnNewest(save.revision) /\ ~WindowOutdated
      BY <1>3, <2>1 DEF Checked, OnNewest, WindowOutdated
    <3>2. save.of[s] = Newest[s]
      BY <1>1, <3>1 DEF Seen, SentSeen
    <3>3. basis[s] = Newest[s]
      BY <1>1, <3>1 DEF Seen, OthersSeen, Saving
    <3>4. of[s] \in {save.of[s], Newest[s]}
      BY <1>5, <1>8 DEF Written
    <3> QED BY <3>2, <3>3, <3>4
  <2> QED BY <1>6, <2>2, <2>3 DEF Seen
<1> QED BY <1>7, <1>8

\* The answer of a save fills the form.
LEMMA SaveAnsweredSeen ==
  ASSUME EventsInv, FormInv, Seen, page = "forms", SaveAnswered
  PROVE  Seen'
<1>1. /\ Form \in Queries /\ server[Form] \in Nat /\ draft.of \in Contents /\ basis \in Contents
      /\ Len(versions) = server[Form] /\ kind \in Kinds
      /\ Newest = versions[server[Form]]
      /\ dialog = "vehicle" => kind = "vehicle"
  BY SeenFacts
<1>2. /\ save.stage = "accepted" /\ save.version \in 1..server[Form]
      /\ save.meant \subseteq Sections /\ (~misled' => ~misled /\ save.own)
  BY SeenFacts DEF SaveAnswered
<1>3. /\ draft' = Answered(save.version) /\ save'.stage = "none"
      /\ dialog' # "vehicle"
      /\ basis' = [s \in Sections |-> IF s \in save.meant THEN 0 ELSE basis[s]]
      /\ SetData(Form, save.version, kind = "circles")
      /\ UNCHANGED <<kind, versions, server>>
  BY DEF SaveAnswered, NoSave, stored
<1>4. cache'[Form] = save.version
  BY <1>1, <1>3 DEF SetData, EventsInv, AnswersTyped
<1>5. draft'.revision = save.version
  BY <1>3 DEF Answered
<1>6. Newest' = Newest
  BY <1>3 DEF Newest
<1>7. NotAhead'
  BY <1>2, <1>4, <1>5 DEF NotAhead
<1>8. EditsSeen'
  <2> SUFFICES ASSUME Locked, ~misled', save.version = server[Form],
                      NEW s \in Sections, Dirty(s)'
               PROVE  basis'[s] = Newest[s]
    BY <1>3, <1>5, <1>6 DEF EditsSeen, OnNewest, Locked
  <2>1. kind = "plan" /\ Dirty(s) /\ s \notin save.meant
    BY <1>3, <1>4 DEF Dirty, Shown, Answered
  <2>2. Saving
    BY <1>2 DEF Saving, OnNewest
  <2>3. basis[s] = Newest[s]
    BY <2>1, <2>2 DEF Seen, OthersSeen
  <2> QED BY <1>3, <2>1, <2>3
<1>9. WindowSeen'
  BY <1>3 DEF WindowSeen
<1> QED BY <1>3, <1>7, <1>8, <1>9, NoneSaved DEF Seen

\* What was sent stays as it was seen.
LEMMA SentStays ==
  ASSUME SentSeen, server'[Form] = server[Form], UNCHANGED <<kind, versions, save, basis>>,
         ~misled' => ~misled, kind = "vehicle" => draft'.revision = draft.revision
  PROVE  SentSeen'
BY DEF SentSeen, Checked, OnNewest, WindowOutdated, Newest

\* An answer has come, and fills the form or replaces it.
LEMMA ReloadedSeen ==
  ASSUME EventsInv, FormInv, Seen, page = "forms", NEW version \in 1..server[Form],
         Reloaded(version), server' = server, cache'[Form] = version,
         ~misled' => ~misled /\ cache[Form] <= version
  PROVE  Seen'
<1>1. /\ Form \in Queries /\ server[Form] \in Nat /\ cache[Form] \in 1..server[Form]
      /\ draft.revision \in 1..server[Form] /\ kind \in Kinds
      /\ dialog = "vehicle" => kind = "vehicle"
      /\ dialog = "reload" => kind = "plan"
      /\ OnNewest(draft.revision) => cache[Form] = server[Form]
  BY SeenFacts
<1>2. /\ dialog' = IF dialog = "reload" THEN "none" ELSE dialog
      /\ draft' = IF dialog = "reload" THEN Taken(version) ELSE Filled(version)
      /\ UNCHANGED <<kind, versions, revisions, save, basis>>
  BY DEF Reloaded, stored
<1>3. Newest' = Newest /\ \A r : OnNewest(r)' => OnNewest(r)
  BY <1>2 DEF Newest, OnNewest
<1>4. NotAhead /\ EditsSeen /\ WindowSeen /\ SentSeen /\ OthersSeen /\ CheckedSeen'
  BY <1>2, CheckedStays DEF Seen
<1>5. CASE draft' = Taken(version) /\ kind # "vehicle"
  <2>1. NotAhead' /\ EditsSeen' /\ \A s \in Sections : ~Dirty(s)'
    BY <1>1, <1>2, <1>5, FilledAnew DEF Taken
  <2>2. OthersSeen' /\ SentSeen'
    BY <1>2, <1>4, <1>5, <2>1, SentStays DEF OthersSeen
  <2>3. WindowSeen'
    BY <1>1, <1>2, <1>5 DEF WindowSeen
  <2> QED BY <1>4, <2>1, <2>2, <2>3 DEF Seen
<1>6. CASE draft' = draft
  <2>1. NotAhead'
    BY <1>1, <1>4, <1>6 DEF NotAhead
  <2>2. ASSUME OnNewest(draft.revision)' PROVE version = cache[Form]
    BY <1>1, <1>3, <1>6, <2>2 DEF OnNewest
  <2>3. EditsSeen'
    <3> SUFFICES ASSUME Locked, OnNewest(draft.revision)', NEW s \in Sections, Dirty(s)'
                 PROVE  basis[s] = Newest[s]
      BY <1>2, <1>3 DEF EditsSeen, Locked
    <3>1. Dirty(s)
      BY <1>2, <1>6, <2>2 DEF Dirty, Shown
    <3>2. OnNewest(draft.revision)
      BY <1>3, <1>6
    <3> QED BY <1>4, <3>1, <3>2 DEF EditsSeen
  <2>4. WindowSeen'
    BY <1>2, <1>4, <1>6 DEF WindowSeen
  <2>5. SentSeen'
    BY <1>2, <1>4, <1>6, SentStays
  <2>6. kind # "plan" => OthersSeen'
    BY <1>2 DEF OthersSeen
  <2>7. kind = "plan" => OthersSeen'
    <3> SUFFICES ASSUME kind = "plan", Saving', NEW s \in Sections \ save.meant, Dirty(s)'
                 PROVE  basis[s] = Newest[s]
      BY <1>2, <1>3 DEF OthersSeen
    <3>1. dialog # "reload" => draft' = PlanFilled(version)
      BY <1>2 DEF Filled
    <3>2. dialog = "reload" => draft' = Taken(version)
      BY <1>2
    <3>3. Dirty(s)
      BY <1>2, <3>1, <3>2 DEF Dirty, Shown, PlanFilled, Taken
    <3>4. Saving
      BY <1>2, <1>3 DEF Saving
    <3> QED BY <1>4, <3>3, <3>4 DEF OthersSeen
  <2> QED BY <1>4, <2>1, <2>3, <2>4, <2>5, <2>6, <2>7 DEF Seen
<1>7. CASE kind = "plan" /\ draft' = PlanFilled(version)
  <2>1. /\ draft'.revision = draft.revision \/ draft'.revision = version
        /\ \A s \in Sections : Dirty(s)' => Dirty(s) /\ draft'.revision = draft.revision
    BY <1>2, <1>7 DEF PlanFilled, Dirty, Shown
  <2>2. NotAhead'
    BY <1>1, <1>4, <2>1 DEF NotAhead
  <2>3. EditsSeen'
    BY <1>2, <1>3, <1>4, <2>1 DEF EditsSeen, Locked
  <2>4. OthersSeen'
    BY <1>2, <1>3, <1>4, <2>1 DEF OthersSeen, Saving
  <2>5. SentSeen' /\ WindowSeen'
    BY <1>1, <1>2, <1>4, <1>7, SentStays DEF WindowSeen
  <2> QED BY <1>4, <2>2, <2>3, <2>4, <2>5 DEF Seen
<1>8. draft' = Taken(version) \/ draft' = draft \/ draft' = PlanFilled(version)
  BY <1>2 DEF Filled, AccountFilled, ListFilled
<1>9. /\ kind = "vehicle" => draft' = draft
      /\ draft' = PlanFilled(version) => kind = "plan" \/ draft' \in {draft, Taken(version)}
  BY <1>1, <1>2 DEF Filled, AccountFilled, ListFilled
<1> QED BY <1>5, <1>6, <1>7, <1>8, <1>9

LEMMA FilledSeen ==
  ASSUME EventsInv, FormInv, Seen, page = "forms", FormSettles \/ FormFails
  PROVE  Seen'
<1>1. Form \in Queries /\ cache[Form] \in 1..server[Form] /\ server[Form] \in Nat
  BY SeenFacts
<1>2. CASE FormSettles
  <2>1. server' = server /\ cache'[Form] = answer[Form] /\ answer[Form] \in 1..server[Form]
    BY <1>1, <1>2 DEF FormSettles, Settle, Ends, EventsInv, AnswersTyped
  <2>2. misled' = (misled \/ answer[Form] < cache[Form])
    BY <1>2 DEF FormSettles
  <2>3. ~(answer[Form] < cache[Form]) => cache[Form] <= answer[Form]
    BY <1>1, <2>1
  <2>4. ~misled' => ~misled /\ cache[Form] <= answer[Form]
    BY <2>2, <2>3
  <2> QED BY <1>2, <2>1, <2>4, ReloadedSeen DEF FormSettles
<1>3. CASE FormFails
  <2>1. server' = server /\ cache' = cache /\ misled' = misled
    BY <1>1, <1>3, FailKeeps DEF FormFails
  <2> QED BY <1>1, <1>3, <2>1, ReloadedSeen DEF FormFails
<1> QED BY <1>2, <1>3

LEMMA RestoredSeen ==
  ASSUME EventsInv, FormInv, Seen, page = "forms", Restored
  PROVE  Seen'
<1>1. /\ Form \in Queries /\ server[Form] \in Nat
      /\ restore.version \in 1..server[Form] /\ kind = "plan"
      /\ dialog = "vehicle" => kind = "vehicle"
  BY SeenFacts DEF Restored
<1>2. /\ draft' = [revision |-> restore.version, of |-> versions[restore.version]]
      /\ SetData(Form, restore.version, FALSE)
      /\ UNCHANGED <<kind, versions, revisions, save, dialog, basis, misled, server>>
  BY DEF Restored, Taken, notes, stored
<1>3. cache'[Form] = restore.version
  BY <1>1, <1>2 DEF SetData, EventsInv, AnswersTyped
<1>4. NotAhead' /\ EditsSeen' /\ \A s \in Sections : ~Dirty(s)'
  BY <1>1, <1>2, <1>3, FilledAnew
<1>5. WindowSeen' /\ OthersSeen'
  BY <1>1, <1>2, <1>4 DEF WindowSeen, OthersSeen
<1>6. SentSeen' /\ CheckedSeen'
  BY <1>1, <1>2, SentStays, CheckedStays DEF Seen
<1> QED BY <1>4, <1>5, <1>6 DEF Seen

\* A save ends without an answer, a question about a conflict is answered, a rule
\* is to be restored.
LEMMA RestSeen ==
  ASSUME EventsInv, FormInv, Seen, page = "forms",
         SaveRefused \/ SaveLost \/ KeepDraft \/ Reload \/ Restore
  PROVE  Seen'
<1>1. /\ server' = server /\ cache' = cache
      /\ UNCHANGED <<kind, stored, draft, basis, misled>>
      /\ dialog' = dialog \/ dialog' # "vehicle"
      /\ save' = save \/ save' = NoSave
  BY DEF SaveRefused, SaveLost, KeepDraft, Reload, Restore, notes, events, held, known
<1>2. NoSave.stage \notin {"sent", "checked", "accepted"}
  BY DEF NoSave
<1> QED BY <1>1, <1>2, FormSame

LEMMA SeenKeeps ==
  ASSUME AnswersInv, AnswersInv', SeenInv, [ConsoleNext]_console
  PROVE  SeenInv'
<1>1. page' = page
  BY StepsOfPages
<1> SUFFICES ASSUME page = "forms" PROVE Seen'
  BY <1>1 DEF SeenInv
<1>2. Seen /\ EventsInv /\ FormInv /\ EventsInv'
  BY DEF SeenInv, AnswersInv
<1>3. ASSUME UNCHANGED form, server' = server, cache' = cache PROVE Seen'
  BY <1>2, <1>3, FormSame DEF form, notes
<1>4. CASE UNCHANGED <<events, form, reader>>
  BY <1>3, <1>4 DEF events, held, known
<1>5. CASE EventsNext /\ UNCHANGED <<form, reader>>
  BY <1>2, <1>3, <1>5, EventsKeep
<1>6. CASE FormNext
  BY <1>2, <1>6, EditSeen, DiscardSeen, VehicleSeen, SaveSeen, TheirsSeen, ServerChecksSeen,
     ServerStoresSeen, SaveAnsweredSeen, FilledSeen, RestoredSeen, RestSeen DEF FormNext
<1> QED BY <1>4, <1>5, <1>6, StepsOfPages

\* Only a save that was checked stores something and changes itself.
LEMMA OverwriteIsSeen ==
  ASSUME EventsInv, FormInv, Seen, page = "forms", FormNext, Checked, Overwrites,
         ~misled, ~Raced, ~Ambiguous
  PROVE  WindowOutdated
<1>1. /\ versions \in Seq(Contents) /\ Len(versions) = server[Form] /\ server[Form] \in Nat
      /\ DOMAIN versions = 1..server[Form] /\ Newest \in Contents
  BY SeenFacts
<1>2. PICK s \in Sections :
        /\ Len(versions') > Len(versions) /\ save # save'
        /\ versions'[Len(versions')][s] # Newest[s]
        /\ s \notin save.meant \/ Newest[s] # basis[s]
  BY DEF Overwrites
<1>3. versions' # versions
  BY <1>1, <1>2
<1>4. ServerStores
  <2>1. ~ (Discard \/ \E r \in Sections : Edit(r))
    BY <1>3 DEF Discard, Edit, stored
  <2>2. ~ (OpenVehicle \/ CloseVehicle \/ Save \/ SaveAnswered \/ SaveRefused \/ SaveLost)
    BY <1>3 DEF OpenVehicle, CloseVehicle, Save, SaveAnswered, SaveRefused, SaveLost, stored
  <2>3. ~ (KeepDraft \/ Reload \/ FormSettles \/ FormFails \/ Restore \/ Restored)
    BY <1>3 DEF KeepDraft, Reload, FormSettles, FormFails, Reloaded, Restore, Restored, stored
  <2>4. ~ (OthersSave \/ ServerRestores)
    BY <1>2 DEF OthersSave, ServerRestores
  <2>5. ~ServerChecks
    BY <1>3 DEF ServerChecks, stored
  <2> QED BY <2>1, <2>2, <2>3, <2>4, <2>5 DEF FormNext
<1>5. /\ save.stage = "checked" /\ save.read = server[Form]
      /\ save.revision \in 1..server[Form] /\ save.of \in Contents
  BY <1>1, <1>4, SeenFacts DEF ServerStores, Raced
<1>6. save.revision = server[Form]
  <2>1. revisions[save.revision] = revisions[server[Form]]
    BY <1>5 DEF Seen, CheckedSeen
  <2>2. server[Form] \in DOMAIN versions
    BY <1>1, <1>5
  <2> QED BY <2>1, <2>2 DEF Ambiguous
<1>7. OnNewest(save.revision)
  BY <1>6 DEF OnNewest
<1>8. PICK some \in SUBSET Sections, loaded \in RowsRead(save.read) : Stored(some, loaded)
  BY <1>4 DEF ServerStores
<1>9. some = Sections
  BY <1>8 DEF Stored, Checked
<1>10. Written(save.of, loaded) = save.of
  BY <1>5, WhatIsStored
<1>11. [r \in Sections |-> IF r \in some THEN Written(save.of, loaded)[r] ELSE Newest[r]] = save.of
  BY <1>5, <1>9, <1>10 DEF Contents
<1>12. Stores(save.of, save.read)
  BY <1>8, <1>11 DEF Stored
<1>13. versions'[Len(versions')] = save.of
  BY <1>1, <1>5, <1>12, AppendProperties DEF Stores
<1> QED BY <1>2, <1>5, <1>7, <1>13 DEF Seen, SentSeen

\* usePlanWorkspace.save, SentimentAccountEditor.save, saveVehicleMutation: a save that is
\* checked against its revision changes what it means to change and replaces there what
\* the user was shown, in every order of saves, others' changes, restored rules, reloads
\* and late answers, with transactions that overlap as long as they like; unless the
\* vehicle's window was filled before the page read a newer scope, something else was
\* stored after the check or under the same revision, or the form has been filled by a late
\* answer or the answer of a save stored over another version than its own.
THEOREM NothingOverwrittenUnseen == ConsoleSpec => OverwritesExplained
<1>1. ConsoleInit => AnswersInv /\ SeenInv
  BY AnswersInit, SeenInits DEF AnswersInv
<1>2. AnswersInv /\ SeenInv /\ [ConsoleNext]_console => (AnswersInv /\ SeenInv)'
  BY AnswersStay, SeenKeeps
<1>3. AnswersInv /\ SeenInv /\ [ConsoleNext]_console
        => [Checked /\ Overwrites => misled \/ WindowOutdated \/ Raced \/ Ambiguous]_form
  <2> SUFFICES ASSUME AnswersInv, SeenInv, [ConsoleNext]_console, form' # form,
                      Checked, Overwrites, ~misled, ~Raced, ~Ambiguous
               PROVE  WindowOutdated
    OBVIOUS
  <2>1. page = "forms" /\ FormNext
    BY StepsOfPages
  <2> QED BY <2>1, OverwriteIsSeen DEF AnswersInv, SeenInv
<1> QED BY <1>1, <1>2, <1>3, PTL DEF ConsoleSpec, OverwritesExplained
=============================================================================
