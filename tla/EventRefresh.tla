---------------------------- MODULE EventRefresh ----------------------------
(***************************************************************************)
(* How a page of the web console learns that data changed: the server      *)
(* publishes a numbered event, the page hears it over a stream that may    *)
(* break, marks the cached answers (queries) it concerns as invalid, and   *)
(* reads again those that are shown.  A request under way is never asked   *)
(* twice: a notice that comes meanwhile leaves the query pending, and the  *)
(* end of the request arms a timer for one more.                           *)
(*                                                                         *)
(* The cache itself is TanStack Query, modelled from the way it is used.   *)
(* A version stands for the content of an answer; the second between two   *)
(* rounds is the timer's delay.                                            *)
(***************************************************************************)
EXTENDS Integers, FiniteSets, Sequences

CONSTANTS
    Queries,        \* the keys of the answers the pages may show
    Concerns,       \* the queries that the events about each of them concern
    Ordinary,       \* those whose notices are merged to one round a second
    MaxVersion,     \* bound: versions of each answer the server comes to
    MaxIncidents,   \* bound: requests that fail, streams that break, returns of the
                    \* focus, and what else the pages count as rare
    MaxRestarts     \* bound: restarts of the server

ASSUME QueriesType ==
    /\ Concerns \in [Queries -> SUBSET Queries] /\ \A q \in Queries : q \in Concerns[q]
    /\ Ordinary \subseteq Queries
    /\ MaxVersion \in [Queries -> Nat \ {0}] /\ MaxIncidents \in Nat /\ MaxRestarts \in Nat

VARIABLES
    server,         \* the version each query would be answered with
    bus,            \* the events of the server's process: the query of each
    connected,      \* the page's stream is open
    cursor,         \* the number of the last event the page heard
    active,         \* the queries that are shown
    cache,          \* the version of each that the page holds, or 0
    fetching,       \* the request of each: "idle", "asked" or "answered"
    answer,         \* what the server answered it
    invalidated,    \* marked as out of date
    pending,        \* marked for one more round
    timer,          \* the round's timer is armed
    failed,         \* the last request ended without an answer
    outrun,         \* the answer held is older than one it replaced
    cut,            \* the last request was cancelled, and no mark is left of why it was sent
    incidents, restarts

stream == <<bus, connected, cursor, restarts>>
round == <<fetching, invalidated, pending, timer>>
known == <<cache, failed, outrun, cut>>
held == <<answer, known>>
events == <<server, stream, active, round, held, incidents>>

TypeOK ==
    /\ \A q \in Queries : /\ server[q] \in 1..MaxVersion[q]
                          /\ cache[q] \in 0..MaxVersion[q] /\ answer[q] \in 0..MaxVersion[q]
    /\ \A i \in DOMAIN bus : bus[i] \in Queries
    /\ connected \in BOOLEAN /\ cursor \in Nat
    /\ fetching \in [Queries -> {"idle", "asked", "answered"}]
    /\ \A s \in {active, invalidated, pending, failed, outrun, cut} : s \subseteq Queries
    /\ pending \subseteq active
    /\ timer \in BOOLEAN /\ incidents \in 0..MaxIncidents /\ restarts \in 0..MaxRestarts

\* A page that has just been loaded, with `shown` on it.
EventsInit(shown) ==
    /\ server = [q \in Queries |-> 1]
    /\ cache = [q \in Queries |-> IF q \in shown THEN 1 ELSE 0]
    /\ bus = <<>> /\ connected = TRUE /\ cursor = 0
    /\ active = shown
    /\ fetching = [q \in Queries |-> "idle"] /\ answer = [q \in Queries |-> 0]
    /\ invalidated = {} /\ pending = {} /\ timer = FALSE
    /\ failed = {} /\ outrun = {} /\ cut = {}
    /\ incidents = 0 /\ restarts = 0

-----------------------------------------------------------------------------
\* The queries of a set whose next request may start, and what starts it.
Ready(qs) == {q \in qs \cap active : fetching[q] = "idle"}
Asked(qs) == [q \in Queries |-> IF q \in qs THEN "asked" ELSE fetching[q]]

\* Start a request for each of `ready`, and arm the timer for what is left idle.
Flush(ready, left, armed) ==
    /\ fetching' = Asked(ready)
    /\ pending' = left \ ready
    /\ timer' = (armed \/ Ready(left) \ ready # {})

\* Slip: queries that are not shown are marked for a round too.
InvalidateAll(qs, immediate) ==
    /\ invalidated' = invalidated \cup qs
    /\ Flush(IF immediate THEN Ready(qs) ELSE {}, pending \cup qs, timer)

\* Notices for some queries: the shown ones are read at once or in a round,
\* unless their request is under way; the others when they are shown again.
Invalidate(qs, immediate) ==
    /\ invalidated' = invalidated \cup qs
    /\ Flush(IF immediate THEN Ready(qs) ELSE {}, pending \cup (qs \cap active), timer)

TimerFires ==
    /\ timer
    /\ Flush(Ready(pending), pending, FALSE)
    /\ UNCHANGED <<server, stream, active, invalidated, held, incidents>>

-----------------------------------------------------------------------------
\* The request reaches the server, and its answer the page.
Read(q) ==
    /\ fetching[q] = "asked"
    /\ fetching' = [fetching EXCEPT ![q] = "answered"]
    /\ answer' = [answer EXCEPT ![q] = server[q]]
    /\ UNCHANGED <<server, stream, active, invalidated, pending, timer, known, incidents>>

\* Slip: the end of a request does not look at the pending marks.
EndsUnheard(q) ==
    /\ fetching' = [fetching EXCEPT ![q] = "idle"]
    /\ answer' = [answer EXCEPT ![q] = 0]
    /\ UNCHANGED <<timer, server, stream, active, pending>>

\* A request has ended: one that is marked for one more round arms the timer.
Ends(q) ==
    /\ fetching' = [fetching EXCEPT ![q] = "idle"]
    /\ answer' = [answer EXCEPT ![q] = 0]
    /\ timer' = (timer \/ q \in pending)
    /\ UNCHANGED <<server, stream, active, pending>>

\* The answer replaces what is held, whatever that was, and is taken for current.
Settle(q) ==
    /\ fetching[q] = "answered"
    /\ cache' = [cache EXCEPT ![q] = answer[q]]
    /\ invalidated' = invalidated \ {q}
    /\ failed' = failed \ {q}
    /\ outrun' = outrun \ {q} /\ cut' = cut \ {q}
    /\ Ends(q)
    /\ UNCHANGED incidents

\* It is lost, times out or is refused, the one retry of it too.
Fail(q) ==
    /\ fetching[q] # "idle" /\ incidents < MaxIncidents
    /\ incidents' = incidents + 1
    /\ failed' = failed \cup {q}
    /\ Ends(q)
    /\ UNCHANGED <<invalidated, cache, outrun, cut>>

\* The answer of a save, put in the cache by the page itself: it does not touch
\* a request under way, whose older answer may replace it, unless one is asked
\* `anew` in its place.
SetData(q, version, anew) ==
    /\ cache' = [cache EXCEPT ![q] = version]
    /\ invalidated' = IF anew THEN invalidated \cup {q} ELSE invalidated \ {q}
    /\ fetching' = IF anew THEN [fetching EXCEPT ![q] = "asked"] ELSE fetching
    /\ outrun' = IF version < cache[q] THEN outrun \cup {q} ELSE outrun \ {q}
    /\ cut' = cut \ {q}
    /\ answer' = IF anew THEN [answer EXCEPT ![q] = 0] ELSE answer
    /\ UNCHANGED <<failed, pending, timer, active>>

-----------------------------------------------------------------------------
\* Somebody or some worker changes the data, and says so.
Publish(q) ==
    /\ server[q] < MaxVersion[q]
    /\ server' = [server EXCEPT ![q] = @ + 1]
    /\ bus' = Append(bus, q)
    /\ UNCHANGED <<connected, cursor, restarts>>

Change(q) == Publish(q) /\ UNCHANGED <<active, round, held, incidents>>

\* The stream brings the next event after the page's cursor.
Deliver ==
    /\ connected /\ cursor < Len(bus)
    /\ cursor' = cursor + 1
    /\ Invalidate(Concerns[bus[cursor']], bus[cursor'] \notin Ordinary)
    /\ UNCHANGED <<server, bus, connected, restarts, active, held, incidents>>

\* The stream breaks; the browser opens it again with its cursor, and what is
\* shown is read again.
Drop ==
    /\ connected /\ incidents < MaxIncidents
    /\ connected' = FALSE /\ incidents' = incidents + 1
    /\ UNCHANGED <<server, bus, cursor, restarts, active, round, held>>

Reconnect ==
    /\ ~connected /\ connected' = TRUE
    /\ Invalidate(Queries, TRUE)
    /\ UNCHANGED <<server, bus, cursor, restarts, active, held, incidents>>

\* The server's process restarts and numbers its events from one again.
Restart ==
    /\ restarts < MaxRestarts /\ restarts' = restarts + 1
    /\ bus' = <<>> /\ connected' = FALSE
    /\ UNCHANGED <<server, cursor, active, round, held, incidents>>

\* The window gets the focus, or the network is back.
RefreshAll ==
    /\ incidents < MaxIncidents /\ incidents' = incidents + 1
    /\ Invalidate(Queries, TRUE)
    /\ UNCHANGED <<server, stream, active, held>>

-----------------------------------------------------------------------------
\* The page shows some other queries.  A request nobody waits for any more is
\* cancelled; one that is marked for a round is read when it is shown again, and
\* so is any that is marked, old enough or not there yet.
Show(shown) ==
    LET leaving == active \ shown
        coming == shown \ active
        reads == {q \in coming : q \in invalidated \/ cache[q] = 0} IN
    /\ active' = shown
    /\ invalidated' = invalidated \cup (pending \cap leaving)
    /\ pending' = pending \ leaving
    /\ \E old \in SUBSET (coming \ reads) :
         fetching' = [q \in Queries |-> IF q \in leaving THEN "idle"
                                        ELSE IF q \in reads \cup old THEN "asked" ELSE fetching[q]]
    /\ answer' = [q \in Queries |-> IF q \in leaving THEN 0 ELSE answer[q]]
    /\ cut' = cut \cup {q \in leaving : fetching[q] # "idle" /\ q \notin invalidated \cup pending}
    /\ UNCHANGED <<timer, server, stream, cache, failed, outrun, incidents>>

EventsNext ==
    \/ TimerFires \/ Deliver \/ Drop \/ Reconnect \/ RefreshAll
    \/ \E q \in Queries : Read(q)

\* createEventRefresh, EventBridge: what a page shows is what the server has, in
\* the end, unless the request for it failed, the answer of a save outran a newer
\* one, or a round for it was cut off by leaving the page: the mark had been taken
\* back by the answer before.
RefreshedInTheEnd ==
    []<>(\A q \in active : cache[q] = server[q] \/ q \in failed \cup outrun \cup cut)
=============================================================================
