----------------------------- MODULE Throughput -----------------------------
(***************************************************************************)
(* The browser crawl of the second collector candidate (poc/candidate-b,   *)
(* throughput.ts): after one login every URL is visited, several at once,  *)
(* tried again after a bad answer, and gets a row in a file that a killed  *)
(* and restarted command goes on from.  With --bootstrap-sms the command    *)
(* makes a new browser profile by a login with a text message instead, and *)
(* puts it in the place of the old one.                                    *)
(*                                                                         *)
(* The crawler library is modelled by what the command relies on: it gives *)
(* up on a handler that takes too long, without being able to stop it.  A  *)
(* handler waits in two places, for the page and, for a sample of the bad  *)
(* answers, for the cookies; a page that is closed ends it in the first,   *)
(* but not in the second, where the error is caught.                       *)
(***************************************************************************)
EXTENDS Integers, Sequences, FiniteSets

CONSTANTS Pages,        \* the URLs of the input
          MaxAttempts,
          Concurrency,
          Samples,      \* ACCESS_DIAGNOSTIC_LIMIT_PER_CLASS
          MaxCalls,     \* bound: how often the command is called
          MaxMishaps    \* bound: kills and renames that fail

\* What is assumed of the constants.
Numbers ==
    /\ IsFiniteSet(Pages)
    /\ MaxAttempts \in Nat \ {0} /\ Concurrency \in Nat \ {0}
    /\ Samples \in Nat /\ MaxCalls \in Nat \ {0} /\ MaxMishaps \in Nat

VARIABLES
    phase,      \* of main
    rows,       \* url-results.jsonl, by URL
    finalized,  \* URLs that have their row, as this process knows
    request,    \* the crawler's request of each URL
    strays,     \* handlers the crawler gave up on, by URL: their attempts
    deadline,   \* deadlineReached
    sampled,    \* diagnosticCounts
    samples,    \* lines this process has written to access-diagnostics.jsonl
    profile,    \* what each of the profile directories holds
    calls,      \* calls so far
    mishaps     \* kills and failed renames so far

diagnostics == <<sampled, samples>>
progress == <<rows, finalized, request, strays, deadline, diagnostics>>
counters == <<calls, mishaps>>
crawl == <<phase, progress, profile, counters>>

Attempts == 1..MaxAttempts

\* A row is a handler's, perhaps written after the crawler gave up on it, the crawler's
\* for a request that failed, or one for all URLs without a row.
RowKinds == {"answer", "stray", "failed", "unstarted", "no_login"}

\* An answer is the post; one of the two classes of which samples are kept; a plain
\* client error, which is not tried again; or any other bad one.
Kinds == {"success", "sampled", "client_error", "other"}

Queued(n) == [at |-> "queued", attempt |-> n]
Done == [at |-> "done", attempt |-> 0]
In(st) == {u \in Pages : request[u].at = st}
InFlight == In("page") \cup In("cookies")

HasRow(u) == rows[u] # <<>>
WithRow(u, kind) == [rows EXCEPT ![u] = Append(@, kind)]
WithRows(U, kind) == [u \in Pages |-> IF u \in U THEN Append(rows[u], kind) ELSE rows[u]]

\* What a profile's directory holds: a session is its storage-state.json.
Contents == {"absent", "empty", "session"}

\* Without and with --bootstrap-sms.
Modes == {"login", "sms"}

Init ==
    /\ phase = "start"
    /\ rows = [u \in Pages |-> <<>>]
    /\ finalized = {}
    /\ request = [u \in Pages |-> Done]
    /\ strays = [u \in Pages |-> {}]
    /\ deadline = FALSE
    /\ sampled = 0 /\ samples = 0
    /\ \E held \in {"absent", "session"} :
        profile = [target |-> held, source |-> "absent", backup |-> "absent"]
    /\ calls = 1
    /\ mishaps = 0

-----------------------------------------------------------------------------
(* The beginning of main.                                                  *)

\* The rows of an earlier process are read; it is an error if a URL has two.  The
\* directory of the profile is made if there is none; for a new profile its own is emptied.
LoadCompleted ==
    /\ phase = "start"
    /\ IF \E u \in Pages : Len(rows[u]) > 1
       THEN phase' = "refused" /\ UNCHANGED <<finalized, profile>>
       ELSE LET held == [profile EXCEPT !.target = IF @ = "absent" THEN "empty" ELSE @]
            IN  /\ finalized' = {u \in Pages : HasRow(u)}
                /\ phase' \in Modes
                /\ profile' = IF phase' = "login" THEN held ELSE [held EXCEPT !.source = "empty"]
    /\ UNCHANGED <<rows, request, strays, deadline, diagnostics, counters>>

\* The session is saved in the profile.
LoggedIn ==
    /\ phase = "login"
    /\ profile' = [profile EXCEPT !.target = "session"]
    /\ request' = [u \in Pages |-> IF u \in finalized THEN Done ELSE Queued(1)]
    /\ phase' = "crawl"
    /\ UNCHANGED <<rows, finalized, strays, deadline, diagnostics, counters>>

\* Without a session the command gives every URL a row and ends.
NotLoggedIn ==
    /\ phase = "login"
    /\ rows' = WithRows(Pages \ finalized, "no_login")
    /\ phase' = "ended"
    /\ UNCHANGED <<finalized, request, strays, deadline, diagnostics, profile, counters>>

-----------------------------------------------------------------------------
(* --bootstrap-sms.                                                        *)

\* The code is on its way: no verification is shown any more, or the user has passed it,
\* and the page counts down.
SmsSent ==
    /\ phase = "sms"
    /\ phase' = "code"
    /\ UNCHANGED <<progress, profile, counters>>

\* The user enters it, and it is put into the page.
SmsEntered ==
    /\ phase = "code"
    /\ phase' = "verify"
    /\ UNCHANGED <<progress, profile, counters>>

\* A post can be read, perhaps without any login; the session is saved.
SmsLoggedIn ==
    /\ phase \in {"sms", "verify"}
    /\ profile' = [profile EXCEPT !.source = "session"]
    /\ phase' = "promote"
    /\ UNCHANGED <<progress, counters>>

\* The page has not what is looked for, no code is confirmed within ten minutes, or what
\* was entered is none, or brings no post.
SmsFailed ==
    /\ phase \in {"sms", "code", "verify"}
    /\ phase' = "ended"
    /\ UNCHANGED <<progress, profile, counters>>

SmsStep == SmsSent \/ SmsEntered \/ SmsLoggedIn \/ SmsFailed

\* Slip: the old profile is removed, not put aside.
DropOld == [profile EXCEPT !.target = "absent", !.backup = "absent"]

\* The backup of an earlier promotion is removed and the old profile put in its place.
PutAside == [profile EXCEPT !.backup = profile.target, !.target = "absent"]

SetAside ==
    /\ phase = "promote"
    /\ profile' = PutAside
    /\ phase' = "aside"
    /\ UNCHANGED <<progress, counters>>

Promote ==
    /\ phase = "aside"
    /\ profile' = [target |-> profile.source, source |-> "absent", backup |-> "absent"]
    /\ phase' = "ended"
    /\ UNCHANGED <<progress, counters>>

\* The second rename fails: the old profile is put back.
RenameFails ==
    /\ phase = "aside"
    /\ mishaps < MaxMishaps
    /\ mishaps' = mishaps + 1
    /\ profile' = [profile EXCEPT !.target = profile.backup, !.backup = "absent"]
    /\ phase' = "ended"
    /\ UNCHANGED <<progress, calls>>

-----------------------------------------------------------------------------
(* The handlers.                                                           *)

\* No request is begun after the crawler is torn down.
Visit(u) ==
    /\ phase = "crawl" /\ ~deadline
    /\ u \in In("queued")
    /\ Cardinality(InFlight) < Concurrency
    /\ request' = [request EXCEPT ![u].at = "page"]
    /\ UNCHANGED <<phase, rows, finalized, strays, deadline, diagnostics, profile, counters>>

Retryable(kind, n) ==
    kind \in {"sampled", "other"} /\ n < MaxAttempts /\ ~deadline

\* The end of a handler the crawler still waits for: it throws to be tried again, or
\* writes the row, without a look at whether there is one.
Conclude(u, kind) ==
    LET n == request[u].attempt
    IN  IF Retryable(kind, n)
        THEN request' = [request EXCEPT ![u] = Queued(n + 1)] /\ UNCHANGED <<rows, finalized>>
        ELSE /\ request' = [request EXCEPT ![u] = Done]
             /\ rows' = WithRow(u, "answer")
             /\ finalized' = finalized \cup {u}

\* Slip: the sample is counted when it has been written.
LoadedCountsLater(u, kind) ==
    /\ u \in In("page")
    /\ IF kind = "sampled" /\ samples < Samples
       THEN /\ request' = [request EXCEPT ![u].at = "cookies"]
            /\ sampled' = sampled + 1
            /\ UNCHANGED <<rows, finalized>>
       ELSE Conclude(u, kind) /\ UNCHANGED sampled
    /\ UNCHANGED <<phase, strays, deadline, samples, profile, counters>>

\* The page is there and is classified.  A sample is counted before its cookies are
\* waited for.
Loaded(u, kind) ==
    /\ u \in In("page")
    /\ IF kind = "sampled" /\ sampled < Samples
       THEN /\ request' = [request EXCEPT ![u].at = "cookies"]
            /\ sampled' = sampled + 1
            /\ UNCHANGED <<rows, finalized>>
       ELSE Conclude(u, kind) /\ UNCHANGED sampled
    /\ UNCHANGED <<phase, strays, deadline, samples, profile, counters>>

\* With the cookies or without them the sample is written.
WriteSample == samples' = samples + 1

Sampled(u) ==
    /\ u \in In("cookies")
    /\ WriteSample
    /\ Conclude(u, "sampled")
    /\ UNCHANGED <<phase, strays, deadline, sampled, profile, counters>>

\* Slip: the row of a failed request is written in any case.
FailedAnyway(u) == WithRow(u, "failed")

\* failedRequestHandler: a URL that has a row from a stray handler gets no other.
Failed(u) == IF u \in finalized THEN rows ELSE WithRow(u, "failed")

\* The handlers the crawler gives up on and cannot stop, when it does for requests U.
Strayed(U) ==
    [u \in Pages |-> strays[u] \cup IF u \in U \cap In("cookies")
                                    THEN {request[u].attempt} ELSE {}]

\* Navigation fails, the handler throws or takes too long: errorHandler and, after the
\* last attempt, failedRequestHandler.
Fails(u) ==
    /\ u \in InFlight
    /\ strays' = Strayed({u})
    /\ IF request[u].attempt < MaxAttempts
       THEN /\ request' = [request EXCEPT ![u] = Queued(@.attempt + 1)]
            /\ UNCHANGED <<rows, finalized>>
       ELSE /\ request' = [request EXCEPT ![u] = Done]
            /\ rows' = Failed(u)
            /\ finalized' = finalized \cup {u}
    /\ UNCHANGED <<phase, deadline, diagnostics, profile, counters>>

\* A stray handler goes on with the closed page: it writes the sample and, when it would
\* not be tried again, the row.
Stray(u) ==
    /\ \E n \in strays[u] :
        /\ strays' = [strays EXCEPT ![u] = @ \ {n}]
        /\ IF Retryable("sampled", n) THEN UNCHANGED <<rows, finalized>>
           ELSE rows' = WithRow(u, "stray") /\ finalized' = finalized \cup {u}
    /\ WriteSample
    /\ UNCHANGED <<phase, request, deadline, sampled, profile, counters>>

-----------------------------------------------------------------------------
(* The end of main.                                                        *)

\* The timer of the window; the crawler is torn down.
Deadline ==
    /\ phase = "crawl" /\ ~deadline
    /\ deadline' = TRUE
    /\ UNCHANGED <<phase, rows, finalized, request, strays, diagnostics, profile, counters>>

\* The crawler is done or, torn down, leaves what is under way.
RunReturns ==
    /\ phase = "crawl"
    /\ deadline \/ \A u \in Pages : request[u] = Done
    /\ strays' = Strayed(Pages)
    /\ request' = [u \in Pages |-> Done]
    /\ phase' = "fill"
    /\ UNCHANGED <<rows, finalized, deadline, diagnostics, profile, counters>>

\* URLs that were not begun, or not finished, get a row.  The process exits a little later.
Fill ==
    /\ phase = "fill"
    /\ rows' = WithRows(Pages \ finalized, "unstarted")
    /\ finalized' = Pages
    /\ phase' = "exit"
    /\ UNCHANGED <<request, strays, deadline, diagnostics, profile, counters>>

Forget ==
    /\ finalized' = {}
    /\ request' = [u \in Pages |-> Done]
    /\ strays' = [u \in Pages |-> {}]
    /\ deadline' = FALSE
    /\ sampled' = 0 /\ samples' = 0

Exit ==
    /\ phase = "exit"
    /\ phase' = "ended"
    /\ Forget
    /\ UNCHANGED <<rows, profile, counters>>

\* The process is killed or the crawler fails.
Killed ==
    /\ phase \notin {"ended", "refused"}
    /\ mishaps < MaxMishaps
    /\ mishaps' = mishaps + 1
    /\ phase' = "ended"
    /\ Forget
    /\ UNCHANGED <<rows, profile, calls>>

\* The command is called again for the same output directory.
Again ==
    /\ phase = "ended"
    /\ calls < MaxCalls
    /\ calls' = calls + 1
    /\ phase' = "start"
    /\ UNCHANGED <<progress, profile, mishaps>>

Step(u) ==
    \/ Visit(u)
    \/ \E kind \in Kinds : Loaded(u, kind)
    \/ Sampled(u)
    \/ Fails(u)

Main ==
    \/ LoadCompleted
    \/ LoggedIn
    \/ NotLoggedIn
    \/ SmsStep
    \/ SetAside
    \/ Promote
    \/ RunReturns
    \/ Fill
    \/ Exit

Next ==
    \/ Main
    \/ Deadline
    \/ RenameFails
    \/ Killed
    \/ Again
    \/ \E u \in Pages : Step(u) \/ Stray(u)

Spec == Init /\ [][Next]_crawl

\* Visits are bounded by timeouts; nothing is asked of a stray handler.
FairSpec == Spec /\ WF_crawl(Main) /\ WF_crawl(Deadline)
                 /\ \A u \in Pages : WF_crawl(Step(u))

-----------------------------------------------------------------------------
(* Properties.                                                             *)

\* The types of the variables.
TypeOK ==
    /\ phase \in {"start", "refused", "login", "crawl", "fill", "exit", "sms", "code",
                  "verify", "promote", "aside", "ended"}
    /\ \A u \in Pages : rows[u] \in Seq(RowKinds)
    /\ finalized \subseteq Pages
    /\ request \in [Pages -> [at : {"queued", "page", "cookies", "done"},
                              attempt : {0} \cup Attempts]]
    /\ strays \in [Pages -> SUBSET Attempts]
    /\ deadline \in BOOLEAN
    /\ sampled \in 0..Samples /\ samples \in 0..Samples
    /\ profile \in [{"target", "source", "backup"} -> Contents]
    /\ calls \in 0..MaxCalls /\ mishaps \in 0..MaxMishaps

StrayRows(u) == {i \in DOMAIN rows[u] : rows[u][i] = "stray"}

\* A URL has one row in the file that a restarted command reads and counts from, and
\* another one only from a handler: for each further row there is one that the crawler
\* had given up on, and neither the row of a failed request nor that of a URL that was
\* not begun or had no session is ever a further one.  A crawl that was not killed leaves
\* no URL without a row.
RowsExplained ==
    /\ \A u \in Pages :
        /\ Cardinality(StrayRows(u)) >= Len(rows[u]) - 1
        /\ \A i \in DOMAIN rows[u] : i > 1 => rows[u][i] \in {"answer", "stray"}
    /\ phase = "exit" => \A u \in Pages : HasRow(u)

HeldIn(places) == \E d \in places : profile[d] = "session"

\* A session that was in use or put aside is never lost to the making of a new one: at
\* whatever point a mishap happens, some directory still holds a session.  Only an old
\* one that an earlier mishap left aside is given up, for a new one being promoted; a
\* second mishap just then leaves none.
SessionSurvives ==
    [][HeldIn({"target", "backup"}) =>
          \/ HeldIn({"target", "backup"})'
          \/ mishaps > 0 /\ ~HeldIn({"target"}) /\ phase' = "aside" /\ HeldIn({"source"})']_crawl

\* Each call of the command ends, or refuses to go on from a file with two rows of a URL.
CommandEnds == []<>(phase \in {"ended", "refused"})
=============================================================================
