--------------------------- MODULE SessionRecovery ---------------------------
(***************************************************************************)
(* The bounded recovery of a platform session in the second collector      *)
(* candidate (poc/candidate-b, bounded-session-recovery.ts).  URLs are     *)
(* requested one by one over HTTP with the cookies of a browser login; an  *)
(* answer that says the session is gone stops the segment, a new login is  *)
(* made, a few gate URLs must succeed under it, and the segment goes on    *)
(* with the URL that was refused.  Requests, logins and the clock are the  *)
(* environment's; what a document says is only its class.                  *)
(***************************************************************************)
EXTENDS Integers, SequencesExt

CONSTANTS URLs,           \* how many URLs the input has
          Gates,          \* how many gate URLs (three in the program)
          MaxRecoveries,
          Answers         \* the classes the platform answers with

Recoverable == {"empty", "login", "session_state_unusable"}
NonRecoverable == {"captcha", "challenge", "rate_limited"}
PauseClasses == Recoverable \cup NonRecoverable

\* A post is a "success" when it is the one asked for and has a text, or "partial".
\* A request without a document is an "error".
Classes == {"success", "partial", "error"} \cup (PauseClasses \ {"session_state_unusable"})

ASSUME SizesType == URLs \in Nat \ {0} /\ Gates \in Nat \ {0} /\ MaxRecoveries \in Nat
ASSUME AnswersType == Answers \subseteq Classes

VARIABLES
    at,         \* where executeRecoveryControl is
    remaining,  \* URLs not dealt with, in order
    answered,   \* answers of the segment under way
    final,      \* finalByUrl; "none" where there is no result
    session,    \* sessionOrdinal
    usable,     \* whether its cookies have not expired
    gated,      \* the last session with a successful session_gate event
    why,        \* what the login under way is for
    refreshes,  \* session_refresh events
    pending,    \* pendingTriggerUrl, or 0
    late,       \* past the deadline
    stop,       \* stopReason
    exit        \* what the command returned with

vars == <<at, remaining, answered, final, session, usable, gated, why, refreshes,
          pending, late, stop, exit>>

Urls == 1..URLs
NotRunning == -1

\* url is the URL that was refused, 0 when the session failed before any was asked for.
Purposes == [scope : {"initial", "gate", "bulk_state", "bulk_control"},
             reason : Recoverable \cup {"none"}, url : {0} \cup Urls]
Initial == [scope |-> "initial", reason |-> "none", url |-> 0]
Event(purpose, ok) == [scope |-> purpose.scope, reason |-> purpose.reason, url |-> purpose.url,
                       success |-> ok, recovered |-> FALSE]

Recoveries == session - 1  \* recoveryCount

Segment == IF at = "gate" THEN [i \in 1..Gates |-> i] ELSE remaining

\* pause_reason and results of the segment under way.
Paused == answered # <<>> /\ Last(answered) \in PauseClasses
Complete == Len(answered) = Len(Segment)

\* The results by URL.
Results == [Urls -> Classes \cup {"none"}]

\* Without and with --initial-storage-state.
Starts == {"login", "head"}

Init ==
    /\ at \in Starts
    /\ remaining = [i \in Urls |-> i]
    /\ answered = <<>>
    /\ final = [u \in Urls |-> "none"]
    /\ session = 1
    /\ usable \in {b \in BOOLEAN : at = "login" => ~b}
    /\ gated = 0
    /\ why = Initial
    /\ refreshes = <<>>
    /\ pending = 0
    /\ late = FALSE
    /\ stop = "none"
    /\ exit = NotRunning

-----------------------------------------------------------------------------
(* One segment: runHttpSegment.                                            *)

\* An answer, and a request that failed, makes one result.
Recorded(c) == Append(answered, c)

\* A request is answered, times out or fails; one at a time, in order.  An answer of a
\* pause class aborts the crawler: nothing more is asked for.
Answer(c) ==
    /\ at \in {"gate", "bulk"}
    /\ usable \/ answered # <<>>  \* the cookies are filtered when the segment begins
    /\ ~Paused /\ ~Complete
    /\ answered' = Recorded(c)
    /\ UNCHANGED <<at, remaining, final, session, usable, gated, why, refreshes,
                   pending, late, stop, exit>>

\* The cookies cannot be read, or the crawler leaves URLs out: the exception goes through
\* the whole command and no file is written.
Throw ==
    /\ at \in {"gate", "bulk"}
    /\ at' = "thrown"
    /\ UNCHANGED <<remaining, answered, final, session, usable, gated, why, refreshes,
                   pending, late, stop, exit>>

\* The segment is over with this pause reason.  Without usable cookies it never began.
Ended(reason) ==
    \/ ~usable /\ answered = <<>> /\ reason = "session_state_unusable"
    \/ Paused /\ reason = Last(answered)
    \/ Complete /\ ~Paused /\ reason = "none"

-----------------------------------------------------------------------------
(* The loop: executeRecoveryControl.                                       *)

\* The deadline is looked at before each gate and nowhere else.
Gate ==
    /\ at = "head"
    /\ remaining # <<>> /\ ~late
    /\ at' = "gate"
    /\ answered' = <<>>
    /\ UNCHANGED <<remaining, final, session, usable, gated, why, refreshes, pending,
                   late, stop, exit>>

Refresh(purpose) ==
    /\ purpose.reason \in Recoverable
    /\ Recoveries < MaxRecoveries
    /\ session' = session + 1
    /\ why' = purpose
    /\ at' = "login"

\* Slip: a gate that failed without a refusal is tried again.
GiveUpOnRefusal(reason) ==
    /\ ~(reason \in Recoverable /\ Recoveries < MaxRecoveries)
    /\ IF reason = "gate_failed"
       THEN at' = "head" /\ UNCHANGED stop
       ELSE at' = "report" /\ stop' = reason
    /\ UNCHANGED <<session, why>>

GiveUp(reason) ==
    /\ ~(reason \in Recoverable /\ Recoveries < MaxRecoveries)
    /\ stop' = IF reason \in Recoverable THEN "max_recoveries_exhausted" ELSE reason
    /\ at' = "report"
    /\ UNCHANGED <<session, why>>

\* All gate URLs must be the posts that were asked for.
GateOver ==
    /\ at = "gate"
    /\ \E reason \in PauseClasses \cup {"none"} :
        /\ Ended(reason)
        /\ IF Len(answered) = Gates /\ \A i \in 1..Gates : answered[i] = "success"
           THEN at' = "bulk" /\ gated' = session /\ UNCHANGED <<session, why, stop>>
           ELSE /\ \/ Refresh([scope |-> "gate", reason |-> reason, url |-> 0]) /\ UNCHANGED stop
                   \/ GiveUp(IF reason = "none" THEN "gate_failed" ELSE reason)
                /\ UNCHANGED gated
    /\ answered' = <<>>
    /\ UNCHANGED <<remaining, final, usable, refreshes, pending, late, exit>>

\* The first result settles what became of the URL that was refused before: of the
\* refreshes the last one not so marked is marked.
Settled == pending # 0 /\ answered # <<>> /\ remaining[1] = pending
           /\ answered[1] \notin Recoverable
Marked ==
    LET last == SelectLastInSeq(refreshes, LAMBDA e : ~e.recovered)
    IN  IF Settled /\ last # 0 THEN [refreshes EXCEPT ![last].recovered = TRUE] ELSE refreshes

\* The results of the first k URLs are final.
Finalized(k) ==
    [u \in Urls |-> IF \E i \in 1..k : remaining[i] = u
                    THEN answered[CHOOSE i \in 1..k : remaining[i] = u] ELSE final[u]]

\* Slip: the URL that was refused is counted as dealt with.
UnfinishedAfter(n) == SubSeq(remaining, n + 1, Len(remaining))

\* After n results, of which the last is the one that was refused.
Unfinished(n) == SubSeq(remaining, n, Len(remaining))

AllAnswered ==
    /\ at = "bulk"
    /\ Ended("none")
    /\ refreshes' = Marked
    /\ pending' = IF Settled THEN 0 ELSE pending
    /\ final' = Finalized(Len(answered))
    /\ remaining' = <<>>
    /\ answered' = <<>>
    /\ at' = "head"
    /\ UNCHANGED <<session, usable, gated, why, late, stop, exit>>

\* Between the gate and the segment the cookies have expired.
BulkUnusable ==
    /\ at = "bulk"
    /\ answered = <<>>
    /\ \E reason \in PauseClasses :
        /\ Ended(reason)
        /\ \/ Refresh([scope |-> "bulk_state", reason |-> reason, url |-> 0]) /\ UNCHANGED stop
           \/ GiveUp(reason)
    /\ UNCHANGED <<remaining, answered, final, usable, gated, refreshes, pending, late, exit>>

\* The URL that was refused stays the first of the remaining ones.  Its result is final
\* only when no new session will be tried.
Refused ==
    /\ at = "bulk"
    /\ Paused
    /\ LET n == Len(answered)
           reason == Last(answered)
       IN  /\ remaining' = Unfinished(n)
           /\ \/ /\ Refresh([scope |-> "bulk_control", reason |-> reason, url |-> remaining[n]])
                 /\ pending' = remaining[n]
                 /\ final' = Finalized(n - 1)
                 /\ UNCHANGED stop
              \/ /\ GiveUp(reason)
                 /\ pending' = IF Settled THEN 0 ELSE pending
                 /\ final' = Finalized(n)
    /\ refreshes' = Marked
    /\ answered' = <<>>
    /\ UNCHANGED <<usable, gated, late, exit>>

\* A login takes minutes and ends; an exception in it is a failed one.
LoggedIn ==
    /\ at = "login"
    /\ refreshes' = IF why = Initial THEN refreshes ELSE Append(refreshes, Event(why, TRUE))
    /\ usable' = TRUE
    /\ why' = Initial
    /\ at' = "head"
    /\ UNCHANGED <<remaining, answered, final, session, gated, pending, late, stop, exit>>

NotLoggedIn ==
    /\ at = "login"
    /\ IF why = Initial
       THEN stop' = "initial_login_failed" /\ UNCHANGED refreshes
       ELSE stop' = "session_refresh_failed" /\ refreshes' = Append(refreshes, Event(why, FALSE))
    /\ final' = [u \in Urls |-> IF u = why.url THEN why.reason ELSE final[u]]
    /\ why' = Initial
    /\ at' = "report"
    /\ UNCHANGED <<remaining, answered, session, usable, gated, pending, late, exit>>

\* What the summary calls its correctness gate.
AllGood == \A u \in Urls : final[u] = "success"

\* The report, and the exit code with which the command says that all went well.
Report ==
    /\ \/ at = "report"
       \/ at = "head" /\ (remaining = <<>> \/ late)
    /\ stop' = IF remaining # <<>> /\ stop = "none" THEN "window_exhausted" ELSE stop
    /\ exit' = IF AllGood THEN 0 ELSE 6
    /\ at' = "ended"
    /\ UNCHANGED <<remaining, answered, final, session, usable, gated, why, refreshes,
                   pending, late>>

Running == at \notin {"ended", "thrown"}

\* Time passes: a cookie expires, the deadline comes.
CookiesExpire ==
    /\ Running /\ usable
    /\ usable' = FALSE
    /\ UNCHANGED <<at, remaining, answered, final, session, gated, why, refreshes,
                   pending, late, stop, exit>>
DeadlinePasses ==
    /\ Running /\ ~late
    /\ late' = TRUE
    /\ UNCHANGED <<at, remaining, answered, final, session, usable, gated, why, refreshes,
                   pending, stop, exit>>

Step ==
    \/ Gate
    \/ \E c \in Answers : Answer(c)
    \/ GateOver
    \/ AllAnswered
    \/ BulkUnusable
    \/ Refused
    \/ LoggedIn
    \/ NotLoggedIn
    \/ Report

Next == Step \/ Throw \/ CookiesExpire \/ DeadlinePasses

Spec == Init /\ [][Next]_vars

\* Every request has a timeout and so has every step of a login.
FairSpec == Spec /\ WF_vars(Step)

-----------------------------------------------------------------------------
(* Properties.                                                             *)

\* The types of the variables.
TypeOK ==
    /\ at \in {"login", "head", "gate", "bulk", "report", "ended", "thrown"}
    /\ remaining \in Seq(Urls)
    /\ answered \in Seq(Answers)
    /\ final \in Results
    /\ session \in 1..(MaxRecoveries + 1)
    /\ gated \in 0..session
    /\ why \in Purposes
    /\ \A i \in DOMAIN refreshes : DOMAIN refreshes[i] = {"scope", "reason", "url",
                                                          "success", "recovered"}
    /\ pending \in {0} \cup Urls
    /\ usable \in BOOLEAN /\ late \in BOOLEAN
    /\ exit \in {NotRunning, 0, 6}

HasResult(u) == final[u] # "none"
Left == Range(remaining)

\* Each URL has a result or is still to be done, across any sequence of sessions: none is
\* lost when a segment stops in the middle, none is asked for again once it has a result.
\* Only the one URL at which the command gave up has a result and counts as left.
EachOnce ==
    /\ \A u \in Urls : HasResult(u) \/ u \in Left
    /\ \A u \in Left : HasResult(u) => u = remaining[1] /\ stop # "none"
    /\ IsInjective(remaining)

\* A refusal that a new session may cure is no result, except of the URL at which the
\* command gave up; one that no session cures is the last result of the command.
RefusalsAreNotResults ==
    \A u \in Urls : final[u] \in PauseClasses => u \in Left /\ u = remaining[1]

\* recovered_bulk_control_count, a count of marks that are put on the refresh made last
\* (perhaps for another reason than the URL), is the number of URLs that were refused and
\* have got another answer since.
RecoveredIsAnswered ==
    LET refused == {refreshes[i].url : i \in DOMAIN refreshes} \ {0}
    IN  Cardinality({i \in DOMAIN refreshes : refreshes[i].recovered})
          = Cardinality({u \in refused : HasResult(u) /\ final[u] \notin Recoverable})

\* URLs are asked for only under a session whose gate succeeded, and sessions are renewed
\* for a refusal that a new one may cure.
SessionsAreProven ==
    /\ at = "bulk" => gated = session
    /\ \A i \in DOMAIN refreshes : refreshes[i].reason \in Recoverable

\* What the report says of each URL, of the recoveries and of the sessions holds together.
UrlsAccounted ==
    EachOnce /\ RefusalsAreNotResults /\ RecoveredIsAnswered /\ SessionsAreProven

\* The command ends: each round of the loop uses up URLs or one of the recoveries.
CommandEnds == <>~Running
=============================================================================
