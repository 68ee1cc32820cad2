----------------------------- MODULE BatchProbe ------------------------------
(***************************************************************************)
(* The probes of candidate B that read URLs with what session there is.    *)
(* smoke.ts asks for each URL over HTTP and then, where that brought no    *)
(* post, with a browser; http-throughput.ts asks over HTTP alone, several  *)
(* at a time, and reports which refusal came first; diagnose.ts asks over  *)
(* HTTP, and then with one browser profile for the site's home page, each  *)
(* URL, and the first URL again; login.ts opens one URL with a profile,    *)
(* signs in where it is sent to the login, and reports what page came.     *)
(*                                                                         *)
(* The crawlers of a command share one queue.  It keeps the requests dealt *)
(* with under a key and never takes a second one of a key: a repeated line *)
(* is asked for once, and reported each time.                              *)
(***************************************************************************)
EXTENDS Naturals, Sequences, FiniteSets, SequencesExt

CONSTANTS
    Sites,          \* the URLs
    Malformed,      \* those that name no post
    MaxLines,       \* bound: lines of the input
    Width           \* --concurrency of http-throughput.ts

ProbeInput == Malformed \subseteq Sites /\ MaxLines \in Nat /\ Width \in Nat \ {0}

VARIABLES
    tool,           \* one of Tools
    lines,          \* the input
    stage,          \* what the command is doing: a pass over HTTP, one with a browser
    waiting,        \* the requests the crawler has yet to make, in their order
    flying,         \* those under way
    log,            \* the attempts, in the order they ended, with the millisecond
    report          \* what is written: a result for each line, the first refusal, and
                    \* where in the log diagnose.ts's browser is

probe == <<tool, lines, stage, waiting, flying, log, report>>

\* smoke.ts, http-throughput.ts, diagnose.ts and login.ts.
Tools == {"smoke", "direct", "diagnose", "login"}

\* Why a URL is asked for.
Purposes == {"http", "browser", "home", "first", "revisit", "login"}
For(purpose, u) == [purpose |-> purpose, url |-> u]

\* The classes of a document: "success" is the post asked for, "blocked" any of the
\* four refusals.
Kinds == {"success", "partial", "blocked", "empty", "error"}
Refusals == {"blocked", "empty"}
NoReport == [results |-> <<>>, first |-> 0, visits |-> {}]

\* The lines of --input up to --limit.
Inputs == UNION {[1..n -> Sites] : n \in 1..MaxLines}

\* An attempt, as it is written down in the millisecond it ends.
Attempted(request, kind, now) == [request |-> request, kind |-> kind, at |-> now]

Init ==
    /\ tool \in Tools
    /\ lines \in Inputs
    /\ tool = "login" => Len(lines) = 1
    /\ stage = "start" /\ waiting = <<>> /\ flying = {}
    /\ log = <<>> /\ report = NoReport

-----------------------------------------------------------------------------
\* Slip: the key of a request is its URL alone.
KeyOfUrl(request) == request.url

\* The key of a request.
Key(request) == <<request.purpose, request.url>>

Made == [i \in DOMAIN log |-> log[i].request]

\* The attempts at a URL, by their places in the log, and the last of them.
Attempts(u) == {i \in DOMAIN log : log[i].request.url = u}
LastTry(u) == log[Max(Attempts(u))]
OverHttp(u) == SelectInSeq(Made, LAMBDA r : r = For("http", u))
Succeeded(u) == \E i \in Attempts(u) : log[i].kind = "success"

\* smoke.ts: only what was no success over HTTP is tried with a browser.
FallsBack(request) == request.purpose = "browser" => ~Succeeded(request.url)

\* The queue takes a request unless it has, or had, one of that key.
Added(queue, request) ==
    IF /\ FallsBack(request)
       /\ \A other \in Range(Made) \cup Range(queue) : Key(other) # Key(request)
    THEN Append(queue, request) ELSE queue
Enqueued(requests) == FoldLeft(Added, <<>>, requests)
EachLine(purpose) == [i \in DOMAIN lines |-> For(purpose, lines[i])]

\* http-throughput.ts refuses an input with a malformed URL, the others do not look.
Begin ==
    /\ stage = "start"
    /\ IF tool = "direct" /\ Range(lines) \cap Malformed # {}
       THEN stage' = "thrown" /\ UNCHANGED waiting
       ELSE LET pass == IF tool = "login" THEN "login" ELSE "http" IN
            stage' = pass /\ waiting' = Enqueued(EachLine(pass))
    /\ UNCHANGED <<tool, lines, flying, log, report>>

AtOnce == IF tool = "direct" THEN Width ELSE 1

Visit ==
    /\ waiting # <<>>
    /\ Cardinality(flying) < AtOnce
    /\ waiting' = Tail(waiting) /\ flying' = flying \cup {Head(waiting)}
    /\ UNCHANGED <<tool, lines, stage, log, report>>

\* The document is there and is classified, or the request fails.  A malformed URL
\* makes the handler throw; diagnose.ts does not mind what it has read.
Brings(request, kind) ==
    /\ tool # "diagnose" /\ request.url \in Malformed => kind = "error"
    /\ tool = "diagnose" => kind \in {"success", "error"}

\* Nothing is tried again.
Ends(request, kind) ==
    /\ request \in flying /\ flying' = flying \ {request}
    /\ Brings(request, kind)
    /\ \E later \in IF tool = "direct" THEN {0, 1} ELSE {0} :  \* only there it matters
         log' = Append(log, Attempted(request, kind,
                                      later + IF log = <<>> THEN 0 ELSE Last(log).at))
    /\ UNCHANGED <<tool, lines, stage, waiting, report>>

\* The crawler cannot run at all: the exception ends the command, without a report.
Breaks ==
    /\ stage \in {"http", "browser", "login"}
    /\ stage' = "thrown" /\ waiting' = <<>> /\ flying' = {}
    /\ UNCHANGED <<tool, lines, log, report>>

PassOver == waiting = <<>> /\ flying = {}

\* diagnose.ts: home, which has a URL of its own, each URL, and the first again.
Tour == <<For("home", "home")>> \o EachLine("first") \o <<For("revisit", lines[1])>>

BrowserPass ==
    /\ tool \in {"smoke", "diagnose"} /\ stage = "http" /\ PassOver
    /\ stage' = "browser"
    /\ waiting' = Enqueued(IF tool = "smoke" THEN EachLine("browser") ELSE Tour)
    /\ UNCHANGED <<tool, lines, flying, log, report>>

\* A line's result: in diagnose.ts that over HTTP, else that of the last attempt.
Result(u) ==
    LET told == IF tool = "diagnose" THEN log[OverHttp(u)] ELSE LastTry(u) IN
    [purpose |-> told.request.purpose, kind |-> told.kind, tries |-> Cardinality(Attempts(u)),
     control |-> \E i \in Attempts(u) : log[i].kind = "blocked"]

\* http-throughput.ts: the first line of those whose refusal came earliest, or 0.
FirstRefusal ==
    LET refused == {i \in DOMAIN lines : LastTry(lines[i]).kind \in Refusals}
        came(i) == LastTry(lines[i]).at
    IN  IF refused = {} THEN 0
        ELSE CHOOSE i \in refused : \A j \in refused :
                 came(i) < came(j) \/ (came(i) = came(j) /\ i <= j)

LastPass ==
    CASE tool = "direct" -> "http" [] tool = "login" -> "login" [] OTHER -> "browser"

\* A URL has no attempt, or one without a result; in smoke.ts that it is malformed
\* is an error only now.
Unreported(u) ==
    CASE tool = "login" -> LastTry(u).kind = "error"
      [] tool = "smoke" -> OverHttp(u) = 0 \/ u \in Malformed
      [] OTHER -> OverHttp(u) = 0

Report == [results |-> [i \in DOMAIN lines |-> Result(lines[i])],
           first |-> IF tool = "direct" THEN FirstRefusal ELSE 0,
           visits |-> IF tool = "diagnose"
                      THEN {i \in DOMAIN log : log[i].request.purpose # "http"}
                      ELSE {}]

Write ==
    /\ PassOver /\ stage = LastPass
    /\ IF \E u \in Range(lines) : Unreported(u)
       THEN stage' = "thrown" /\ UNCHANGED report
       ELSE /\ stage' = "written"
            /\ report' = Report
    /\ UNCHANGED <<tool, lines, waiting, flying, log>>

Step ==
    \/ Begin \/ BrowserPass \/ Write \/ Visit
    \/ \E request \in flying, kind \in Kinds : Ends(request, kind)

Next == Step \/ Breaks

Spec == Init /\ [][Next]_probe

\* Each request has a timeout.
FairSpec == Spec /\ WF_probe(Step)

-----------------------------------------------------------------------------
\* The types of the variables.
TypeOK ==
    /\ tool \in Tools /\ Range(lines) \subseteq Sites
    /\ stage \in {"start", "thrown", "written", "http", "browser", "login"}
    /\ \A r \in Range(waiting) \cup flying \cup Range(Made) :
         r.purpose \in Purposes /\ r.url \in Sites \cup {"home"}
    /\ \A i \in DOMAIN log : log[i].kind \in Kinds
    /\ report.first \in 0..Len(lines) /\ Len(report.results) \in {0, Len(lines)}

\* smoke.ts, http-throughput.ts, diagnose.ts and login.ts: a report that is written calls
\* a line a success just when its URL was read by any channel it reports on, gives none up
\* before every channel has tried it, and counts no channel twice; it names as the first
\* refusal one that no other came before; no login is reported from a page that never
\* came; and the browser profile that is diagnosed has seen the home page before each URL,
\* and the first URL a second time at the end.
ReportTellsAll ==
    stage = "written" =>
        /\ tool # "diagnose" => \A i \in DOMAIN lines : LET r == report.results[i] IN
             /\ r.kind = "success" <=> Succeeded(lines[i])
             /\ r.tries = IF r.purpose = "browser" THEN 2 ELSE 1
             /\ tool = "smoke" /\ r.kind # "success" => r.purpose = "browser"
        /\ tool = "login" => report.results[1].kind # "error"
        /\ tool = "direct" =>
             \A i \in DOMAIN log : log[i].kind \in Refusals =>
                 /\ report.first # 0
                 /\ LastTry(lines[report.first]).at <= log[i].at
        /\ tool = "diagnose" => LET seen == report.visits IN
             /\ log[Min(seen)].request.purpose = "home"
             /\ {log[i].request.url : i \in seen \ {Min(seen), Max(seen)}} = Range(lines)
             /\ Cardinality(seen) = Cardinality(Range(lines)) + 2
             /\ log[Max(seen)].request.url = lines[1]

\* The command comes to a report or an exception.
CommandEnds == <>(stage \in {"written", "thrown"})
=============================================================================
