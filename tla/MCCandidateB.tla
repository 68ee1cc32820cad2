---------------------------- MODULE MCCandidateB ----------------------------
(***************************************************************************)
(* One of the commands of the second collector candidate: a bounded        *)
(* recovery; a crawl, called up to three times for one output directory;   *)
(* or a probe.                                                            *)
(***************************************************************************)
EXTENDS SessionRecovery

CONSTANTS Pages, MaxAttempts, Concurrency, Samples, MaxCalls, MaxMishaps,
          Sites, Malformed, MaxLines, Width

VARIABLES command, phase, rows, finalized, request, strays, deadline, sampled, samples,
          profile, calls, mishaps,
          tool, lines, stage, waiting, flying, log, report

crawl == <<phase, rows, finalized, request, strays, deadline, sampled, samples, profile,
           calls, mishaps>>
probe == <<tool, lines, stage, waiting, flying, log, report>>
all == <<command, vars, crawl, probe>>

Crawl == INSTANCE Throughput
Probe == INSTANCE BatchProbe

ASSUME CrawlNumbers == Crawl!Numbers
ASSUME ProbeInput == Probe!ProbeInput

\* The input of a probe matters to a probe alone.
CommandInit ==
    /\ command \in {"recover", "crawl", "probe"} /\ Init /\ Crawl!Init /\ Probe!Init
    /\ command # "probe" => tool = "smoke" /\ lines = <<CHOOSE u \in Sites : TRUE>>
    /\ command = "probe" => at = "head" /\ usable /\ profile.target = "session"

Recover == command = "recover" /\ UNCHANGED <<command, crawl, probe>>
Visit == command = "crawl" /\ UNCHANGED <<command, vars, probe>>
Look == command = "probe" /\ UNCHANGED <<command, vars, crawl>>

CommandNext ==
    \/ Recover /\ Next
    \/ Visit /\ Crawl!Next
    \/ Look /\ Probe!Next

CommandSpec ==
    /\ CommandInit /\ [][CommandNext]_all
    /\ WF_all(Recover /\ Step)
    /\ WF_all(Visit /\ Crawl!Main) /\ WF_all(Visit /\ Crawl!Deadline)
    /\ \A u \in Pages : WF_all(Visit /\ Crawl!Step(u))
    /\ WF_all(Look /\ Probe!Step)

-----------------------------------------------------------------------------
\* The types of all commands' variables.
TypesOK == TypeOK /\ Crawl!TypeOK /\ Probe!TypeOK

\* bounded-session-recovery.ts and throughput.ts: across sessions, calls and mishaps each
\* URL is dealt with once, a recovery counts as one just when the URL that was refused has
\* got another answer, and a crawl's file has one row of a URL, and for each further one a
\* stray handler.
UrlsExplained == UrlsAccounted /\ Crawl!RowsExplained

\* throughput.ts: no saved session is lost by one mishap.
SessionSurvives == Crawl!SessionSurvives

\* The probes: a report tells of every line what its attempts brought.
ReportsTellAll == Probe!ReportTellsAll

\* The command ends, each time it is called.
EachCommandEnds ==
    /\ command = "recover" => CommandEnds
    /\ command = "crawl" => Crawl!CommandEnds
    /\ command = "probe" => Probe!CommandEnds
=============================================================================
