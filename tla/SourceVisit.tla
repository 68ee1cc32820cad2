---------------------------- MODULE SourceVisit ----------------------------
(***************************************************************************)
(* The visits to one source of Autohome, whose task freezes the posts it   *)
(* will take before it asks for the first.  What a visit finds is saved    *)
(* post by post; a failure is tried again in the next visit or in a later  *)
(* round, or is final; a restart, a lost session or a failure of the       *)
(* source itself may end a visit anywhere.  PlatformQueue says when the    *)
(* next visit comes.                                                       *)
(***************************************************************************)
EXTENDS Naturals

CONSTANTS Candidates,   \* numbered in the order of the list
          MaxRounds,    \* HOMEPAGE_MAX_RETRY_ROUNDS
          MaxSetbacks   \* restarts, lost sessions, failures of the source

ASSUME SourceVisitAssumption ==
  Candidates \subseteq Nat /\ MaxRounds \in Nat /\ MaxSetbacks \in Nat

VARIABLES
  task,      \* CircleTask: status and checkpoint
  saved,     \* the candidates with a PostSnapshot
  verified,  \* Circle.validation_status
  visit,     \* what _execute_task holds, and where it is
  last,      \* the last answer about a candidate, in this round (history)
  unnamed,   \* how candidates may have got out of sight (history)
  setbacks

visiting == <<task, saved, verified, visit, last, unnamed, setbacks>>

Over == {"success", "partial", "failed"}
Temporary == {"network", "limited"}  \* RETRYABLE_ACCESS_FAILURE_CODES

(* frozen: FROZEN_CANDIDATES_KEY; retry: retry_urls; terminal:             *)
(* terminal_failures; home: homepage_pending_failures; used:               *)
(* source_batch_retry_used; failed: failed_urls.                           *)
TaskStates ==
  [status : {"queued", "running", "waiting"} \cup Over, frozen : BOOLEAN,
   retry : SUBSET Candidates, terminal : SUBSET Candidates, home : SUBSET Candidates,
   round : 0..MaxRounds, used : BOOLEAN, failed : SUBSET Candidates]

(* urls, left: retry_urls and known_urls; asked: those of them this call   *)
(* has an answer for; now: its failures; prior, pending: the failures of   *)
(* earlier calls; noted: what is reported of a session that is lost.       *)
VisitStates ==
  [at : {"no", "validate", "list", "ask", "refresh", "over", "source", "batch", "lost", "failed"},
   half : 1..2, needs : BOOLEAN, validated : BOOLEAN, known : BOOLEAN,
   urls : SUBSET Candidates, left : SUBSET Candidates, asked : SUBSET Candidates,
   prior : SUBSET Candidates, pending : SUBSET Candidates, noted : SUBSET Candidates,
   now : [Candidates -> {"none", "home", "gone"} \cup Temporary]]

NoFailure == [c \in Candidates |-> "none"]
NoVisit ==
  [at |-> "no", half |-> 1, needs |-> FALSE, validated |-> FALSE, known |-> FALSE,
   urls |-> {}, left |-> {}, asked |-> {}, prior |-> {}, pending |-> {}, noted |-> {},
   now |-> NoFailure]

VisitTypeOK ==
  /\ task \in TaskStates /\ visit \in VisitStates
  /\ task.status = "running" <=> visit.at # "no"
  /\ saved \subseteq Candidates /\ verified \in BOOLEAN
  /\ last \in [Candidates -> {"none", "home", "saved", "final"}]
  /\ unnamed \subseteq {"emptied", "given up"}
  /\ setbacks \in 0..MaxSetbacks

VisitInit ==
  /\ task = [status |-> "queued", frozen |-> FALSE, retry |-> {}, terminal |-> {}, home |-> {},
             round |-> 0, used |-> FALSE, failed |-> {}]
  /\ saved = {} /\ verified \in BOOLEAN /\ visit = NoVisit
  /\ last = [c \in Candidates |-> "none"] /\ unnamed = {} /\ setbacks = 0

Setback == setbacks < MaxSetbacks /\ setbacks' = setbacks + 1

-----------------------------------------------------------------------------
(* A visit *)

(* "Slip:" what was sent to the home page is asked for at once. *)
UnansweredAtHome(urls) == urls \ (saved \cup task.terminal)

(* What the rows and the checkpoint leave to be asked for. *)
Unanswered(urls) == urls \ (saved \cup task.terminal \cup task.home)

(* Where a call goes on once the circle is valid. *)
Stage(v) == IF ~v.known THEN "list" ELSE IF v.left = {} THEN "over" ELSE "ask"

(* The claim of the lane, then _execute_task up to the collector. *)
BeginVisit ==
  /\ task.status = "queued"
  /\ task' = [task EXCEPT !.status = "running"]
  /\ LET v == [NoVisit EXCEPT !.needs = ~verified, !.known = task.frozen \/ task.retry # {},
                              !.urls = task.retry, !.left = Unanswered(task.retry),
                              !.prior = task.terminal, !.pending = task.home]
     IN visit' = [v EXCEPT !.at = IF v.needs THEN "validate" ELSE Stage(v)]
  /\ UNCHANGED <<saved, verified, last, unnamed, setbacks>>

(* AuthenticationRequired: the first is answered by a new session, the    *)
(* second ends the visit with what this call knows.                       *)
LoginLost(v) ==
  [v EXCEPT !.at = IF v.half = 1 THEN "refresh" ELSE "lost",
            !.noted = {c \in Candidates : v.now[c] # "none"}]

(* collector_failure_result for a captcha or a challenge. *)
Challenged(v) == [v EXCEPT !.at = "lost", !.noted = v.prior]

(* TASK_INTERNAL_ERROR: the lane knows nothing of the visit any more. *)
Broken(v) == [v EXCEPT !.at = "failed", !.validated = FALSE]

(* What may go wrong with the source, before a candidate is asked for. *)
SourceFails ==
  /\ Setback
  /\ \/ visit' = LoginLost(visit)
     \/ visit' = Challenged(visit)
     \/ visit' = Broken(visit)
     \/ visit' = [visit EXCEPT !.at = "source"]  \* network, rate limit, unstable layout
     \/ visit' = [visit EXCEPT !.at = "failed"]

(* validate_circle, when the circle was not verified. *)
Validate ==
  /\ visit.at = "validate"
  /\ \/ /\ visit' = [visit EXCEPT !.validated = TRUE, !.at = Stage(visit)]
        /\ UNCHANGED setbacks
     \/ SourceFails
  /\ UNCHANGED <<task, saved, verified, last, unnamed>>

(* collect_circle reads the list; freeze_candidates stores it.  A list that *)
(* is missing is looked for once more, after the others' first round.       *)
ReadList ==
  /\ visit.at = "list"
  /\ \/ /\ task' = [task EXCEPT !.frozen = TRUE, !.retry = Candidates]
        /\ LET v == [visit EXCEPT !.known = TRUE, !.urls = Candidates, !.left = Candidates]
           IN visit' = [v EXCEPT !.at = Stage(v)]
        /\ UNCHANGED setbacks
     \/ /\ SourceFails
        /\ UNCHANGED task
     \/ /\ Setback
        /\ visit' = [visit EXCEPT !.at = IF task.used THEN "failed" ELSE "batch"]
        /\ UNCHANGED task
  /\ UNCHANGED <<saved, verified, last, unnamed>>

(* The call goes on to the next candidate or is over. *)
Answered(c, now) ==
  LET v == [visit EXCEPT !.asked = @ \cup {c}, !.now = now]
  IN [v EXCEPT !.at = IF v.left = v.asked THEN "over" ELSE "ask"]

Found(c) ==
  /\ saved' = saved \cup {c} /\ last' = [last EXCEPT ![c] = "saved"]
  /\ visit' = Answered(c, visit.now)
  /\ UNCHANGED <<task, setbacks>>

(* Deleted or invalid: report_progress stores that it is final. *)
NotFound(c) ==
  /\ task' = [task EXCEPT !.terminal = @ \cup {c}] /\ last' = [last EXCEPT ![c] = "final"]
  /\ visit' = Answered(c, [visit.now EXCEPT ![c] = "gone"])
  /\ UNCHANGED <<saved, setbacks>>

(* The home page came instead: this is for a later round, if there is one. *)
Redirected(c) ==
  /\ IF task.round < MaxRounds
     THEN /\ task' = [task EXCEPT !.home = @ \cup {c}] /\ last' = [last EXCEPT ![c] = "home"]
     ELSE /\ task' = [task EXCEPT !.terminal = @ \cup {c}] /\ last' = [last EXCEPT ![c] = "final"]
  /\ visit' = Answered(c, [visit.now EXCEPT ![c] = "home"])
  /\ UNCHANGED <<saved, setbacks>>

Unreachable(c) ==
  /\ visit' = Answered(c, [visit.now EXCEPT ![c] = "network"])
  /\ UNCHANGED <<task, saved, last, setbacks>>

(* The call ends; the candidates not asked for yet are as limited. *)
Limited ==
  /\ visit' = [visit EXCEPT !.at = "over",
                            !.now = [c \in Candidates |-> IF c \in visit.left \ visit.asked
                                                          THEN "limited" ELSE @[c]]]
  /\ UNCHANGED <<task, saved, last, setbacks>>

(* fetch_post of the next candidate, with report_progress and what it saves *)
(* at once (progress_batch_size is 1); one is asked for at a time.          *)
Ask(c) ==
  /\ visit.at = "ask" /\ c \in visit.left \ visit.asked
  /\ \A d \in visit.left \ visit.asked : c <= d
  /\ \/ Found(c) \/ NotFound(c) \/ Redirected(c) \/ Unreachable(c) \/ Limited
     \/ /\ Setback
        /\ visit' \in {LoginLost(visit), Challenged(visit), Broken(visit)}
        /\ UNCHANGED <<task, saved, last>>
  /\ UNCHANGED <<verified, unnamed>>

(* The checkpoint is read anew and _refresh_after_auth tried; with a new   *)
(* session a second call is made.                                          *)
Refresh ==
  /\ visit.at = "refresh"
  /\ LET v == [visit EXCEPT !.prior = task.terminal, !.pending = task.home,
                            !.left = Unanswered(visit.left)]
         w == [v EXCEPT !.half = 2, !.asked = {}, !.now = NoFailure]
     IN \/ visit' = [w EXCEPT !.at = IF w.needs /\ ~w.validated THEN "validate" ELSE Stage(w)]
        \/ visit' = [v EXCEPT !.at = "lost"]
  /\ UNCHANGED <<task, saved, verified, last, unnamed, setbacks>>

-----------------------------------------------------------------------------
(* Its result: finalize_payload and _apply_result *)

Of(kinds) == {c \in Candidates : visit.now[c] \in kinds}

Again == Of(Temporary)

(* "Slip:" only what this call was answered. *)
ForLaterNow == IF task.round < MaxRounds THEN Of({"home"}) ELSE {}

ForLater == visit.pending \cup (IF task.round < MaxRounds THEN Of({"home"}) ELSE {})
Final == visit.prior \cup (Of({"home", "gone"}) \ ForLater)

EndVisit(t) ==
  /\ task' = t
  /\ verified' = (verified \/ visit.validated)
  /\ visit' = NoVisit
  /\ UNCHANGED <<saved, setbacks>>

WithResults == IF saved = {} THEN "failed" ELSE "partial"

(* Trouble with the network or the rate goes first, then the next round. *)
StoreCall ==
  /\ visit.at = "over"
  /\ LET t == [task EXCEPT !.terminal = Final, !.failed = Again \cup ForLater \cup Final]
         round == Again = {} /\ ForLater # {}
     IN /\ EndVisit(
             IF Again # {} THEN [t EXCEPT !.status = "queued", !.retry = Again, !.home = ForLater]
             ELSE IF round THEN [t EXCEPT !.status = "queued", !.retry = ForLater, !.home = {},
                                          !.round = @ + 1]
             ELSE [t EXCEPT !.status = IF Final = {} THEN "success" ELSE WithResults,
                            !.retry = {}, !.home = {}])
        /\ last' = [c \in Candidates |-> IF round /\ last[c] = "home" THEN "none" ELSE last[c]]
  /\ UNCHANGED unnamed

(* retry_scope is "source": retry_urls is emptied, the frozen candidates   *)
(* stay, and the next visit has nothing to ask for.                        *)
StoreSourceRetry ==
  /\ visit.at \in {"source", "batch"}
  /\ EndVisit([task EXCEPT !.status = "queued", !.retry = {}, !.terminal = visit.prior,
                           !.failed = visit.prior, !.used = @ \/ visit.at = "batch"])
  /\ unnamed' = IF task.frozen THEN unnamed \cup {"emptied"} ELSE unnamed
  /\ UNCHANGED last

StoreLost ==
  /\ visit.at = "lost"
  /\ EndVisit([task EXCEPT !.status = "waiting", !.terminal = @ \cup visit.prior,
                           !.retry = IF visit.urls = {} THEN @ ELSE visit.urls,
                           !.failed = visit.noted])
  /\ UNCHANGED <<last, unnamed>>

StoreFailed ==
  /\ visit.at = "failed"
  /\ EndVisit([task EXCEPT !.status = WithResults, !.retry = {}, !.terminal = {}, !.failed = {}])
  /\ UNCHANGED <<last, unnamed>>

-----------------------------------------------------------------------------
(* What others do *)

(* resume_platform *)
ResumeTask ==
  /\ task.status = "waiting"
  /\ task' = [task EXCEPT !.status = "queued"]
  /\ UNCHANGED <<saved, verified, visit, last, unnamed, setbacks>>

(* end_auth_wait *)
GiveUpTask ==
  /\ task.status = "waiting"
  /\ task' = [task EXCEPT !.status = WithResults]
  /\ unnamed' = unnamed \cup {"given up"}
  /\ UNCHANGED <<saved, verified, visit, last, setbacks>>

(* A job that validates the circle fails. *)
Unverify ==
  /\ verified /\ Setback
  /\ verified' = FALSE
  /\ UNCHANGED <<task, saved, visit, last, unnamed>>

(* The process ends in the middle of a visit; recover_interrupted. *)
InterruptVisit ==
  /\ visit.at # "no" /\ Setback
  /\ task' = [task EXCEPT !.status = "queued"]
  /\ visit' = NoVisit
  /\ UNCHANGED <<saved, verified, last, unnamed>>

VisitNext ==
  \/ BeginVisit \/ Validate \/ ReadList \/ Refresh
  \/ \E c \in Candidates : Ask(c)
  \/ StoreCall \/ StoreSourceRetry \/ StoreLost \/ StoreFailed
  \/ ResumeTask \/ GiveUpTask \/ Unverify \/ InterruptVisit

VisitSpec == VisitInit /\ [][VisitNext]_visiting

-----------------------------------------------------------------------------
(* When a task is over every frozen candidate is saved, or is among the    *)
(* failures from which RunService.retry (services.py:1626) takes what to   *)
(* extract again, or these are none and the task did not succeed, so that  *)
(* the list is read again; and no saved one is counted as failed.  Two     *)
(* ways out of sight are known: a retry of the source after the list was   *)
(* frozen (worker.py:1248), and a wait for a session the user ends, with   *)
(* the failures of the last call only (worker.py:1091).                    *)
CandidatesAccounted ==
  task.status \in Over /\ task.frozen =>
    /\ task.failed \cap saved = {}
    /\ unnamed = {} => \A c \in Candidates :
         c \in saved \cup task.failed \/ (task.status # "success" /\ task.failed = {})

(* Nothing is asked for that was saved or is final, nor twice in a round   *)
(* what was sent to the home page, whatever was interrupted in between     *)
(* (docs/design/product-design.md:23 has this of successes and rounds).    *)
AskedOnce == [][\A c \in Candidates : Ask(c) => last[c] = "none"]_visiting
=============================================================================
