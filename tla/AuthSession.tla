---------------------------- MODULE AuthSession -----------------------------
(***************************************************************************)
(* The window in which a user works a browser of the server, to renew a    *)
(* platform's session, and the manager that keeps the browsers.            *)
(*                                                                         *)
(* The window asks for a task and then opens a socket to it; its answers   *)
(* may come late, when it was closed or asked again.  In the server each   *)
(* request and each socket's stream is a coroutine of one event loop: a    *)
(* step here is what it does from one await to the next, and the others    *)
(* run in between.  A task's lock lets one stream at a time work it; the   *)
(* requests do not take it.                                                *)
(*                                                                         *)
(* What is told to the window arrives at once; tasks are those of one      *)
(* platform.                                                               *)
(***************************************************************************)
EXTENDS Naturals, Sequences, FiniteSets, FiniteSetsExt

CONSTANTS MaxTasks, MaxRequests, MaxStreams     \* bounds

ASSUME AuthAssumption == MaxTasks \in Nat /\ MaxRequests \in Nat /\ MaxStreams \in Nat

VARIABLES
    open,           \* the window is open
    shown,          \* the task it shows, or 0
    current,        \* the socket it listens to, or 0
    pageStatus,     \* what it says of the page
    saved,          \* it was told that the session is saved, and will close itself
    tasks,          \* the server's tasks, in the order they were made
    requests,       \* the requests, in the order they were sent
    streams         \* the sockets, with the coroutine that serves each

window == <<open, shown, current, pageStatus, saved>>
authVars == <<window, tasks, requests, streams>>

\* What the window says; that a page is loading is never said.
PageStatuses == {"idle", "starting", "ready", "validating", "failed", "completed"}

Live == {"created", "active"}
Over == {"completed", "failed", "expired", "cancelled"}
NewTask == [status |-> "created", ready |-> FALSE, driver |-> FALSE, browser |-> "none",
            profile |-> FALSE, expired |-> FALSE, broken |-> FALSE, astray |-> FALSE]

AuthTypeOK ==
    /\ open \in BOOLEAN /\ saved \in BOOLEAN
    /\ shown \in 0..Len(tasks) /\ current \in 0..Len(streams)
    /\ pageStatus \in PageStatuses
    /\ Len(tasks) <= MaxTasks /\ Len(requests) <= MaxRequests /\ Len(streams) <= MaxStreams
    /\ \A t \in DOMAIN tasks :
         /\ tasks[t].status \in Live \cup Over
         /\ tasks[t].browser \in {"none", "running", "closing"}
    /\ \A c \in DOMAIN requests :
         /\ requests[c].kind \in {"create", "end"} /\ requests[c].of \in 0..Len(tasks)
         /\ requests[c].at \in {"sent", "closing", "stopping", "replacing", "exchanging",
                               "answered", "done"}
    /\ \A s \in DOMAIN streams :
         /\ streams[s].task \in DOMAIN tasks
         /\ streams[s].at \in {"sent", "waiting", "starting", "launching", "loading", "serving",
                               "exporting", "saving", "storing", "failing", "closing",
                               "stopping", "done"}

AuthInit ==
    /\ open = FALSE /\ shown = 0 /\ current = 0 /\ pageStatus = "idle" /\ saved = FALSE
    /\ tasks = <<>> /\ requests = <<>> /\ streams = <<>>

-----------------------------------------------------------------------------
\* The window.

At(c, at, t) == requests' = [requests EXCEPT ![c].at = at, ![c].of = t]

Ask(kind) ==
    /\ Len(requests) < MaxRequests
    /\ requests' = Append(requests, [kind |-> kind, at |-> "sent", of |-> 0])

Start == Ask("create") /\ pageStatus' = "starting"

OpenWindow ==
    /\ ~open /\ open' = TRUE
    /\ Start
    /\ UNCHANGED <<shown, current, saved, tasks, streams>>

\* A fresh browser, or another try after a failure or when no task came.
StartAgain ==
    /\ open
    /\ pageStatus \notin {"starting", "validating"} \/ shown = 0
    /\ Start
    /\ UNCHANGED <<open, shown, current, saved, tasks, streams>>

Unlinked(s) == [streams EXCEPT ![s].linked = FALSE]
WithoutCurrent == IF current = 0 THEN streams ELSE Unlinked(current)

\* One socket for the other.
Connect(t) ==
    /\ Len(streams) < MaxStreams
    /\ streams' = Append(WithoutCurrent, [task |-> t, at |-> "sent", linked |-> TRUE])
    /\ current' = Len(streams')

Rejoin ==
    /\ open /\ shown # 0 /\ pageStatus # "failed"
    /\ Connect(shown)
    /\ UNCHANGED <<open, shown, pageStatus, saved, tasks, requests>>

\* The task has come, whether or not the window is still open.
Created(c) ==
    /\ requests[c].kind = "create" /\ requests[c].at = "answered"
    /\ At(c, "done", 0)
    /\ shown' = requests[c].of /\ Connect(requests[c].of)
    /\ UNCHANGED <<open, pageStatus, saved, tasks>>

\* The request is refused or lost.
NotCreated(c) ==
    /\ requests[c].kind = "create" /\ requests[c].at = "sent"
    /\ At(c, "done", 0)
    /\ pageStatus' = "failed"
    /\ UNCHANGED <<open, shown, current, saved, tasks, streams>>

\* Closing the window gives up its socket and forgets the task.
Shut ==
    /\ open' = FALSE /\ shown' = 0 /\ current' = 0 /\ pageStatus' = "idle"
    /\ streams' = WithoutCurrent

CloseWindow == open /\ Shut /\ UNCHANGED <<saved, tasks, requests>>

\* Once the pages have been read again it closes itself, or what was opened since.
CloseSaved ==
    /\ saved /\ saved' = FALSE
    /\ IF open THEN Shut ELSE UNCHANGED <<open, shown, current, pageStatus, streams>>
    /\ UNCHANGED <<tasks, requests>>

\* The user ends the run's wait for a session.
EndRun ==
    /\ open /\ \A c \in DOMAIN requests : requests[c].kind = "end" => requests[c].at = "done"
    /\ Ask("end")
    /\ UNCHANGED <<window, tasks, streams>>

RunEnded(c) ==
    /\ requests[c].kind = "end" /\ requests[c].at = "answered"
    /\ At(c, "done", 0)
    /\ IF open THEN Shut ELSE UNCHANGED <<open, shown, current, pageStatus, streams>>
    /\ UNCHANGED <<saved, tasks>>

\* The connection breaks.
Lose ==
    /\ current # 0 /\ streams[current].linked
    /\ streams' = Unlinked(current)
    /\ UNCHANGED <<window, tasks, requests>>

\* The window hears only the socket it listens to.
Tell(s, told) ==
    /\ pageStatus' = IF s = current THEN told ELSE pageStatus
    /\ saved' = (saved \/ (s = current /\ told = "completed"))
    /\ UNCHANGED <<open, shown, current>>

-----------------------------------------------------------------------------
\* Closing a task's browser: it is out of reach at once, and gone an await later;
\* then the driver, whichever the task has by now, is taken and stopped, and what
\* runs in it ends; at last the profile is discarded.

Reachable(t) == tasks[t].browser = "running"
Idle(t) == ~Reachable(t) /\ ~tasks[t].driver
Gone(browser) == IF browser = "closing" THEN "none" ELSE browser
DriverTaken(task) ==
    [task EXCEPT !.driver = FALSE, !.browser = IF @ = "running" THEN "closing" ELSE @]
DriverStopped(task) == [task EXCEPT !.browser = Gone(@), !.profile = FALSE]
ContextClosed(task) ==
    IF task.driver THEN DriverTaken([task EXCEPT !.browser = Gone(@)])
    ELSE DriverStopped(task)

\* What is awaited first when task t is closed: `closing` its context, `stopping`
\* its driver, or `nothing`.
Awaits(t, closing, stopping, nothing) ==
    IF Reachable(t) THEN closing ELSE IF tasks[t].driver THEN stopping ELSE nothing

\* Slip: whoever closes the browser finds it only an await later.
EndingInReach(t, status) ==
    LET ending == [tasks[t] EXCEPT !.status = status, !.ready = FALSE]
    IN [tasks EXCEPT ![t] = Awaits(t, ending, DriverTaken(ending),
                                   [ending EXCEPT !.profile = FALSE])]

\* The task comes to an end as `status`, and its browser is being closed.
Ending(t, status) ==
    LET ending == [tasks[t] EXCEPT !.status = status, !.ready = FALSE] IN
    [tasks EXCEPT ![t] = Awaits(t, [ending EXCEPT !.browser = "closing"], DriverTaken(ending),
                                [ending EXCEPT !.profile = FALSE])]

\* A new task, whatever became of the others since they were looked at.
NewFor(c, sofar) ==
    /\ Len(tasks) < MaxTasks
    /\ tasks' = Append(sofar, NewTask)
    /\ At(c, "answered", Len(tasks'))

\* What a request closes first: expired tasks, or all to end the wait.
ToClose(c) ==
    {t \in DOMAIN tasks : tasks[t].status \in Live /\ (requests[c].kind = "end" \/ tasks[t].expired)}

Clean(c) ==
    /\ requests[c].at = "sent" /\ ToClose(c) # {}
    /\ LET t == Min(ToClose(c)) IN
         /\ tasks' = Ending(t, IF requests[c].kind = "end" THEN "cancelled" ELSE "expired")
         /\ At(c, Awaits(t, "closing", "stopping", "sent"), IF Idle(t) THEN 0 ELSE t)
    /\ UNCHANGED <<window, streams>>

\* The context is closed, the driver still to be stopped or not; then the request
\* looks on.
ContextCleaned(c) ==
    LET t == requests[c].of IN
    /\ requests[c].at = "closing"
    /\ tasks' = [tasks EXCEPT ![t] = ContextClosed(@)]
    /\ IF tasks[t].driver THEN At(c, "stopping", t) ELSE At(c, "sent", 0)
    /\ UNCHANGED <<window, streams>>

Cleaned(c) ==
    /\ requests[c].at = "stopping"
    /\ tasks' = [tasks EXCEPT ![requests[c].of] = DriverStopped(@)]
    /\ At(c, "sent", 0)
    /\ UNCHANGED <<window, streams>>

\* The task there is serves again if it is for the same page; else, or when a
\* fresh browser is asked for, a new one replaces it.
Create(c) ==
    LET live == {t \in DOMAIN tasks : tasks[t].status \in Live} IN
    /\ requests[c].kind = "create" /\ requests[c].at = "sent" /\ ToClose(c) = {}
    /\ IF live = {} THEN NewFor(c, tasks)
       ELSE LET t == Min(live) IN
            \/ At(c, "answered", t) /\ UNCHANGED tasks
            \/ IF Idle(t) THEN NewFor(c, Ending(t, "cancelled"))
               ELSE /\ tasks' = Ending(t, "cancelled")
                    /\ At(c, Awaits(t, "replacing", "exchanging", "answered"), t)
    /\ UNCHANGED <<window, streams>>

ContextReplaced(c) ==
    LET t == requests[c].of
        closed == [tasks EXCEPT ![t] = ContextClosed(@)] IN
    /\ requests[c].at = "replacing"
    /\ IF tasks[t].driver THEN tasks' = closed /\ At(c, "exchanging", t) ELSE NewFor(c, closed)
    /\ UNCHANGED <<window, streams>>

Replaced(c) ==
    /\ requests[c].at = "exchanging"
    /\ NewFor(c, [tasks EXCEPT ![requests[c].of] = DriverStopped(@)])
    /\ UNCHANGED <<window, streams>>

\* Closing the context fails, and with it the request; the driver is not stopped.
CloseFails(c) ==
    LET t == requests[c].of IN
    /\ requests[c].at \in {"closing", "replacing"}
    /\ tasks' = [tasks EXCEPT ![t].browser = Gone(@)]
    /\ At(c, "done", 0)
    /\ pageStatus' = IF requests[c].kind = "create" THEN "failed" ELSE pageStatus
    /\ UNCHANGED <<open, shown, current, saved, streams>>

Ended(c) ==
    /\ requests[c].kind = "end" /\ requests[c].at = "sent" /\ ToClose(c) = {}
    /\ At(c, "answered", 0)
    /\ UNCHANGED <<window, tasks, streams>>

-----------------------------------------------------------------------------
\* A stream.

Inside == {"starting", "launching", "loading", "serving", "exporting", "saving", "storing",
           "failing", "closing", "stopping"}
Moves(s, at) == streams' = [streams EXCEPT ![s].at = at]

\* The ticket is looked at and the time, not what became of the task.
Accept(s) ==
    /\ streams[s].at = "sent"
    /\ Moves(s, IF tasks[streams[s].task].expired \/ ~streams[s].linked THEN "done" ELSE "waiting")
    /\ UNCHANGED <<window, tasks, requests>>

\* One stream at a time has the task's lock.
Free(t) == \A s \in DOMAIN streams : streams[s].task = t => streams[s].at \notin Inside

\* A browser that is ready is shown; for another everything is set up anew.
Enter(s) ==
    LET t == streams[s].task IN
    /\ streams[s].at = "waiting" /\ Free(t)
    /\ IF ~streams[s].linked THEN Moves(s, "done") /\ UNCHANGED <<window, tasks>>
       ELSE IF tasks[t].ready /\ tasks[t].browser = "running"
       THEN Moves(s, "serving") /\ Tell(s, "ready") /\ UNCHANGED tasks
       ELSE /\ Moves(s, "starting") /\ Tell(s, "starting")
            /\ tasks' = [tasks EXCEPT ![t].ready = FALSE, ![t].profile = TRUE]
    /\ UNCHANGED requests

\* An exception in a stream fails the task, whatever it has become.
Fails(s) ==
    /\ Moves(s, "failing") /\ Tell(s, "failed")
    /\ tasks' = [tasks EXCEPT ![streams[s].task].status = "failed", ![streams[s].task].ready = FALSE]

\* The driver and the browser it starts replace those that the task had.
Starts(s) ==
    /\ streams[s].at = "starting"
    /\ \/ /\ Moves(s, "launching")
          /\ tasks' = [tasks EXCEPT ![streams[s].task].driver = TRUE]
          /\ UNCHANGED window
       \/ Fails(s)
    /\ UNCHANGED requests

Launches(s) ==
    LET t == streams[s].task IN
    /\ streams[s].at = "launching"
    /\ \/ /\ tasks[t].driver
          /\ Moves(s, "loading")
          /\ tasks' = [tasks EXCEPT ![t].browser = "running", ![t].astray = @ \/ Reachable(t)]
          /\ UNCHANGED window
       \/ Fails(s)
    /\ UNCHANGED requests

\* The page is there and the task active, also one that was ended meanwhile.
Loads(s) ==
    LET t == streams[s].task IN
    /\ streams[s].at = "loading"
    /\ \/ /\ tasks[t].browser = "running"
          /\ tasks' = [tasks EXCEPT ![t].status = "active", ![t].ready = TRUE]
          /\ IF streams[s].linked THEN Moves(s, "serving") /\ Tell(s, "ready")
             ELSE Moves(s, "done") /\ UNCHANGED window
       \/ Fails(s)
    /\ UNCHANGED requests

\* A picture: the page can be worked.
Frame(s) ==
    /\ streams[s].at = "serving" /\ streams[s].linked
    /\ tasks[streams[s].task].status = "active"
    /\ Tell(s, IF pageStatus = "validating" THEN pageStatus ELSE "ready")
    /\ UNCHANGED <<tasks, requests, streams>>

\* The task is over, or nobody listens: the stream ends, the browser stays.
Stops(s) ==
    /\ streams[s].at = "serving"
    /\ tasks[streams[s].task].status # "active" \/ ~streams[s].linked
    /\ streams' = [streams EXCEPT ![s].at = "done", ![s].linked = FALSE]
    /\ UNCHANGED <<window, tasks, requests>>

TimesOut(s) ==
    LET t == streams[s].task IN
    /\ streams[s].at = "serving" /\ tasks[t].status = "active" /\ tasks[t].expired
    /\ tasks' = Ending(t, "expired") /\ Moves(s, Awaits(t, "closing", "stopping", "done"))
    /\ UNCHANGED <<window, requests>>

ServeFails(s) == streams[s].at = "serving" /\ Fails(s) /\ UNCHANGED requests

\* The session is to be saved: the user says so, or the page is back from its
\* check.  The stream looks at the time between any two messages.  When it finds
\* its connection broken it leaves the browser as it is, and not ready.
Finish(s) ==
    LET t == streams[s].task IN
    /\ streams[s].at = "serving" /\ tasks[t].status = "active" /\ ~tasks[t].expired
    /\ Reachable(t) /\ tasks[t].profile
    /\ tasks' = [tasks EXCEPT ![t].ready = FALSE, ![t].broken = @ \/ ~streams[s].linked]
    /\ IF streams[s].linked THEN Moves(s, "exporting") /\ Tell(s, "validating")
       ELSE Moves(s, "done") /\ UNCHANGED window
    /\ UNCHANGED requests

\* What the browser holds is a session, and the browser is closed; or it is none.
Exports(s) ==
    LET t == streams[s].task IN
    /\ streams[s].at = "exporting"
    /\ \/ /\ Reachable(t)
          /\ tasks' = [tasks EXCEPT ![t].browser = "closing"]
          /\ Moves(s, "saving") /\ UNCHANGED window
       \/ /\ Reachable(t)
          /\ tasks' = [tasks EXCEPT ![t].ready = TRUE]
          /\ Moves(s, "serving") /\ Tell(s, "ready")
       \/ Fails(s)
    /\ UNCHANGED requests

\* It is stored together with the browser's profile, or neither is.
KeepsOrNot(s, closed) ==
    LET t == streams[s].task IN
    /\ Moves(s, "done")
    /\ \/ /\ closed.profile
          /\ tasks' = [tasks EXCEPT ![t] = [closed EXCEPT !.status = "completed", !.profile = FALSE]]
          /\ Tell(s, "completed")
       \/ /\ tasks' = [tasks EXCEPT ![t] = [closed EXCEPT !.status = "failed"]]
          /\ Tell(s, "failed")

Saves(s) ==
    LET t == streams[s].task
        gone == [tasks[t] EXCEPT !.browser = Gone(@)] IN
    /\ streams[s].at = "saving"
    /\ IF tasks[t].driver
       THEN /\ Moves(s, "storing") /\ tasks' = [tasks EXCEPT ![t] = DriverTaken(gone)]
            /\ UNCHANGED window
       ELSE KeepsOrNot(s, gone)
    /\ UNCHANGED requests

Keeps(s) ==
    LET t == streams[s].task IN
    /\ streams[s].at = "storing"
    /\ KeepsOrNot(s, [tasks[t] EXCEPT !.browser = Gone(@)])
    /\ UNCHANGED requests

\* The way out after a failure.
Abandon(s) ==
    LET t == streams[s].task IN
    /\ streams[s].at = "failing"
    /\ tasks' = Ending(t, tasks[t].status) /\ Moves(s, Awaits(t, "closing", "stopping", "done"))
    /\ UNCHANGED <<window, requests>>

Closes(s) ==
    LET t == streams[s].task IN
    /\ streams[s].at = "closing"
    /\ tasks' = [tasks EXCEPT ![t] = ContextClosed(@)]
    /\ Moves(s, IF tasks[t].driver THEN "stopping" ELSE "done")
    /\ UNCHANGED <<window, requests>>

Closed(s) ==
    /\ streams[s].at = "stopping"
    /\ tasks' = [tasks EXCEPT ![streams[s].task] = DriverStopped(@)]
    /\ Moves(s, "done")
    /\ UNCHANGED <<window, requests>>

\* Closing the context fails: what was exported is not saved, a timeout becomes a
\* failure, and after a failure the stream ends; the driver is not stopped.
ClosingFails(s) ==
    LET t == streams[s].task
        gone == [tasks[t] EXCEPT !.browser = Gone(@), !.status = "failed"] IN
    /\ \/ streams[s].at = "saving" /\ Moves(s, "done") /\ Tell(s, "failed")
       \/ /\ streams[s].at = "closing" /\ tasks[t].status = "expired"
          /\ Moves(s, "failing") /\ Tell(s, "failed")
       \/ /\ streams[s].at = "closing" /\ tasks[t].status # "expired"
          /\ Moves(s, "done") /\ UNCHANGED window
    /\ tasks' = [tasks EXCEPT ![t] = gone]
    /\ UNCHANGED requests

Expire(t) ==
    /\ ~tasks[t].expired
    /\ tasks' = [tasks EXCEPT ![t].expired = TRUE]
    /\ UNCHANGED <<window, requests, streams>>

-----------------------------------------------------------------------------
RequestRuns(c) ==
    \/ Clean(c) \/ ContextCleaned(c) \/ Cleaned(c)
    \/ Create(c) \/ ContextReplaced(c) \/ Replaced(c) \/ CloseFails(c) \/ Ended(c)
StreamRuns(s) ==
    \/ Accept(s) \/ Enter(s) \/ Starts(s) \/ Launches(s) \/ Loads(s) \/ Stops(s) \/ TimesOut(s)
    \/ Exports(s) \/ Saves(s) \/ Keeps(s) \/ ClosingFails(s)
    \/ Abandon(s) \/ Closes(s) \/ Closed(s)

AuthNext ==
    \/ OpenWindow \/ StartAgain \/ Rejoin \/ CloseWindow \/ CloseSaved \/ EndRun \/ Lose
    \/ \E c \in DOMAIN requests : Created(c) \/ NotCreated(c) \/ RunEnded(c) \/ RequestRuns(c)
    \/ \E s \in DOMAIN streams : Frame(s) \/ ServeFails(s) \/ Finish(s) \/ StreamRuns(s)
    \/ \E t \in DOMAIN tasks : Expire(t)

-----------------------------------------------------------------------------
\* AuthManager: a browser that runs is that of an active task, or some stream is
\* still to close it or to make its task active, whatever ended the task meanwhile;
\* and none runs on that its task has lost for another, except when a stream came
\* back after the saving of the session found its connection broken.
BrowsersAccounted ==
    \A t \in DOMAIN tasks :
        /\ tasks[t].browser = "running" /\ tasks[t].status # "active"
           => \E s \in DOMAIN streams : streams[s].task = t /\ streams[s].at \in Inside
        /\ tasks[t].astray => tasks[t].broken
=============================================================================
