---------------------------- MODULE MCWebConsole ----------------------------
(***************************************************************************)
(* One page of the web console at a time: the forms, the posts of a run    *)
(* (both with the events that keep them up to date), the sheet for a new   *)
(* extraction, and the window for a platform's session.                    *)
(***************************************************************************)
EXTENDS ConfigForms, PostReader, ExtractionSheet, AuthSession

VARIABLE page

ASSUME AnswersApart == Form \notin Posts

console == <<events, form, reader, extraction, authVars, page>>

\* An event about a post concerns all of them.
MCConcerns == [q \in Queries |-> IF q \in Posts THEN Posts ELSE {q}]
MCVersions == [q \in Queries |-> IF q = Form THEN 3 ELSE IF q = "first" THEN 2 ELSE 1]

MCLater == [q \in Queries |-> IF q = "first" THEN 3 ELSE 1]

Pages == {"forms", "posts", "extraction", "session"}

ConsoleInit ==
    /\ page \in Pages
    /\ EventsInit(IF page = "forms" THEN {Form} ELSE {})
    /\ FormInit /\ (page # "forms" => kind = "plan")
    /\ ReaderInit /\ SheetInit /\ AuthInit

\* What the page that is shown does; the others are not there.
On(p, rest) == page = p /\ UNCHANGED <<page, rest>>

OnForms == On("forms", <<reader, extraction, authVars>>)
OnPosts == On("posts", <<form, extraction, authVars>>)
OnExtraction == On("extraction", <<events, form, reader, authVars>>)
OnSession == On("session", <<events, form, reader, extraction>>)
Listening ==
    /\ page \in {"forms", "posts"}
    /\ UNCHANGED <<page, form, reader, extraction, authVars>>

ConsoleNext ==
    \/ Listening /\ EventsNext
    \/ OnForms /\ FormNext
    \/ OnPosts /\ ReaderNext
    \/ OnExtraction /\ SheetNext
    \/ OnSession /\ AuthNext

\* Timers fire, the stream is opened again and brings its events; requests reach
\* the server and come back, although some are asked anew on their way.  Users
\* and other users need not do anything.
Fairness ==
    /\ WF_events((TimerFires \/ Deliver \/ Reconnect) /\ Listening)
    /\ SF_events((\E q \in Queries : Read(q)) /\ Listening)
    /\ SF_events((FormSettles /\ OnForms) \/ ((\E p \in Posts : PostSettles(p)) /\ OnPosts))

ConsoleSpec == ConsoleInit /\ [][ConsoleNext]_console /\ Fairness

\* The same, and the server's process restarts while posts are read.
RestartNext == ConsoleNext \/ (Listening /\ Restart)
RestartSpec == ConsoleInit /\ page = "posts" /\ [][RestartNext]_console /\ Fairness

-----------------------------------------------------------------------------
\* The types of all pages' variables.
TypesOK == TypeOK /\ FormTypeOK /\ ReaderTypeOK /\ SheetTypeOK /\ AuthTypeOK

\* run-detail-page.tsx, extraction-sheet.tsx: a verdict is sent for the post whose
\* content was shown to its user, and a run under the platform its circles and
\* links were chosen for.
SentAsMeant == SentAsShown /\ StartedForItsPlatform

\* docs/design/technical-route.md:123: what was missed while the server's process
\* restarted is read after the stream is open again, and what changes from then
\* on is shown too.
RefreshedAfterRestart == RefreshedInTheEnd
=============================================================================
