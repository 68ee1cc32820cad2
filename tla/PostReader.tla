----------------------------- MODULE PostReader -----------------------------
(***************************************************************************)
(* A run's page in which posts are read, one after the other, in a sheet,  *)
(* and judged by hand in a window above it.                                *)
(*                                                                         *)
(* A post's content is a query of its own.  Until it has come, the sheet   *)
(* goes on showing the post before it, also one shown before the sheet was *)
(* closed, and so do the buttons to its neighbours: any post may be next.  *)
(* The window works on what the sheet shows.                               *)
(***************************************************************************)
EXTENDS EventRefresh

CONSTANTS
    Posts,          \* the posts, queries of the page
    None            \* no post

ASSUME ReaderAssumption == Posts \subseteq Queries /\ None \notin Posts

VARIABLES
    reading,        \* the post the sheet is open for
    seen,           \* what it shows: a post in a version
    switching,      \* a step to a neighbour has not been completed
    judging,        \* the window is open
    entered,        \* what its fields were filled for
    verdict         \* the verdict being saved

reader == <<reading, seen, switching, judging, entered, verdict>>

\* What is shown of a post stands for all of it.
Views == [post : Posts \cup {None}, version : Nat]
Nobody == [post |-> None, version |-> 0]
NoVerdict == [stage |-> "none"]

ReaderTypeOK ==
    /\ reading \in Posts \cup {None}
    /\ {seen, entered} \subseteq Views
    /\ switching \in BOOLEAN /\ judging \in BOOLEAN
    /\ verdict.stage \in {"none", "sent", "stored", "refreshing"}

ReaderInit ==
    /\ reading = None /\ seen = Nobody /\ switching = FALSE
    /\ judging = FALSE /\ entered = Nobody /\ verdict = NoVerdict

-----------------------------------------------------------------------------
\* What the sheet shows for `post`: its content as it is held, or what it showed.
Shows(post) ==
    IF post # None /\ cache'[post] # 0 THEN [post |-> post, version |-> cache'[post]] ELSE seen

\* Slip: the fields are filled when the window is opened, and not again.
RefilledNever == entered

\* The window's fields are filled again whenever the post or its content changes
\* below it.
Refilled == IF judging /\ seen' # seen THEN seen' ELSE entered

\* Another post is read.
Turn(post) ==
    /\ reading' = post /\ Show({post})
    /\ seen' = Shows(post)
    /\ UNCHANGED <<judging, entered, verdict>>

OpenPost(post) == reading = None /\ Turn(post) /\ UNCHANGED switching

\* The buttons wait for the step before to be completed.
Move(post) ==
    /\ reading # None /\ ~judging /\ ~switching
    /\ Turn(post)
    /\ switching' \in IF fetching'[post] = "idle" THEN BOOLEAN ELSE {TRUE}

\* The neighbours of the post have come too.
Moved ==
    /\ switching /\ fetching[reading] = "idle"
    /\ switching' = FALSE
    /\ UNCHANGED <<reading, seen, judging, entered, verdict, events>>

ClosePost ==
    /\ reading # None /\ ~judging
    /\ reading' = None /\ switching' = FALSE
    /\ Show({})
    /\ UNCHANGED <<seen, judging, entered, verdict>>

\* The content has come, or has not.
Refreshed ==
    /\ seen' = Shows(reading) /\ entered' = Refilled
    /\ UNCHANGED <<reading, switching, judging, verdict>>

PostSettles(post) == Settle(post) /\ Refreshed
PostFails(post) == Fail(post) /\ Refreshed

-----------------------------------------------------------------------------
\* The window is opened from the sheet, whatever post that shows, and may be
\* closed at any time, also while a verdict is being saved.
Judge ==
    /\ reading # None /\ seen # Nobody /\ ~judging /\ judging' = TRUE
    /\ entered' = seen
    /\ UNCHANGED <<reading, seen, switching, verdict, events>>

Leave ==
    /\ judging /\ judging' = FALSE /\ entered' = Nobody
    /\ UNCHANGED <<reading, seen, switching, verdict, events>>

\* The verdict is what the fields hold; it goes to the post that is shown.
Submit ==
    /\ judging /\ verdict = NoVerdict
    /\ verdict' = [stage |-> "sent", of |-> entered, to |-> seen]
    /\ UNCHANGED <<reading, seen, switching, judging, entered, events>>

VerdictStored ==
    /\ verdict.stage = "sent"
    /\ Publish(verdict.to.post)
    /\ verdict' = [stage |-> "stored"]
    /\ UNCHANGED <<reading, seen, switching, judging, entered, active, round,
                   held, incidents>>

VerdictLost ==
    /\ verdict.stage \in {"sent", "stored"}
    /\ incidents < MaxIncidents /\ incidents' = incidents + 1
    /\ verdict' = NoVerdict
    /\ UNCHANGED <<reading, seen, switching, judging, entered, server, stream,
                   active, round, held>>

\* The post the sheet shows by now is read anew.
VerdictAnswered ==
    /\ verdict.stage = "stored"
    /\ verdict' = [stage |-> "refreshing"]
    /\ IF reading = None THEN UNCHANGED <<fetching, answer>>
       ELSE /\ fetching' = [fetching EXCEPT ![reading] = "asked"]
            /\ answer' = [answer EXCEPT ![reading] = 0]
    /\ UNCHANGED <<reading, seen, switching, judging, entered, server, stream,
                   active, invalidated, pending, timer, known, incidents>>

\* When it has come the window closes, for whichever post it was opened since.
VerdictDone ==
    /\ verdict.stage = "refreshing"
    /\ reading # None => fetching[reading] = "idle"
    /\ verdict' = NoVerdict /\ judging' = FALSE /\ entered' = Nobody
    /\ UNCHANGED <<reading, seen, switching, events>>

\* Somebody else judges a post, or its analysis ends.
PostChanges(post) == Publish(post) /\ UNCHANGED <<active, round, held, incidents, reader>>

ReaderNext ==
    \/ \E post \in Posts : \/ OpenPost(post) \/ Move(post)
                           \/ PostSettles(post) \/ PostFails(post) \/ PostChanges(post)
    \/ Moved \/ ClosePost
    \/ Judge \/ Leave \/ Submit \/ VerdictStored \/ VerdictLost \/ VerdictAnswered \/ VerdictDone

-----------------------------------------------------------------------------
\* ManualSentimentDialog: a verdict goes to the post, and was entered upon the
\* content, that its fields were filled for, although the sheet changes below the
\* window.
SentAsShown == verdict.stage = "sent" => verdict.of = verdict.to
=============================================================================
