-------------------------- MODULE ExtractionSheet ---------------------------
(***************************************************************************)
(* The sheet in which an extraction is put together and sent: a platform,  *)
(* and its circles or links of it.  Platforms come and go while it is      *)
(* open, answers come when it was closed and opened again.                 *)
(*                                                                         *)
(* A circle or a link stands for its platform; what the two modes hold is  *)
(* kept apart, and only the one that is chosen is sent.                    *)
(***************************************************************************)
EXTENDS Naturals, FiniteSets

CONSTANTS
    Platforms,
    Default,        \* the platform the sheet starts with
    MaxSent,        \* bound: extractions sent
    MaxOutages      \* bound: changes of the platforms that can be used

ASSUME SheetAssumption == Default \in Platforms /\ MaxSent \in Nat /\ MaxOutages \in Nat

VARIABLES
    sheet,          \* it is open
    mode,           \* "circles" or "links"
    platform,       \* the platform chosen
    chosen,         \* what was put in, in each mode: the platforms it is of
    usable,         \* the platforms that are connected and switched on, as last read
    submission,     \* the extraction being sent
    runs,           \* the extractions the server started
    sent, outages

extraction == <<sheet, mode, platform, chosen, usable, submission, runs, sent, outages>>

Modes == {"circles", "links"}
Empty == [m \in Modes |-> {}]
NoSubmission == [stage |-> "none"]

SheetTypeOK ==
    /\ sheet \in BOOLEAN /\ mode \in Modes /\ platform \in Platforms
    /\ chosen \in [Modes -> SUBSET Platforms] /\ usable \subseteq Platforms
    /\ submission.stage \in {"none", "sent", "started"}
    /\ sent \in 0..MaxSent /\ outages \in 0..MaxOutages

SheetInit ==
    /\ sheet = FALSE /\ mode = "circles" /\ platform = Default /\ usable = Platforms
    /\ chosen = Empty /\ submission = NoSubmission /\ runs = {}
    /\ sent = 0 /\ outages = 0

-----------------------------------------------------------------------------
\* Slip: what was put in stays.
SelectOnly(next) == platform' = next /\ UNCHANGED chosen

\* Another platform: what was put in for the one before is given up.
Select(next) ==
    /\ platform' = next
    /\ chosen' = IF next = platform THEN chosen ELSE Empty

ChoosePlatform ==
    /\ sheet /\ \E next \in usable : Select(next)
    /\ UNCHANGED <<sheet, mode, usable, submission, runs, sent, outages>>

\* The platforms are read again; for one that cannot be used any more another is
\* chosen.
PlatformsRead ==
    /\ outages < MaxOutages /\ outages' = outages + 1
    /\ \E now \in SUBSET Platforms \ {usable} :
         /\ usable' = now
         /\ IF platform \in now \/ now = {} THEN UNCHANGED <<platform, chosen>>
            ELSE \E next \in now : Select(next)
    /\ UNCHANGED <<sheet, mode, submission, runs, sent>>

Reset == mode' = "circles" /\ chosen' = Empty

OpenSheet ==
    /\ ~sheet /\ sheet' = TRUE
    /\ UNCHANGED <<mode, platform, chosen, usable, submission, runs, sent, outages>>

CloseSheet ==
    /\ sheet /\ sheet' = FALSE /\ Reset
    /\ UNCHANGED <<platform, usable, submission, runs, sent, outages>>

ChooseMode ==
    /\ sheet /\ \E m \in Modes : mode' = m
    /\ UNCHANGED <<sheet, platform, chosen, usable, submission, runs, sent, outages>>

\* Circles of the platform are ticked, or taken out again; links are typed.
Choose ==
    /\ sheet /\ \E of \in {{}, {platform}} : chosen' = [chosen EXCEPT ![mode] = of]
    /\ UNCHANGED <<sheet, mode, platform, usable, submission, runs, sent, outages>>

-----------------------------------------------------------------------------
CanSubmit == submission = NoSubmission /\ chosen[mode] # {} /\ platform \in usable

\* Each press of the button is an extraction of its own, with a key of its own.
SubmitSheet ==
    /\ sheet /\ CanSubmit /\ sent < MaxSent
    /\ sent' = sent + 1
    /\ submission' = [stage |-> "sent", key |-> sent', platform |-> platform, of |-> chosen[mode]]
    /\ UNCHANGED <<sheet, mode, platform, chosen, usable, runs, outages>>

ServerStarts ==
    /\ submission.stage = "sent"
    /\ submission' = [submission EXCEPT !.stage = "started"]
    /\ runs' = runs \cup {submission}
    /\ UNCHANGED <<sheet, mode, platform, chosen, usable, sent, outages>>

\* It was refused, or lost on its way there or back: the sheet stays as it is.
SubmissionFails ==
    /\ submission # NoSubmission
    /\ submission' = NoSubmission
    /\ UNCHANGED <<sheet, mode, platform, chosen, usable, runs, sent, outages>>

\* The sheet is closed and emptied, be it that of another extraction by now.
SubmissionDone ==
    /\ submission.stage = "started" /\ submission' = NoSubmission
    /\ sheet' = FALSE /\ Reset
    /\ UNCHANGED <<platform, usable, runs, sent, outages>>

SheetNext ==
    \/ ChoosePlatform \/ PlatformsRead \/ OpenSheet \/ CloseSheet \/ ChooseMode \/ Choose
    \/ SubmitSheet \/ ServerStarts \/ SubmissionFails \/ SubmissionDone

-----------------------------------------------------------------------------
\* NewExtractionSheet: what is started on a platform was put in for it, although
\* the platform may have been changed by the page itself meanwhile.
StartedForItsPlatform == \A run \in runs : run.of = {run.platform}
=============================================================================
