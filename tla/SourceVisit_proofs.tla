------------------------ MODULE SourceVisit_proofs ------------------------
(***************************************************************************)
(* Proofs about the visits to a source, for any list of candidates and any *)
(* number of rounds and setbacks: what the checkpoint, the rows and the    *)
(* call under way know of the candidates fits together at every step.      *)
(***************************************************************************)
EXTENDS SourceVisit, TLAPS

Known(c) == c \in saved \cup task.terminal \cup task.home

\* What is known of a candidate is the last answer about it.
Answers ==
  /\ \A c \in Candidates : c \in saved <=> last[c] = "saved"
  /\ \A c \in task.terminal : last[c] = "final"
  /\ \A c \in task.home : last[c] = "home"
  /\ task.status \notin Over =>
       \A c \in Candidates : /\ last[c] = "final" => c \in task.terminal
                             /\ last[c] = "home" => c \in task.home

\* Before the list is read nothing is known; what is put off has a round left.
Begun ==
  /\ ~task.frozen => task.retry = {} /\ task.terminal = {} /\ task.home = {} /\ saved = {}
  /\ task.home # {} => task.round < MaxRounds

\* Nothing that is frozen gets lost while the task goes on.
Kept ==
  task.frozen /\ unnamed = {} /\ task.status \notin Over =>
    \A c \in Candidates : Known(c) \/ c \in task.retry

\* When nobody is at work, nothing saved is counted as failed.
FailuresApart ==
  task.status \in {"waiting"} \cup Over => task.failed \cap saved = {}

\* What a call knows of earlier ones and of its own answers.
CallKnows ==
  /\ visit.urls = task.retry
  /\ visit.known = task.frozen
  /\ visit.prior \subseteq task.terminal
  /\ visit.pending \subseteq task.home
  /\ \A c \in task.terminal : \/ c \in visit.prior
                              \/ visit.now[c] = "gone"
                              \/ visit.now[c] = "home" /\ task.round = MaxRounds
  /\ \A c \in task.home : c \in visit.pending \/ visit.now[c] = "home"
  /\ \A c \in Candidates :
       /\ visit.now[c] # "none" => c \notin saved
       /\ visit.now[c] = "gone" => c \in task.terminal
       /\ visit.now[c] = "home" =>
            IF task.round < MaxRounds THEN c \in task.home ELSE c \in task.terminal

\* What it asks for is all that is left, and nothing of it was answered.
CallAsks ==
  /\ \A c \in task.retry : Known(c) \/ c \in visit.left
  /\ \A c \in visit.left \ visit.asked : last[c] = "none"
  /\ visit.at = "ask" =>
       /\ \A c \in visit.asked : Known(c) \/ visit.now[c] \in Temporary
       /\ \A c \in visit.left \ visit.asked : visit.now[c] = "none"
  /\ visit.at = "over" =>
       \A c \in visit.left : Known(c) \/ visit.now[c] \in Temporary

\* Where it is.
CallStage ==
  /\ visit.at \in {"validate", "list", "source", "batch"} =>
       visit.now = NoFailure /\ visit.asked = {}
  /\ visit.at = "list" => ~task.frozen
  /\ visit.at \in {"ask", "over"} => task.frozen
  /\ visit.at \in {"refresh", "lost"} => visit.noted \cap saved = {}

VisitInv ==
  /\ VisitTypeOK
  /\ Answers
  /\ Begun
  /\ Kept
  /\ FailuresApart
  /\ CandidatesAccounted
  /\ visit.at # "no" => CallKnows /\ CallAsks /\ CallStage

-----------------------------------------------------------------------------
(* The records.                                                            *)

\* The fields of a visit, and those of a task.
LEMMA VisitForm ==
  ASSUME NEW v \in VisitStates
  PROVE  /\ v.at \in {"no", "validate", "list", "ask", "refresh", "over", "source", "batch",
                      "lost", "failed"}
         /\ v.half \in 1..2 /\ v.needs \in BOOLEAN /\ v.validated \in BOOLEAN
         /\ v.known \in BOOLEAN
         /\ v.urls \subseteq Candidates /\ v.left \subseteq Candidates
         /\ v.asked \subseteq Candidates /\ v.prior \subseteq Candidates
         /\ v.pending \subseteq Candidates /\ v.noted \subseteq Candidates
         /\ v.now \in [Candidates -> {"none", "home", "gone"} \cup Temporary]
BY DEF VisitStates

LEMMA TaskForm ==
  ASSUME NEW t \in TaskStates
  PROVE  /\ t.status \in {"queued", "running", "waiting"} \cup Over /\ t.frozen \in BOOLEAN
         /\ t.retry \subseteq Candidates /\ t.terminal \subseteq Candidates
         /\ t.home \subseteq Candidates /\ t.round \in 0..MaxRounds /\ t.used \in BOOLEAN
         /\ t.failed \subseteq Candidates
BY DEF TaskStates

\* Nobody's visit.
LEMMA NoVisitForm == NoVisit \in VisitStates /\ NoVisit.at = "no"
<1>1. NoFailure \in [Candidates -> {"none", "home", "gone"} \cup Temporary]
  BY DEF NoFailure
<1> QED BY <1>1 DEF NoVisit, VisitStates

\* Setbacks are counted up to their bound.
LEMMA SetbackCounts ==
  ASSUME setbacks \in 0..MaxSetbacks, Setback
  PROVE  setbacks' \in 0..MaxSetbacks
BY SourceVisitAssumption DEF Setback

-----------------------------------------------------------------------------
(* A call that goes on without an answer.                                  *)

SameCall(v, w) ==
  /\ w.urls = v.urls /\ w.known = v.known /\ w.prior = v.prior /\ w.pending = v.pending
  /\ w.now = v.now /\ w.left = v.left /\ w.asked = v.asked

LEMMA LoginLostForm ==
  ASSUME NEW v \in VisitStates, NEW w, w = LoginLost(v)
  PROVE  /\ w \in VisitStates /\ SameCall(v, w) /\ w.at \in {"refresh", "lost"}
         /\ w.noted = {c \in Candidates : v.now[c] # "none"}
BY DEF VisitStates, LoginLost, SameCall

LEMMA ChallengedForm ==
  ASSUME NEW v \in VisitStates, NEW w, w = Challenged(v)
  PROVE  w \in VisitStates /\ SameCall(v, w) /\ w.at = "lost" /\ w.noted = v.prior
BY DEF VisitStates, Challenged, SameCall

LEMMA BrokenForm ==
  ASSUME NEW v \in VisitStates, NEW w, w = Broken(v)
  PROVE  w \in VisitStates /\ SameCall(v, w) /\ w.at = "failed"
BY DEF VisitStates, Broken, SameCall

LEMMA ElsewhereForm ==
  ASSUME NEW v \in VisitStates, NEW w,
         NEW at \in {"no", "validate", "list", "ask", "refresh", "over", "source", "batch",
                     "lost", "failed"},
         w = [v EXCEPT !.at = at] \/ w = [v EXCEPT !.validated = TRUE, !.at = at]
  PROVE  w \in VisitStates /\ SameCall(v, w) /\ w.at = at
BY DEF VisitStates, SameCall

\* A call that only goes elsewhere knows what it knew.
LEMMA CallMoves ==
  ASSUME VisitInv, visit.at # "no", visit'.at # "no", visit' \in VisitStates,
         SameCall(visit, visit'),
         UNCHANGED <<task, saved, verified, last, unnamed>>, setbacks' \in 0..MaxSetbacks,
         CallStage',
         visit'.at = "ask" => (visit.asked = {} /\ visit.now = NoFailure) \/ visit.at = "ask",
         visit'.at = "over" => visit.left = {} \/ visit.at = "over"
  PROVE  VisitInv'
<1>1. VisitTypeOK'
  BY DEF VisitInv, VisitTypeOK
<1>2. Answers' /\ Begun' /\ Kept' /\ FailuresApart' /\ CandidatesAccounted'
  BY DEF VisitInv, Answers, Begun, Kept, FailuresApart, CandidatesAccounted, Known
<1>3. CallKnows'
  BY DEF VisitInv, CallKnows, SameCall
<1>4. CallAsks'
  BY VisitForm DEF VisitInv, VisitTypeOK, CallAsks, SameCall, Known, NoFailure
<1> QED BY <1>1, <1>2, <1>3, <1>4 DEF VisitInv

\* What breaks off a call, before a candidate is asked for or instead.
LEMMA BreaksOff ==
  ASSUME VisitInv, visit.at \in {"validate", "list", "ask"},
         visit' \in {LoginLost(visit), Challenged(visit), Broken(visit)},
         UNCHANGED <<task, saved, verified, last, unnamed>>, setbacks' \in 0..MaxSetbacks
  PROVE  VisitInv'
<1>1. visit \in VisitStates /\ CallKnows /\ Answers
  BY DEF VisitInv, VisitTypeOK
<1>2. /\ visit' \in VisitStates /\ SameCall(visit, visit')
      /\ visit'.at \in {"refresh", "lost", "failed"}
      /\ visit'.at # "failed" =>
           visit'.noted \in {{c \in Candidates : visit.now[c] # "none"}, visit.prior}
  BY <1>1, LoginLostForm, ChallengedForm, BrokenForm
<1>3. {c \in Candidates : visit.now[c] # "none"} \cap saved = {}
  BY <1>1 DEF CallKnows
<1>4. visit.prior \cap saved = {}
  BY <1>1, VisitForm DEF CallKnows, Answers
<1>5. CallStage'
  BY <1>2, <1>3, <1>4 DEF CallStage
<1> QED BY <1>2, <1>5, CallMoves

-----------------------------------------------------------------------------
(* The steps of a visit.                                                   *)

\* Where a call goes on.
LEMMA StageForm ==
  ASSUME NEW v
  PROVE  \/ Stage(v) = "list" /\ ~v.known
         \/ Stage(v) = "over" /\ v.known /\ v.left = {}
         \/ Stage(v) = "ask" /\ v.known /\ v.left # {}
BY DEF Stage

LEMMA VisitInits == VisitInit => VisitInv
<1> SUFFICES ASSUME VisitInit PROVE VisitInv
  OBVIOUS
<1> USE DEF VisitInit
<1>1. VisitTypeOK
  BY SourceVisitAssumption DEF VisitTypeOK, TaskStates, VisitStates, NoVisit, NoFailure
<1>2. Answers /\ Begun /\ Kept /\ FailuresApart /\ CandidatesAccounted
  BY DEF Answers, Begun, Kept, FailuresApart, CandidatesAccounted, Known, Over
<1> QED BY <1>1, <1>2 DEF VisitInv, NoVisit

LEMMA BeginVisitKeeps ==
  ASSUME VisitInv, BeginVisit
  PROVE  VisitInv'
<1>1. /\ task.status = "queued" /\ task' = [task EXCEPT !.status = "running"]
      /\ UNCHANGED <<saved, verified, last, unnamed, setbacks>>
  BY DEF BeginVisit
<1>2. task \in TaskStates /\ visit \in VisitStates /\ verified \in BOOLEAN
  BY DEF VisitInv, VisitTypeOK
<1>3. /\ task' \in TaskStates /\ task'.status = "running"
      /\ task'.frozen = task.frozen /\ task'.retry = task.retry
      /\ task'.terminal = task.terminal /\ task'.home = task.home
      /\ task'.round = task.round /\ task'.failed = task.failed
  BY <1>1, <1>2 DEF TaskStates
<1> DEFINE v == [NoVisit EXCEPT !.needs = ~verified, !.known = task.frozen \/ task.retry # {},
                                !.urls = task.retry, !.left = Unanswered(task.retry),
                                !.prior = task.terminal, !.pending = task.home]
<1>4. visit' = [v EXCEPT !.at = IF v.needs THEN "validate" ELSE Stage(v)]
  BY DEF BeginVisit
<1>5. /\ v \in VisitStates
      /\ v.urls = task.retry /\ v.known = (task.frozen \/ task.retry # {})
      /\ v.left = Unanswered(task.retry) /\ v.asked = {}
      /\ v.prior = task.terminal /\ v.pending = task.home /\ v.now = NoFailure
  <2>1. NoVisit \in VisitStates /\ NoVisit.asked = {} /\ NoVisit.now = NoFailure
    BY DEF NoVisit, VisitStates, NoFailure
  <2>2. Unanswered(task.retry) \subseteq Candidates
    BY <1>2, TaskForm DEF Unanswered
  <2>3. (task.frozen \/ task.retry # {}) \in BOOLEAN /\ (~verified) \in BOOLEAN
    BY <1>2
  <2> QED BY <1>2, <2>1, <2>2, <2>3, TaskForm DEF VisitStates
<1> HIDE DEF v
<1>6. PICK at \in {"validate", "list", "over", "ask"} :
        /\ (IF v.needs THEN "validate" ELSE Stage(v)) = at
        /\ at = "list" => ~v.known
        /\ at \in {"over", "ask"} => v.known
        /\ at = "over" => v.left = {}
  BY StageForm
<1>7. /\ visit' \in VisitStates /\ visit'.at = at
      /\ visit'.urls = task.retry /\ visit'.known = (task.frozen \/ task.retry # {})
      /\ visit'.left = Unanswered(task.retry) /\ visit'.asked = {}
      /\ visit'.prior = task.terminal /\ visit'.pending = task.home /\ visit'.now = NoFailure
  <2>1. visit' = [v EXCEPT !.at = at]
    BY <1>4, <1>6
  <2>2. visit' \in VisitStates /\ SameCall(v, visit') /\ visit'.at = at
    BY <1>5, <1>6, <2>1 DEF VisitStates, SameCall
  <2> QED BY <1>5, <2>2 DEF SameCall
<1>8. /\ at = "list" => ~task.frozen
      /\ at \in {"over", "ask"} => task.frozen \/ task.retry # {}
      /\ at = "over" => Unanswered(task.retry) = {}
  BY <1>5, <1>6
<1>9. Answers /\ Begun /\ Kept
  BY DEF VisitInv
<1>10. VisitTypeOK'
  BY <1>1, <1>3, <1>6, <1>7 DEF VisitInv, VisitTypeOK
<1>11. Answers' /\ Begun' /\ Kept' /\ FailuresApart' /\ CandidatesAccounted'
  BY <1>1, <1>3, <1>9 DEF Answers, Begun, Kept, Known, FailuresApart, CandidatesAccounted, Over
<1>12. CallKnows'
  BY <1>1, <1>3, <1>7, <1>9, <1>2, TaskForm DEF CallKnows, Begun, NoFailure
<1>13. CallAsks'
  <2>1. \A c \in Unanswered(task.retry) : last[c] = "none"
    <3> SUFFICES ASSUME NEW c \in Unanswered(task.retry) PROVE last[c] = "none"
      OBVIOUS
    <3>1. c \in Candidates /\ ~Known(c)
      BY <1>2, TaskForm DEF Unanswered, Known
    <3> QED BY <1>1, <1>9, <3>1 DEF Answers, Known, Over, VisitInv, VisitTypeOK
  <2>2. \A c \in task.retry : Known(c) \/ c \in Unanswered(task.retry)
    BY DEF Unanswered, Known
  <2> QED BY <1>1, <1>2, <1>3, <1>7, <1>8, <2>1, <2>2, TaskForm
          DEF CallAsks, Known, Unanswered, NoFailure
<1>14. CallStage'
  BY <1>1, <1>3, <1>6, <1>7, <1>8, <1>9 DEF CallStage, Begun
<1> QED BY <1>10, <1>11, <1>12, <1>13, <1>14 DEF VisitInv

LEMMA SourceFailsKeeps ==
  ASSUME VisitInv, visit.at \in {"validate", "list"}, SourceFails,
         UNCHANGED <<task, saved, verified, last, unnamed>>
  PROVE  VisitInv'
<1>1. setbacks' \in 0..MaxSetbacks
  BY SetbackCounts DEF SourceFails, VisitInv, VisitTypeOK
<1>2. CASE visit' \in {LoginLost(visit), Challenged(visit), Broken(visit)}
  BY <1>1, <1>2, BreaksOff
<1>3. CASE visit' = [visit EXCEPT !.at = "source"] \/ visit' = [visit EXCEPT !.at = "failed"]
  <2>1. visit \in VisitStates /\ CallStage
    BY DEF VisitInv, VisitTypeOK
  <2>2. /\ visit' \in VisitStates /\ SameCall(visit, visit')
        /\ visit'.at \in {"source", "failed"}
    BY <1>3, <2>1, ElsewhereForm
  <2>3. CallStage'
    BY <2>1, <2>2 DEF CallStage, SameCall
  <2> QED BY <1>1, <2>2, <2>3, CallMoves
<1> QED BY <1>2, <1>3 DEF SourceFails

LEMMA ValidateKeeps ==
  ASSUME VisitInv, Validate
  PROVE  VisitInv'
<1>1. visit.at = "validate" /\ UNCHANGED <<task, saved, verified, last, unnamed>>
  BY DEF Validate
<1>2. CASE SourceFails
  BY <1>1, <1>2, SourceFailsKeeps
<1>3. CASE /\ visit' = [visit EXCEPT !.validated = TRUE, !.at = Stage(visit)]
           /\ UNCHANGED setbacks
  <2>1. visit \in VisitStates /\ CallStage /\ visit.known = task.frozen
    BY <1>1 DEF VisitInv, VisitTypeOK, CallKnows
  <2>2. PICK at \in {"list", "over", "ask"} : Stage(visit) = at
    BY StageForm
  <2>3. visit' \in VisitStates /\ SameCall(visit, visit') /\ visit'.at = Stage(visit)
    <3>1. visit' = [visit EXCEPT !.validated = TRUE, !.at = at]
      BY <1>3, <2>2
    <3> QED BY <2>1, <2>2, <3>1 DEF VisitStates, SameCall
  <2>4. visit.now = NoFailure /\ visit.asked = {}
    BY <1>1, <2>1 DEF CallStage
  <2>5. CallStage'
    BY <1>1, <2>1, <2>3, <2>4, StageForm DEF CallStage, SameCall
  <2>6. setbacks' \in 0..MaxSetbacks
    BY <1>3 DEF VisitInv, VisitTypeOK
  <2> QED BY <1>1, <2>2, <2>3, <2>4, <2>5, <2>6, StageForm, CallMoves
<1> QED BY <1>2, <1>3 DEF Validate

LEMMA ReadListKeeps ==
  ASSUME VisitInv, ReadList
  PROVE  VisitInv'
<1>1. visit.at = "list" /\ UNCHANGED <<saved, verified, last, unnamed>>
  BY DEF ReadList
<1>2. CASE SourceFails /\ UNCHANGED task
  BY <1>1, <1>2, SourceFailsKeeps
<1>3. visit \in VisitStates /\ task \in TaskStates /\ CallStage /\ CallKnows
  BY <1>1 DEF VisitInv, VisitTypeOK
<1>4. CASE /\ Setback
           /\ visit' = [visit EXCEPT !.at = IF task.used THEN "failed" ELSE "batch"]
           /\ UNCHANGED task
  <2>1. setbacks' \in 0..MaxSetbacks
    BY <1>4, SetbackCounts DEF VisitInv, VisitTypeOK
  <2>2. /\ visit' \in VisitStates /\ SameCall(visit, visit')
        /\ visit'.at \in {"failed", "batch"}
    <3>1. PICK at \in {"failed", "batch"} : visit' = [visit EXCEPT !.at = at]
      BY <1>4
    <3> QED BY <1>3, <3>1, ElsewhereForm
  <2>3. CallStage'
    BY <1>1, <1>3, <2>2 DEF CallStage, SameCall
  <2> QED BY <1>1, <1>4, <2>1, <2>2, <2>3, CallMoves
<1>5. CASE /\ task' = [task EXCEPT !.frozen = TRUE, !.retry = Candidates]
           /\ LET v == [visit EXCEPT !.known = TRUE, !.urls = Candidates, !.left = Candidates]
              IN visit' = [v EXCEPT !.at = Stage(v)]
           /\ UNCHANGED setbacks
  <2> DEFINE v == [visit EXCEPT !.known = TRUE, !.urls = Candidates, !.left = Candidates]
  <2>1. /\ v \in VisitStates /\ v.known = TRUE /\ v.urls = Candidates /\ v.left = Candidates
        /\ v.asked = visit.asked /\ v.prior = visit.prior /\ v.pending = visit.pending
        /\ v.now = visit.now
    BY <1>3 DEF VisitStates
  <2>2. visit' = [v EXCEPT !.at = Stage(v)]
    BY <1>5
  <2> HIDE DEF v
  <2>3. Stage(v) \in {"over", "ask"} /\ (Stage(v) = "over" => Candidates = {})
    BY <2>1, StageForm
  <2>4. visit' \in VisitStates /\ SameCall(v, visit') /\ visit'.at = Stage(v)
    <3>1. PICK at \in {"over", "ask"} : Stage(v) = at
      BY <2>3
    <3>2. visit' = [v EXCEPT !.at = at]
      BY <2>2, <3>1
    <3> QED BY <2>1, <3>1, <3>2 DEF VisitStates, SameCall
  <2>5. /\ task' \in TaskStates /\ task'.frozen = TRUE /\ task'.retry = Candidates
        /\ task'.status = task.status /\ task'.terminal = task.terminal
        /\ task'.home = task.home /\ task'.round = task.round /\ task'.failed = task.failed
    BY <1>3, <1>5 DEF TaskStates
  <2>6. visit.now = NoFailure /\ visit.asked = {} /\ ~task.frozen
    BY <1>1, <1>3 DEF CallStage
  <2>7. task.terminal = {} /\ task.home = {} /\ saved = {}
    BY <2>6 DEF VisitInv, Begun
  <2>8. task.status = "running"
    BY <1>1 DEF VisitInv, VisitTypeOK
  <2>9. \A c \in Candidates : last[c] = "none"
    BY <2>7, <2>8 DEF VisitInv, VisitTypeOK, Answers, Over
  <2>10. VisitTypeOK'
    BY <1>1, <1>5, <2>3, <2>4, <2>5, <2>8 DEF VisitInv, VisitTypeOK
  <2>11. Answers' /\ Begun' /\ Kept' /\ FailuresApart' /\ CandidatesAccounted'
    BY <1>1, <2>5, <2>7, <2>8, <2>9
    DEF VisitInv, Answers, Begun, Kept, FailuresApart, CandidatesAccounted, Known, Over
  <2>12. CallKnows'
    BY <1>1, <1>3, <2>1, <2>4, <2>5, <2>6, <2>7 DEF CallKnows, SameCall, NoFailure
  <2>13. CallAsks'
    BY <1>1, <2>1, <2>3, <2>4, <2>5, <2>6, <2>9 DEF CallAsks, SameCall, NoFailure
  <2>14. CallStage'
    BY <2>3, <2>4, <2>5 DEF CallStage
  <2> QED BY <2>10, <2>11, <2>12, <2>13, <2>14 DEF VisitInv
<1> QED BY <1>2, <1>4, <1>5 DEF ReadList

\* What a call has after an answer about candidate c.
LEMMA AnsweredForm ==
  ASSUME visit \in VisitStates, NEW c \in Candidates,
         NEW now \in [Candidates -> {"none", "home", "gone"} \cup Temporary],
         NEW w, w = Answered(c, now)
  PROVE  /\ w \in VisitStates
         /\ w.urls = visit.urls /\ w.known = visit.known /\ w.prior = visit.prior
         /\ w.pending = visit.pending /\ w.left = visit.left
         /\ w.asked = visit.asked \cup {c} /\ w.now = now
         /\ w.at \in {"over", "ask"} /\ (w.at = "over" => visit.left = visit.asked \cup {c})
<1> DEFINE v == [visit EXCEPT !.asked = @ \cup {c}, !.now = now]
<1>1. /\ v \in VisitStates
      /\ v.urls = visit.urls /\ v.known = visit.known /\ v.prior = visit.prior
      /\ v.pending = visit.pending /\ v.left = visit.left
      /\ v.asked = visit.asked \cup {c} /\ v.now = now
  BY DEF VisitStates
<1>2. w = [v EXCEPT !.at = IF v.left = v.asked THEN "over" ELSE "ask"]
  BY DEF Answered
<1> HIDE DEF v
<1>3. w \in VisitStates /\ SameCall(v, w) /\ w.at = IF v.left = v.asked THEN "over" ELSE "ask"
  <2>1. PICK at \in {"over", "ask"} : at = IF v.left = v.asked THEN "over" ELSE "ask"
    OBVIOUS
  <2>2. w = [v EXCEPT !.at = at]
    BY <1>2, <2>1
  <2> QED BY <1>1, <2>1, <2>2, ElsewhereForm
<1> QED BY <1>1, <1>3 DEF SameCall

\* What is so when a candidate is asked for.
LEMMA Asking ==
  ASSUME VisitInv, NEW c \in Candidates, visit.at = "ask", c \in visit.left \ visit.asked
  PROVE  /\ last[c] = "none" /\ ~Known(c) /\ visit.now[c] = "none"
         /\ task.frozen /\ task.status = "running"
         /\ visit \in VisitStates /\ task \in TaskStates
<1>1. visit \in VisitStates /\ task \in TaskStates /\ CallAsks /\ CallStage /\ Answers
  BY DEF VisitInv, VisitTypeOK
<1>2. last[c] = "none" /\ visit.now[c] = "none" /\ task.frozen
  BY <1>1 DEF CallAsks, CallStage
<1>3. ~Known(c)
  BY <1>1, <1>2 DEF Answers, Known
<1>4. task.status = "running"
  BY DEF VisitInv, VisitTypeOK
<1> QED BY <1>1, <1>2, <1>3, <1>4

\* The one candidate that was asked for has its answer, at one place and in the
\* call; the others have not changed.
LEMMA VisitAnswerKeeps ==
  ASSUME VisitInv, NEW c \in Candidates, visit.at = "ask", c \in visit.left \ visit.asked,
         NEW now \in [Candidates -> {"none", "home", "gone"} \cup Temporary],
         \A d \in Candidates : d # c => now[d] = visit.now[d],
         visit' = Answered(c, now), UNCHANGED <<verified, unnamed, setbacks>>,
         task' \in TaskStates, task'.status = task.status, task'.frozen = task.frozen,
         task'.retry = task.retry, task'.round = task.round, task'.failed = task.failed,
         last' \in [Candidates -> {"none", "home", "saved", "final"}],
         \A d \in Candidates : d # c => last'[d] = last[d],
         \/ /\ saved' = saved \cup {c} /\ last'[c] = "saved" /\ now[c] = "none"
            /\ task'.terminal = task.terminal /\ task'.home = task.home
         \/ /\ saved' = saved /\ last'[c] = "final"
            /\ now[c] = "gone" \/ (now[c] = "home" /\ task.round = MaxRounds)
            /\ task'.terminal = task.terminal \cup {c} /\ task'.home = task.home
         \/ /\ saved' = saved /\ last'[c] = "home" /\ now[c] = "home"
            /\ task.round < MaxRounds
            /\ task'.terminal = task.terminal /\ task'.home = task.home \cup {c}
         \/ /\ saved' = saved /\ last'[c] = "none" /\ now[c] \in Temporary
            /\ task'.terminal = task.terminal /\ task'.home = task.home
  PROVE  VisitInv'
<1>1. /\ last[c] = "none" /\ ~Known(c) /\ visit.now[c] = "none"
      /\ task.frozen /\ task.status = "running"
      /\ visit \in VisitStates /\ task \in TaskStates
  BY Asking
<1>2. /\ visit' \in VisitStates
      /\ visit'.urls = visit.urls /\ visit'.known = visit.known /\ visit'.prior = visit.prior
      /\ visit'.pending = visit.pending /\ visit'.left = visit.left
      /\ visit'.asked = visit.asked \cup {c} /\ visit'.now = now
      /\ visit'.at \in {"over", "ask"} /\ (visit'.at = "over" => visit.left = visit.asked \cup {c})
  BY <1>1, AnsweredForm
<1>3. Answers /\ Begun /\ Kept /\ CallKnows /\ CallAsks
  BY DEF VisitInv
<1>4. /\ task.terminal \subseteq Candidates /\ task.home \subseteq Candidates
      /\ task.retry \subseteq Candidates /\ task.round \in Nat /\ MaxRounds \in Nat
      /\ visit.left \subseteq Candidates /\ visit.asked \subseteq Candidates
      /\ saved \subseteq Candidates /\ visit.prior \subseteq Candidates
      /\ visit.pending \subseteq Candidates
  <2>1. saved \subseteq Candidates
    BY DEF VisitInv, VisitTypeOK
  <2>2. /\ visit.left \subseteq Candidates /\ visit.asked \subseteq Candidates
        /\ visit.prior \subseteq Candidates /\ visit.pending \subseteq Candidates
    BY <1>1, VisitForm
  <2>3. /\ task.terminal \subseteq Candidates /\ task.home \subseteq Candidates
        /\ task.retry \subseteq Candidates /\ task.round \in 0..MaxRounds
    BY <1>1, TaskForm
  <2> QED BY <2>1, <2>2, <2>3, SourceVisitAssumption
<1>5. VisitTypeOK'
  BY <1>1, <1>2, <1>4 DEF VisitInv, VisitTypeOK
<1>6. Answers'
  BY <1>1, <1>3, <1>4 DEF Answers, Known
<1>7. Begun'
  BY <1>1, <1>3, <1>4 DEF Begun
<1>8. Kept'
  BY <1>1, <1>3, <1>4 DEF Kept, Known
<1>9. FailuresApart' /\ CandidatesAccounted'
  BY <1>1 DEF FailuresApart, CandidatesAccounted, Over
<1>10. CallKnows'
  <2>1. /\ visit'.urls = task'.retry /\ visit'.known = task'.frozen
        /\ visit'.prior \subseteq task'.terminal /\ visit'.pending \subseteq task'.home
    BY <1>2, <1>3 DEF CallKnows
  <2>2. ASSUME NEW d \in task'.terminal
        PROVE  \/ d \in visit'.prior \/ visit'.now[d] = "gone"
               \/ visit'.now[d] = "home" /\ task'.round = MaxRounds
    <3>1. CASE d = c
      BY <1>1, <1>2, <2>2, <3>1 DEF Known
    <3>2. CASE d # c
      BY <1>2, <1>3, <1>4, <2>2, <3>2 DEF CallKnows
    <3> QED BY <3>1, <3>2
  <2>3. ASSUME NEW d \in task'.home PROVE d \in visit'.pending \/ visit'.now[d] = "home"
    <3>1. CASE d = c
      BY <1>1, <1>2, <2>3, <3>1 DEF Known
    <3>2. CASE d # c
      BY <1>2, <1>3, <1>4, <2>3, <3>2 DEF CallKnows
    <3> QED BY <3>1, <3>2
  <2>4. ASSUME NEW d \in Candidates
        PROVE  /\ visit'.now[d] # "none" => d \notin saved'
               /\ visit'.now[d] = "gone" => d \in task'.terminal
               /\ visit'.now[d] = "home" =>
                    IF task'.round < MaxRounds THEN d \in task'.home ELSE d \in task'.terminal
    <3>1. CASE d = c
      BY <1>1, <1>2, <1>4, <3>1 DEF Known, Temporary
    <3>2. CASE d # c
      BY <1>2, <1>3, <3>2 DEF CallKnows
    <3> QED BY <3>1, <3>2
  <2> QED BY <2>1, <2>2, <2>3, <2>4 DEF CallKnows
<1>11. CallAsks'
  <2>1. ASSUME NEW d \in Candidates, Known(d) PROVE Known(d)'
    BY <1>4, <2>1 DEF Known
  <2>2. Known(c)' \/ visit'.now[c] \in Temporary
    BY <1>2 DEF Known
  <2>3. \A d \in task'.retry : Known(d)' \/ d \in visit'.left
    BY <1>2, <1>3, <1>4, <2>1 DEF CallAsks
  <2>4. \A d \in visit'.left \ visit'.asked : last'[d] = "none" /\ visit'.now[d] = "none"
    BY <1>2, <1>3, <1>4 DEF CallAsks
  <2>5. \A d \in visit'.asked : Known(d)' \/ visit'.now[d] \in Temporary
    <3> SUFFICES ASSUME NEW d \in visit'.asked PROVE Known(d)' \/ visit'.now[d] \in Temporary
      OBVIOUS
    <3>1. CASE d = c
      BY <2>2, <3>1
    <3>2. CASE d # c
      <4>1. d \in visit.asked /\ d \in Candidates
        BY <1>2, <1>4, <3>2
      <4> QED BY <1>2, <1>3, <2>1, <3>2, <4>1 DEF CallAsks
    <3> QED BY <3>1, <3>2
  <2> QED BY <1>2, <2>3, <2>4, <2>5 DEF CallAsks
<1>12. CallStage'
  BY <1>1, <1>2 DEF CallStage
<1> QED BY <1>5, <1>6, <1>7, <1>8, <1>9, <1>10, <1>11, <1>12 DEF VisitInv

LEMMA LimitedKeeps ==
  ASSUME VisitInv, visit.at = "ask", Limited, UNCHANGED <<verified, unnamed>>
  PROVE  VisitInv'
<1> DEFINE now == [c \in Candidates |-> IF c \in visit.left \ visit.asked
                                        THEN "limited" ELSE visit.now[c]]
<1>1. visit' = [visit EXCEPT !.at = "over", !.now = now]
      /\ UNCHANGED <<task, saved, last, setbacks>>
  BY DEF Limited
<1>2. visit \in VisitStates /\ Answers /\ CallKnows /\ CallAsks /\ CallStage
  BY DEF VisitInv, VisitTypeOK
<1>3. now \in [Candidates -> {"none", "home", "gone"} \cup Temporary]
  BY <1>2, VisitForm DEF Temporary
<1>4. \A c \in Candidates :
        now[c] = IF c \in visit.left \ visit.asked THEN "limited" ELSE visit.now[c]
  OBVIOUS
<1> HIDE DEF now
<1>5. /\ visit' \in VisitStates /\ visit'.at = "over" /\ visit'.now = now
      /\ visit'.urls = visit.urls /\ visit'.known = visit.known /\ visit'.prior = visit.prior
      /\ visit'.pending = visit.pending /\ visit'.left = visit.left
      /\ visit'.asked = visit.asked
  BY <1>1, <1>2, <1>3 DEF VisitStates
<1>6. VisitTypeOK'
  BY <1>1, <1>5 DEF VisitInv, VisitTypeOK
<1>7. Answers' /\ Begun' /\ Kept' /\ FailuresApart' /\ CandidatesAccounted'
  BY <1>1 DEF VisitInv, Answers, Begun, Kept, FailuresApart, CandidatesAccounted, Known
<1>8. /\ visit.left \subseteq Candidates /\ task.terminal \subseteq Candidates
      /\ task.home \subseteq Candidates /\ saved \subseteq Candidates
  BY VisitForm, TaskForm DEF VisitInv, VisitTypeOK
<1>9. \A c \in visit.left \ visit.asked : ~Known(c)
  BY <1>2, <1>8 DEF CallAsks, Answers, Known
<1>10. CallKnows'
  BY <1>1, <1>2, <1>4, <1>5, <1>8, <1>9 DEF CallKnows, Known
<1>11. CallAsks'
  BY <1>1, <1>2, <1>4, <1>5, <1>8 DEF CallAsks, Known, Temporary
<1>12. CallStage'
  BY <1>1, <1>2, <1>5 DEF CallStage
<1> QED BY <1>6, <1>7, <1>10, <1>11, <1>12 DEF VisitInv

LEMMA AskKeeps ==
  ASSUME VisitInv, NEW c \in Candidates, Ask(c)
  PROVE  VisitInv'
<1>1. /\ visit.at = "ask" /\ c \in visit.left \ visit.asked /\ UNCHANGED <<verified, unnamed>>
  BY DEF Ask
<1>2. /\ last[c] = "none" /\ visit.now[c] = "none"
      /\ visit \in VisitStates /\ task \in TaskStates
      /\ last \in [Candidates -> {"none", "home", "saved", "final"}]
  BY <1>1, Asking DEF VisitInv, VisitTypeOK
<1>3. visit.now \in [Candidates -> {"none", "home", "gone"} \cup Temporary]
  BY <1>2, VisitForm
<1>4. CASE Found(c)
  <2>1. /\ visit' = Answered(c, visit.now) /\ UNCHANGED <<task, setbacks>>
        /\ saved' = saved \cup {c} /\ last' = [last EXCEPT ![c] = "saved"]
    BY <1>4 DEF Found
  <2> QED BY <1>1, <1>2, <1>3, <2>1, VisitAnswerKeeps
<1>5. CASE NotFound(c)
  <2> DEFINE now == [visit.now EXCEPT ![c] = "gone"]
  <2>1. /\ visit' = Answered(c, now) /\ UNCHANGED <<saved, setbacks>>
        /\ last' = [last EXCEPT ![c] = "final"]
        /\ task' = [task EXCEPT !.terminal = @ \cup {c}]
    BY <1>5 DEF NotFound
  <2>2. /\ now \in [Candidates -> {"none", "home", "gone"} \cup Temporary] /\ now[c] = "gone"
        /\ \A d \in Candidates : d # c => now[d] = visit.now[d]
    BY <1>3
  <2> HIDE DEF now
  <2>3. /\ task' \in TaskStates /\ task'.status = task.status /\ task'.frozen = task.frozen
        /\ task'.retry = task.retry /\ task'.round = task.round /\ task'.failed = task.failed
        /\ task'.terminal = task.terminal \cup {c} /\ task'.home = task.home
    BY <1>2, <2>1 DEF TaskStates
  <2> QED BY <1>1, <1>2, <2>1, <2>2, <2>3, VisitAnswerKeeps
<1>6. CASE Redirected(c)
  <2> DEFINE now == [visit.now EXCEPT ![c] = "home"]
  <2>1. visit' = Answered(c, now) /\ UNCHANGED <<saved, setbacks>>
    BY <1>6 DEF Redirected
  <2>2. /\ now \in [Candidates -> {"none", "home", "gone"} \cup Temporary] /\ now[c] = "home"
        /\ \A d \in Candidates : d # c => now[d] = visit.now[d]
    BY <1>3
  <2> HIDE DEF now
  <2>3. CASE task.round < MaxRounds
    <3>1. /\ last' = [last EXCEPT ![c] = "home"]
          /\ task' = [task EXCEPT !.home = @ \cup {c}]
      BY <1>6, <2>3 DEF Redirected
    <3>2. /\ task' \in TaskStates /\ task'.status = task.status /\ task'.frozen = task.frozen
          /\ task'.retry = task.retry /\ task'.round = task.round /\ task'.failed = task.failed
          /\ task'.terminal = task.terminal /\ task'.home = task.home \cup {c}
      BY <1>2, <3>1 DEF TaskStates
    <3> QED BY <1>1, <1>2, <2>1, <2>2, <2>3, <3>1, <3>2, VisitAnswerKeeps
  <2>4. CASE ~(task.round < MaxRounds)
    <3>1. /\ last' = [last EXCEPT ![c] = "final"]
          /\ task' = [task EXCEPT !.terminal = @ \cup {c}]
      BY <1>6, <2>4 DEF Redirected
    <3>2. /\ task' \in TaskStates /\ task'.status = task.status /\ task'.frozen = task.frozen
          /\ task'.retry = task.retry /\ task'.round = task.round /\ task'.failed = task.failed
          /\ task'.terminal = task.terminal \cup {c} /\ task'.home = task.home
      BY <1>2, <3>1 DEF TaskStates
    <3>3. task.round = MaxRounds
      BY <1>2, <2>4, TaskForm, SourceVisitAssumption
    <3> QED BY <1>1, <1>2, <2>1, <2>2, <3>1, <3>2, <3>3, VisitAnswerKeeps
  <2> QED BY <2>3, <2>4
<1>7. CASE Unreachable(c)
  <2> DEFINE now == [visit.now EXCEPT ![c] = "network"]
  <2>1. visit' = Answered(c, now) /\ UNCHANGED <<task, saved, last, setbacks>>
    BY <1>7 DEF Unreachable
  <2>2. /\ now \in [Candidates -> {"none", "home", "gone"} \cup Temporary]
        /\ now[c] \in Temporary
        /\ \A d \in Candidates : d # c => now[d] = visit.now[d]
    BY <1>3 DEF Temporary
  <2> HIDE DEF now
  <2> QED BY <1>1, <1>2, <2>1, <2>2, VisitAnswerKeeps
<1>8. CASE /\ Setback
           /\ visit' \in {LoginLost(visit), Challenged(visit), Broken(visit)}
           /\ UNCHANGED <<task, saved, last>>
  <2>1. setbacks' \in 0..MaxSetbacks
    BY <1>8, SetbackCounts DEF VisitInv, VisitTypeOK
  <2> QED BY <1>1, <1>8, <2>1, BreaksOff
<1> QED BY <1>1, <1>4, <1>5, <1>6, <1>7, <1>8, LimitedKeeps DEF Ask

LEMMA RefreshKeeps ==
  ASSUME VisitInv, Refresh
  PROVE  VisitInv'
<1> DEFINE v == [visit EXCEPT !.prior = task.terminal, !.pending = task.home,
                              !.left = Unanswered(visit.left)]
           w == [v EXCEPT !.half = 2, !.asked = {}, !.now = NoFailure]
<1>1. /\ visit.at = "refresh" /\ UNCHANGED <<task, saved, verified, last, unnamed, setbacks>>
      /\ \/ visit' = [w EXCEPT !.at = IF w.needs /\ ~w.validated THEN "validate" ELSE Stage(w)]
         \/ visit' = [v EXCEPT !.at = "lost"]
  BY DEF Refresh
<1>2. visit \in VisitStates /\ task \in TaskStates
  BY DEF VisitInv, VisitTypeOK
<1>3. Answers /\ CallKnows /\ CallAsks /\ CallStage
  BY <1>1 DEF VisitInv
<1>4. /\ task.terminal \subseteq Candidates /\ task.home \subseteq Candidates
      /\ task.retry \subseteq Candidates /\ visit.left \subseteq Candidates
      /\ saved \subseteq Candidates /\ Unanswered(visit.left) \subseteq visit.left
  BY <1>2, TaskForm, VisitForm DEF VisitInv, VisitTypeOK, Unanswered
<1>5. /\ v \in VisitStates /\ v.prior = task.terminal /\ v.pending = task.home
      /\ v.left = Unanswered(visit.left) /\ v.urls = visit.urls /\ v.known = visit.known
      /\ v.asked = visit.asked /\ v.now = visit.now /\ v.noted = visit.noted
  BY <1>2, <1>4 DEF VisitStates
<1> HIDE DEF v
<1>6. /\ w \in VisitStates /\ w.prior = task.terminal /\ w.pending = task.home
      /\ w.left = Unanswered(visit.left) /\ w.urls = visit.urls /\ w.known = visit.known
      /\ w.asked = {} /\ w.now = NoFailure
  <2>1. 2 \in 1..2
    OBVIOUS
  <2>2. NoFailure \in [Candidates -> {"none", "home", "gone"} \cup Temporary]
    BY DEF NoFailure
  <2> QED BY <1>5, <2>1, <2>2 DEF VisitStates
<1> HIDE DEF w
<1>7. task.status = "running"
  BY <1>1 DEF VisitInv, VisitTypeOK
<1>8. /\ visit' \in VisitStates /\ visit'.at \in {"validate", "list", "over", "ask", "lost"}
      /\ visit'.prior = task.terminal /\ visit'.pending = task.home
      /\ visit'.left = Unanswered(visit.left) /\ visit'.urls = visit.urls
      /\ visit'.known = visit.known
      /\ \/ visit'.at = "lost" /\ visit'.asked = visit.asked /\ visit'.now = visit.now
            /\ visit'.noted = visit.noted
         \/ /\ visit'.at # "lost" /\ visit'.asked = {} /\ visit'.now = NoFailure
            /\ visit'.at = "list" => ~visit.known
            /\ visit'.at \in {"over", "ask"} => visit.known
            /\ visit'.at = "over" => visit'.left = {}
  <2>1. CASE visit' = [w EXCEPT !.at = IF w.needs /\ ~w.validated THEN "validate" ELSE Stage(w)]
    <3>1. PICK at \in {"validate", "list", "over", "ask"} :
            /\ (IF w.needs /\ ~w.validated THEN "validate" ELSE Stage(w)) = at
            /\ at = "list" => ~w.known
            /\ at \in {"over", "ask"} => w.known
            /\ at = "over" => w.left = {}
      BY StageForm
    <3>2. visit' = [w EXCEPT !.at = at]
      BY <2>1, <3>1
    <3>3. visit' \in VisitStates /\ SameCall(w, visit') /\ visit'.at = at
      BY <1>6, <3>1, <3>2 DEF VisitStates, SameCall
    <3> QED BY <1>6, <3>1, <3>3 DEF SameCall
  <2>2. CASE visit' = [v EXCEPT !.at = "lost"]
    <3>1. /\ visit' \in VisitStates /\ SameCall(v, visit') /\ visit'.at = "lost"
          /\ visit'.noted = v.noted
      BY <1>5, <2>2 DEF VisitStates, SameCall
    <3> QED BY <1>5, <3>1 DEF SameCall
  <2> QED BY <1>1, <2>1, <2>2
<1>9. VisitTypeOK'
  BY <1>1, <1>7, <1>8 DEF VisitInv, VisitTypeOK
<1>10. Answers' /\ Begun' /\ Kept' /\ FailuresApart' /\ CandidatesAccounted'
  BY <1>1 DEF VisitInv, Answers, Begun, Kept, FailuresApart, CandidatesAccounted, Known
<1>11. CallKnows'
  BY <1>1, <1>3, <1>4, <1>8 DEF CallKnows, NoFailure
<1>12. CallAsks'
  <2>1. \A c \in Unanswered(visit.left) : ~Known(c) /\ last[c] = "none"
    BY <1>3, <1>4, <1>7 DEF Unanswered, Known, Answers, Over, VisitInv, VisitTypeOK
  <2>2. \A c \in visit.left : Known(c) \/ c \in Unanswered(visit.left)
    BY DEF Unanswered, Known
  <2>3. \A c \in task.retry : Known(c) \/ c \in Unanswered(visit.left)
    BY <1>3, <2>2 DEF CallAsks
  <2> QED BY <1>1, <1>4, <1>8, <2>1, <2>3 DEF CallAsks, Known, NoFailure
<1>13. CallStage'
  BY <1>1, <1>3, <1>8 DEF CallStage, CallKnows
<1> QED BY <1>9, <1>10, <1>11, <1>12, <1>13 DEF VisitInv

-----------------------------------------------------------------------------
(* What a visit leaves.                                                    *)

\* A task after its visit: nobody is at work, and what is left to show is what
\* the task says.
LEMMA EndKeeps ==
  ASSUME VisitInv, visit.at # "no", NEW t \in TaskStates, EndVisit(t), t.status # "running",
         last' \in [Candidates -> {"none", "home", "saved", "final"}],
         unnamed' \subseteq {"emptied", "given up"},
         Answers', Begun', Kept', FailuresApart', CandidatesAccounted'
  PROVE  VisitInv'
<1>1. /\ task' = t /\ visit' = NoVisit /\ UNCHANGED <<saved, setbacks>>
      /\ verified' = (verified \/ visit.validated)
  BY DEF EndVisit
<1>2. NoVisit \in VisitStates /\ NoVisit.at = "no"
  BY NoVisitForm
<1>3. verified' \in BOOLEAN
  BY <1>1
<1>4. VisitTypeOK'
  BY <1>1, <1>2, <1>3 DEF VisitInv, VisitTypeOK
<1> QED BY <1>1, <1>2, <1>4 DEF VisitInv

\* What is known at the end of a visit, of any kind.
LEMMA AtEnd ==
  ASSUME VisitInv, visit.at # "no"
  PROVE  /\ visit \in VisitStates /\ task \in TaskStates /\ task.status = "running"
         /\ Answers /\ Begun /\ Kept /\ CallKnows /\ CallAsks /\ CallStage
         /\ task.terminal \subseteq Candidates /\ task.home \subseteq Candidates
         /\ task.retry \subseteq Candidates /\ saved \subseteq Candidates
         /\ task.round \in Nat /\ MaxRounds \in Nat /\ task.round <= MaxRounds
         /\ last \in [Candidates -> {"none", "home", "saved", "final"}]
<1>1. /\ visit \in VisitStates /\ task \in TaskStates /\ task.status = "running"
      /\ saved \subseteq Candidates
      /\ last \in [Candidates -> {"none", "home", "saved", "final"}]
  BY DEF VisitInv, VisitTypeOK
<1>2. Answers /\ Begun /\ Kept /\ CallKnows /\ CallAsks /\ CallStage
  BY DEF VisitInv
<1>3. /\ task.terminal \subseteq Candidates /\ task.home \subseteq Candidates
      /\ task.retry \subseteq Candidates /\ task.round \in 0..MaxRounds
  BY <1>1, TaskForm
<1> QED BY <1>1, <1>2, <1>3, SourceVisitAssumption

\* finalize_payload takes what the checkpoint has, and all of it.
LEMMA Totals ==
  ASSUME VisitInv, visit.at = "over"
  PROVE  /\ ForLater = task.home /\ Final = task.terminal
         /\ Again \subseteq Candidates /\ Again \cap saved = {}
         /\ \A c \in Candidates : c \in task.retry => Known(c) \/ c \in Again
<1>1. /\ visit \in VisitStates /\ task \in TaskStates
      /\ Answers /\ Begun /\ CallKnows /\ CallAsks
      /\ task.terminal \subseteq Candidates /\ task.home \subseteq Candidates
      /\ task.round \in Nat /\ MaxRounds \in Nat /\ task.round <= MaxRounds
  BY AtEnd
<1>2. visit.left \subseteq Candidates
  BY <1>1, VisitForm
<1>3. ForLater = task.home
  <2>1. \A c \in ForLater : c \in task.home
    BY <1>1 DEF ForLater, Of, CallKnows
  <2>2. \A c \in task.home : c \in ForLater
    BY <1>1 DEF ForLater, Of, CallKnows, Begun
  <2> QED BY <2>1, <2>2
<1>4. Final = task.terminal
  <2>1. ASSUME NEW c \in Final PROVE c \in task.terminal
    <3>1. c \in visit.prior \/ (c \in Of({"home", "gone"}) /\ c \notin task.home)
      BY <1>3, <2>1 DEF Final
    <3> QED BY <1>1, <3>1 DEF Of, CallKnows
  <2>2. ASSUME NEW c \in task.terminal PROVE c \in Final
    <3>1. c \notin task.home
      BY <1>1, <2>2 DEF Answers
    <3>2. c \in visit.prior \/ c \in Of({"home", "gone"})
      BY <1>1, <2>2 DEF Of, CallKnows
    <3> QED BY <1>3, <3>1, <3>2 DEF Final
  <2> QED BY <2>1, <2>2
<1>5. Again \subseteq Candidates /\ Again \cap saved = {}
  BY <1>1 DEF Again, Of, CallKnows, Temporary
<1>6. \A c \in Candidates : c \in task.retry => Known(c) \/ c \in Again
  BY <1>1, <1>2 DEF CallAsks, Again, Of
<1> QED BY <1>3, <1>4, <1>5, <1>6

LEMMA StoreCallKeeps ==
  ASSUME VisitInv, StoreCall
  PROVE  VisitInv'
<1> DEFINE b == [task EXCEPT !.terminal = Final, !.failed = Again \cup ForLater \cup Final]
           round == Again = {} /\ ForLater # {}
           t == IF Again # {} THEN [b EXCEPT !.status = "queued", !.retry = Again, !.home = ForLater]
                ELSE IF round THEN [b EXCEPT !.status = "queued", !.retry = ForLater, !.home = {},
                                             !.round = @ + 1]
                ELSE [b EXCEPT !.status = IF Final = {} THEN "success" ELSE WithResults,
                               !.retry = {}, !.home = {}]
<1>1. /\ visit.at = "over" /\ EndVisit(t) /\ UNCHANGED unnamed
      /\ last' = [c \in Candidates |-> IF round /\ last[c] = "home" THEN "none" ELSE last[c]]
  BY Zenon DEF StoreCall
<1>2. /\ visit \in VisitStates /\ task \in TaskStates /\ task.status = "running"
      /\ Answers /\ Begun /\ Kept
      /\ task.terminal \subseteq Candidates /\ task.home \subseteq Candidates
      /\ task.retry \subseteq Candidates /\ saved \subseteq Candidates
      /\ task.round \in Nat /\ MaxRounds \in Nat /\ task.round <= MaxRounds
      /\ last \in [Candidates -> {"none", "home", "saved", "final"}]
  BY <1>1, AtEnd
<1>3. /\ ForLater = task.home /\ Final = task.terminal
      /\ Again \subseteq Candidates /\ Again \cap saved = {}
      /\ \A c \in Candidates : c \in task.retry => Known(c) \/ c \in Again
  BY <1>1, Totals
<1>4. /\ b \in TaskStates /\ b.status = task.status /\ b.frozen = task.frozen
      /\ b.retry = task.retry /\ b.terminal = task.terminal /\ b.home = task.home
      /\ b.round = task.round /\ b.failed = Again \cup task.home \cup task.terminal
  BY <1>2, <1>3 DEF TaskStates
<1>5. task' = t /\ UNCHANGED saved
  BY <1>1 DEF EndVisit
<1>6. task.frozen
  BY <1>1, AtEnd DEF CallStage
<1>7. CASE Again # {}
  <2>1. t = [b EXCEPT !.status = "queued", !.retry = Again, !.home = ForLater]
    BY <1>7
  <2> HIDE DEF b, t
  <2>2. /\ t \in TaskStates /\ t.status = "queued" /\ t.frozen = task.frozen
        /\ t.retry = Again /\ t.terminal = task.terminal /\ t.home = task.home
        /\ t.round = task.round
    BY <1>2, <1>3, <1>4, <2>1 DEF TaskStates
  <2>3. last' = last
    BY <1>1, <1>2, <1>7
  <2>4. Answers' /\ Begun'
    BY <1>2, <1>5, <1>6, <2>2, <2>3 DEF Answers, Begun, Over
  <2>5. Kept'
    BY <1>1, <1>2, <1>3, <1>5, <2>2 DEF Kept, Known, Over
  <2>6. FailuresApart' /\ CandidatesAccounted'
    BY <1>5, <2>2 DEF FailuresApart, CandidatesAccounted, Over
  <2> QED BY <1>1, <1>2, <2>2, <2>3, <2>4, <2>5, <2>6, EndKeeps DEF VisitInv, VisitTypeOK
<1>8. CASE Again = {} /\ ForLater # {}
  <2>1. t = [b EXCEPT !.status = "queued", !.retry = ForLater, !.home = {}, !.round = @ + 1]
    BY <1>8
  <2>2. last' = [c \in Candidates |-> IF last[c] = "home" THEN "none" ELSE last[c]]
    BY <1>1, <1>8
  <2> HIDE DEF b, t
  <2>3. task.round + 1 \in 0..MaxRounds
    BY <1>2, <1>3, <1>8 DEF Begun
  <2>4. /\ t \in TaskStates /\ t.status = "queued" /\ t.frozen = task.frozen
        /\ t.retry = task.home /\ t.terminal = task.terminal /\ t.home = {}
    BY <1>2, <1>3, <1>4, <2>1, <2>3 DEF TaskStates
  <2>5. last' \in [Candidates -> {"none", "home", "saved", "final"}]
    BY <1>2, <2>2
  <2>6. Answers' /\ Begun'
    BY <1>2, <1>5, <1>6, <2>2, <2>4 DEF Answers, Begun, Over
  <2>7. Kept'
    BY <1>1, <1>2, <1>3, <1>5, <1>8, <2>4 DEF Kept, Known, Over
  <2>8. FailuresApart' /\ CandidatesAccounted'
    BY <1>5, <2>4 DEF FailuresApart, CandidatesAccounted, Over
  <2> QED BY <1>1, <1>2, <2>4, <2>5, <2>6, <2>7, <2>8, EndKeeps DEF VisitInv, VisitTypeOK
<1>9. CASE Again = {} /\ ForLater = {}
  <2> DEFINE end == IF Final = {} THEN "success" ELSE WithResults
  <2>1. t = [b EXCEPT !.status = end, !.retry = {}, !.home = {}]
    BY <1>9
  <2>2. last' = last
    BY <1>1, <1>2, <1>9
  <2> HIDE DEF b, t
  <2>3. end \in Over /\ (end = "success" <=> task.terminal = {})
    BY <1>3 DEF Over, WithResults
  <2> HIDE DEF end
  <2>4. end \in {"queued", "running", "waiting"} \cup Over
    BY <2>3
  <2>5. /\ t \in TaskStates /\ t.status = end /\ t.frozen = task.frozen
        /\ t.retry = {} /\ t.terminal = task.terminal /\ t.home = {}
        /\ t.failed = task.terminal
    BY <1>3, <1>4, <1>9, <2>1, <2>4 DEF TaskStates
  <2>6. Answers' /\ Begun' /\ Kept'
    BY <1>2, <1>5, <1>6, <2>2, <2>3, <2>5 DEF Answers, Begun, Kept
  <2>7. task.terminal \cap saved = {}
    BY <1>2 DEF Answers
  <2>8. unnamed = {} => \A c \in Candidates : c \in saved \/ c \in task.terminal
    BY <1>2, <1>3, <1>6, <1>9 DEF Kept, Known, Over
  <2>9. FailuresApart' /\ CandidatesAccounted'
    BY <1>1, <1>5, <2>3, <2>5, <2>7, <2>8 DEF FailuresApart, CandidatesAccounted
  <2>10. t.status # "running"
    BY <2>3, <2>5 DEF Over
  <2> QED BY <1>1, <1>2, <2>2, <2>5, <2>6, <2>9, <2>10, EndKeeps DEF VisitInv, VisitTypeOK
<1> QED BY <1>7, <1>8, <1>9

LEMMA StoreSourceRetryKeeps ==
  ASSUME VisitInv, StoreSourceRetry
  PROVE  VisitInv'
<1> DEFINE u == task.used \/ visit.at = "batch"
           t == [task EXCEPT !.status = "queued", !.retry = {}, !.terminal = visit.prior,
                             !.failed = visit.prior, !.used = u]
<1>1. /\ visit.at \in {"source", "batch"} /\ EndVisit(t) /\ UNCHANGED last
      /\ unnamed' = IF task.frozen THEN unnamed \cup {"emptied"} ELSE unnamed
  BY DEF StoreSourceRetry
<1>2. /\ visit \in VisitStates /\ task \in TaskStates /\ task.status = "running"
      /\ Answers /\ Begun /\ Kept /\ CallKnows /\ CallStage
      /\ task.terminal \subseteq Candidates
      /\ last \in [Candidates -> {"none", "home", "saved", "final"}]
  BY <1>1, AtEnd
<1>3. visit.prior = task.terminal
  <2>1. visit.now = NoFailure
    BY <1>1, <1>2 DEF CallStage
  <2> QED BY <1>2, <2>1 DEF CallKnows, NoFailure
<1>4. u \in BOOLEAN
  BY <1>2, TaskForm
<1> HIDE DEF u
<1>5. /\ t \in TaskStates /\ t.status = "queued" /\ t.frozen = task.frozen /\ t.retry = {}
      /\ t.terminal = task.terminal /\ t.home = task.home /\ t.round = task.round
  BY <1>2, <1>3, <1>4 DEF TaskStates
<1> HIDE DEF t
<1>6. task' = t /\ UNCHANGED saved
  BY <1>1 DEF EndVisit
<1>7. Answers' /\ Begun'
  BY <1>1, <1>2, <1>5, <1>6 DEF Answers, Begun, Over
<1>8. Kept' /\ FailuresApart' /\ CandidatesAccounted'
  BY <1>1, <1>5, <1>6 DEF Kept, FailuresApart, CandidatesAccounted, Over
<1>9. unnamed' \subseteq {"emptied", "given up"}
  BY <1>1 DEF VisitInv, VisitTypeOK
<1> QED BY <1>1, <1>2, <1>5, <1>7, <1>8, <1>9, EndKeeps

LEMMA StoreLostKeeps ==
  ASSUME VisitInv, StoreLost
  PROVE  VisitInv'
<1> DEFINE left == IF visit.urls = {} THEN task.retry ELSE visit.urls
           t == [task EXCEPT !.status = "waiting", !.terminal = @ \cup visit.prior,
                             !.retry = IF visit.urls = {} THEN @ ELSE visit.urls,
                             !.failed = visit.noted]
<1>1. visit.at = "lost" /\ EndVisit(t) /\ UNCHANGED <<last, unnamed>>
  BY DEF StoreLost
<1>2. /\ visit \in VisitStates /\ task \in TaskStates /\ task.status = "running"
      /\ Answers /\ Begun /\ Kept /\ CallKnows /\ CallStage
      /\ task.terminal \subseteq Candidates
      /\ last \in [Candidates -> {"none", "home", "saved", "final"}]
  BY <1>1, AtEnd
<1>3. visit.urls = task.retry /\ task.terminal \cup visit.prior = task.terminal
      /\ visit.noted \subseteq Candidates /\ visit.noted \cap saved = {}
  BY <1>1, <1>2, VisitForm DEF CallKnows, CallStage
<1>4. /\ t \in TaskStates /\ t.status = "waiting" /\ t.frozen = task.frozen
      /\ t.retry = task.retry /\ t.terminal = task.terminal /\ t.home = task.home
      /\ t.round = task.round /\ t.failed = visit.noted
  BY <1>2, <1>3 DEF TaskStates
<1> HIDE DEF t
<1>5. task' = t /\ UNCHANGED saved
  BY <1>1 DEF EndVisit
<1>6. Answers' /\ Begun' /\ Kept'
  BY <1>1, <1>2, <1>4, <1>5 DEF Answers, Begun, Kept, Known, Over
<1>7. FailuresApart' /\ CandidatesAccounted'
  BY <1>3, <1>4, <1>5 DEF FailuresApart, CandidatesAccounted, Over
<1> QED BY <1>1, <1>2, <1>4, <1>6, <1>7, EndKeeps DEF VisitInv, VisitTypeOK

LEMMA StoreFailedKeeps ==
  ASSUME VisitInv, StoreFailed
  PROVE  VisitInv'
<1> DEFINE t == [task EXCEPT !.status = WithResults, !.retry = {}, !.terminal = {}, !.failed = {}]
<1>1. visit.at = "failed" /\ EndVisit(t) /\ UNCHANGED <<last, unnamed>>
  BY DEF StoreFailed
<1>2. /\ visit \in VisitStates /\ task \in TaskStates /\ Answers /\ Begun
      /\ last \in [Candidates -> {"none", "home", "saved", "final"}]
  BY <1>1, AtEnd
<1>3. PICK end \in {"partial", "failed"} : WithResults = end
  BY DEF WithResults
<1>4. /\ t \in TaskStates /\ t.status = end /\ t.frozen = task.frozen /\ t.retry = {}
      /\ t.terminal = {} /\ t.home = task.home /\ t.round = task.round /\ t.failed = {}
  BY <1>2, <1>3 DEF TaskStates, Over
<1> HIDE DEF t
<1>5. task' = t /\ UNCHANGED saved
  BY <1>1 DEF EndVisit
<1>6. Answers' /\ Begun' /\ Kept' /\ FailuresApart' /\ CandidatesAccounted'
  BY <1>1, <1>2, <1>3, <1>4, <1>5
  DEF Answers, Begun, Kept, FailuresApart, CandidatesAccounted, Over
<1> QED BY <1>1, <1>2, <1>3, <1>4, <1>6, EndKeeps DEF VisitInv, VisitTypeOK

-----------------------------------------------------------------------------
(* What others do.                                                         *)

\* Between visits only the status of the task changes.
LEMMA StatusKeeps ==
  ASSUME VisitInv, NEW st \in {"queued"} \cup Over, task' = [task EXCEPT !.status = st],
         visit' = visit \/ visit' = NoVisit, visit'.at = "no",
         UNCHANGED <<saved, verified, last>>, setbacks' \in 0..MaxSetbacks,
         unnamed' \subseteq {"emptied", "given up"}, unnamed' = {} => unnamed = {},
         task.status \notin Over,
         st \in Over => task.status = "waiting" /\ unnamed' # {}
  PROVE  VisitInv'
<1>1. task \in TaskStates /\ visit \in VisitStates
  BY DEF VisitInv, VisitTypeOK
<1>2. /\ task' \in TaskStates /\ task'.status = st /\ task'.frozen = task.frozen
      /\ task'.retry = task.retry /\ task'.terminal = task.terminal
      /\ task'.home = task.home /\ task'.round = task.round /\ task'.failed = task.failed
  BY <1>1 DEF TaskStates
<1>3. visit' \in VisitStates
  BY <1>1, NoVisitForm
<1>4. st # "running" /\ st # "waiting"
  BY DEF Over
<1>5. VisitTypeOK'
  BY <1>2, <1>3, <1>4 DEF VisitInv, VisitTypeOK
<1>6. Answers' /\ Begun' /\ Kept'
  BY <1>2 DEF VisitInv, Answers, Begun, Kept, Known
<1>7. FailuresApart' /\ CandidatesAccounted'
  BY <1>2, <1>4 DEF VisitInv, FailuresApart, CandidatesAccounted
<1> QED BY <1>5, <1>6, <1>7 DEF VisitInv

LEMMA OthersKeep ==
  ASSUME VisitInv, ResumeTask \/ GiveUpTask \/ Unverify \/ InterruptVisit
  PROVE  VisitInv'
<1>1. CASE ResumeTask
  <2>1. visit.at = "no"
    BY <1>1 DEF ResumeTask, VisitInv, VisitTypeOK
  <2> QED BY <1>1, <2>1, StatusKeeps DEF ResumeTask, VisitInv, VisitTypeOK, Over
<1>2. CASE GiveUpTask
  <2>1. visit.at = "no"
    BY <1>2 DEF GiveUpTask, VisitInv, VisitTypeOK
  <2>2. PICK end \in Over : WithResults = end
    BY DEF WithResults, Over
  <2>3. task' = [task EXCEPT !.status = end]
    BY <1>2, <2>2 DEF GiveUpTask
  <2> QED BY <1>2, <2>1, <2>3, StatusKeeps DEF GiveUpTask, VisitInv, VisitTypeOK, Over
<1>3. CASE Unverify
  <2>1. setbacks' \in 0..MaxSetbacks
    BY <1>3, SetbackCounts DEF Unverify, VisitInv, VisitTypeOK
  <2>2. VisitTypeOK'
    BY <1>3, <2>1 DEF Unverify, VisitInv, VisitTypeOK
  <2>3. Answers' /\ Begun' /\ Kept' /\ FailuresApart' /\ CandidatesAccounted'
    BY <1>3 DEF Unverify, VisitInv, Answers, Begun, Kept, FailuresApart, CandidatesAccounted, Known
  <2>4. visit'.at # "no" => CallKnows' /\ CallAsks' /\ CallStage'
    BY <1>3 DEF Unverify, VisitInv, CallKnows, CallAsks, CallStage, Known
  <2> QED BY <2>2, <2>3, <2>4 DEF VisitInv
<1>4. CASE InterruptVisit
  <2>1. setbacks' \in 0..MaxSetbacks
    BY <1>4, SetbackCounts DEF InterruptVisit, VisitInv, VisitTypeOK
  <2>2. task.status = "running" /\ NoVisit.at = "no"
    BY <1>4 DEF InterruptVisit, VisitInv, VisitTypeOK, NoVisit
  <2> QED BY <1>4, <2>1, <2>2, StatusKeeps DEF InterruptVisit, VisitInv, VisitTypeOK, Over
<1> QED BY <1>1, <1>2, <1>3, <1>4

LEMMA VisitUnchanged == VisitInv /\ UNCHANGED visiting => VisitInv'
<1> SUFFICES ASSUME VisitInv, UNCHANGED visiting PROVE VisitInv'
  OBVIOUS
<1>1. VisitTypeOK'
  BY DEF visiting, VisitInv, VisitTypeOK
<1>2. Answers' /\ Begun' /\ Kept' /\ FailuresApart' /\ CandidatesAccounted'
  BY DEF visiting, VisitInv, Answers, Begun, Kept, FailuresApart, CandidatesAccounted, Known
<1>3. visit'.at # "no" => CallKnows' /\ CallAsks' /\ CallStage'
  BY DEF visiting, VisitInv, CallKnows, CallAsks, CallStage, Known
<1> QED BY <1>1, <1>2, <1>3 DEF VisitInv

LEMMA VisitStep == VisitInv /\ [VisitNext]_visiting => VisitInv'
BY BeginVisitKeeps, ValidateKeeps, ReadListKeeps, RefreshKeeps, AskKeeps, StoreCallKeeps,
   StoreSourceRetryKeeps, StoreLostKeeps, StoreFailedKeeps, OthersKeep, VisitUnchanged
DEF VisitNext

-----------------------------------------------------------------------------
(* The theorems.                                                           *)

\* The checkpoint, the rows and the call under way agree on every candidate.
THEOREM VisitInvariant == VisitSpec => []VisitInv
<1> QED BY VisitInits, VisitStep, PTL DEF VisitSpec

\* Task, call and last answers stay well-formed, and somebody is at work exactly
\* while the task runs.
THEOREM VisitsTyped == VisitSpec => []VisitTypeOK
<1>1. VisitInv => VisitTypeOK
  BY DEF VisitInv
<1> QED BY <1>1, VisitInvariant, PTL

\* When a task is over no frozen candidate is forgotten, however often visits
\* were broken off, unless in one of the two known ways; and no saved post is
\* among the failures (_apply_result, RunService.retry).
THEOREM NothingForgotten == VisitSpec => []CandidatesAccounted
<1>1. VisitInv => CandidatesAccounted
  BY DEF VisitInv
<1> QED BY <1>1, VisitInvariant, PTL

\* Nothing is asked for that was saved or is final, nor twice in a round what
\* was sent to the home page.
THEOREM NothingAskedTwice == VisitSpec => AskedOnce
<1> DEFINE Once == \A c \in Candidates : Ask(c) => last[c] = "none"
<1>1. VisitInv => Once
  BY Asking DEF Ask
<1>2. VisitSpec => [][Once]_visiting
  BY <1>1, VisitInvariant, PTL DEF VisitSpec
<1> QED BY <1>2 DEF AskedOnce
=============================================================================
