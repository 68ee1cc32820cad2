-------------------------- MODULE MCExtractionRuns --------------------------
(***************************************************************************)
(* The rows of extraction runs: while the transactions of one run write    *)
(* them, while the visits to one source do, or while the chains of runs    *)
(* are deleted.  The gate keeps the last apart (StorageActivity), and the  *)
(* visits to one source write rows of their own.                           *)
(***************************************************************************)
EXTENDS MCRunTransactions, SourceVisit, Retention

VARIABLE part

extraction == <<vars, visiting, deletion, part>>

\* The circle's validity matters to the visits alone.
RunsInit ==
  /\ part \in {"written", "visited", "deleted"} /\ Init /\ VisitInit /\ DeletionInit
  /\ part # "visited" => verified

Written == part = "written" /\ UNCHANGED <<part, visiting, deletion>>
Visited == part = "visited" /\ UNCHANGED <<part, vars, deletion>>
Deleted == part = "deleted" /\ UNCHANGED <<part, vars, visiting>>

RunsNext ==
  \/ Written /\ Next
  \/ Visited /\ VisitNext
  \/ Deleted /\ DeletionNext

\* The service polls every minute and goes on with what it began, and so does a
\* request; days pass; a run ends, although pass after pass may be in the way.
Fairness ==
  /\ WF_deletion(Deleted /\ Cleaning) /\ WF_deletion(Deleted /\ Deleting)
  /\ WF_deletion(Deleted /\ NewDay)
  /\ WF_deletion(Deleted /\ \E r \in Runs : Age(r))
  /\ SF_deletion(Deleted /\ \E r \in Runs : Finish(r))

RunsSpec == RunsInit /\ [][RunsNext]_extraction /\ Fairness

\* The types of all parts' variables.
TypesOK == TypeOK /\ VisitTypeOK /\ DeletionTypeOK
=============================================================================
