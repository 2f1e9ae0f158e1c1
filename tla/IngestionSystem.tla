-------------------------- MODULE IngestionSystem --------------------------
(***************************************************************************)
(* Two ways by which rows reach the table of an object type, together: the *)
(* attempts of a CSV upload and the job of an asynchronous decision, which *)
(* calls the ingestion as a request of the API does.                       *)
(***************************************************************************)
EXTENDS CsvUpload, AsyncDecision

\* The calls of the job of a decision are not those of an upload.
ASSUME SeparateCalls == Decider \notin Attempts

vars == <<ingestionVars, uploadVars, decisionVars>>

Init == IngestionInit /\ UploadInit /\ DecisionInit

\* The trigger object of a decision, alone in its payload.
AskDecision ==
  /\ \E o \in Objects, row \in Row, shouldIngest \in BOOLEAN :
       row.data /= Missing /\ CreateExecution([x \in {o} |-> row], shouldIngest)
  /\ UNCHANGED uploadVars

Next ==
  \/ \E i \in Ingesters : IngestionStep(i) /\ UNCHANGED <<uploadVars, decisionVars>>
  \/ Submit /\ UNCHANGED decisionVars
  \/ \E a \in Attempts : UploadStep(a) /\ UNCHANGED decisionVars
  \/ AskDecision
  \/ DecisionStep /\ UNCHANGED uploadVars

\* Faults are bounded; otherwise calls return and jobs are worked on.
Fairness ==
  /\ \A i \in Ingesters : WF_vars(IngestionStep(i) /\ UNCHANGED <<uploadVars, decisionVars>>)
  /\ \A a \in Attempts : WF_vars(UploadStep(a) /\ UNCHANGED decisionVars)
  /\ WF_vars(DecisionStep /\ UNCHANGED uploadVars)

Spec == Init /\ [][Next]_vars /\ Fairness

=============================================================================
