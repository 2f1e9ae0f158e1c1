--------------------------- MODULE AsyncDecision ---------------------------
(***************************************************************************)
(* An asynchronous decision: a job ingests the trigger object when the     *)
(* caller asked for it, checkpoints, then creates the decisions and marks  *)
(* the execution completed in one transaction.  The object is in another   *)
(* database than the execution.  The last two attempts are kept for        *)
(* recording a failure, with the webhook event that tells the caller.      *)
(*                                                                         *)
(* The timeout of an attempt is far shorter than the delay after which the *)
(* queue starts it again: attempts do not overlap.                         *)
(***************************************************************************)
EXTENDS ObjectVersions

CONSTANTS
  Decider,              \* the calls of the job to the ingestion
  MaxDecisionAttempts   \* attempts of the job

ASSUME DecisionAssumption ==
  Decider \in Ingesters /\ MaxDecisionAttempts \in Nat \ {0}

VARIABLES
  execution,     \* the row of async_decision_executions
  decisions,     \* decisions created for the execution
  failureEvents, \* webhook events that announce its failure
  decisionJob    \* the job: state, attempts, step, whether its error may be retried

decisionVars == <<execution, decisions, failureEvents, decisionJob>>

DecisionInit ==
  /\ execution = [status |-> "none", ingest |-> FALSE, rows |-> NoRows]
  /\ decisions = 0
  /\ failureEvents = 0
  /\ decisionJob = [state |-> "none", attempts |-> 0, retryable |-> TRUE]

Decided == {"completed", "failed"}

-----------------------------------------------------------------------------

\* CreateAsyncDecisionExecution: the execution and its job in one transaction.  The
\* payload was validated as one that leaves nothing out.
CreateExecution(rows, shouldIngest) ==
  /\ execution.status = "none"
  /\ execution' = [status |-> "pending", ingest |-> shouldIngest, rows |-> rows]
  /\ decisionJob' = [decisionJob EXCEPT !.state = "available"]
  /\ UNCHANGED <<ingestionVars, decisions, failureEvents>>

JobAt(state) == decisionJob' = [decisionJob EXCEPT !.state = state]

\* River runs the job again, as long as attempts are left.
Again == IF decisionJob.attempts < MaxDecisionAttempts THEN "available" ELSE "discarded"

StartDecision ==
  /\ decisionJob.state = "available"
  /\ decisionJob' = [decisionJob EXCEPT !.attempts = @ + 1, !.state =
       CASE execution.status \in Decided -> "completed"
         [] execution.status = "pending" /\ execution.ingest -> "ingest"
         [] OTHER -> "decide"]
  /\ UNCHANGED <<ingestionVars, execution, decisions, failureEvents>>

IngestTrigger ==
  /\ decisionJob.state = "ingest"
  /\ Call(Decider, execution.rows, FALSE, FALSE)
  /\ JobAt("ingesting")
  /\ UNCHANGED <<execution, decisions, failureEvents>>

\* Mutant: an object that could not be ingested is decided upon.
Mutant_IgnoreOutcome ==
  /\ decisionJob.state = "ingesting" /\ ingest[Decider].pc = "returned"
  /\ JobAt("checkpoint")
  /\ UNCHANGED <<ingestionVars, execution, decisions, failureEvents>>

\* Bad parameters and conflicts are not retried.
TriggerIngested ==
  /\ decisionJob.state = "ingesting" /\ ingest[Decider].pc = "returned"
  /\ decisionJob' = [decisionJob EXCEPT
       !.state = IF ingest[Decider].outcome = "ok" THEN "checkpoint" ELSE "failing",
       !.retryable = ingest[Decider].outcome \notin {"invalid", "conflict"}]
  /\ UNCHANGED <<ingestionVars, execution, decisions, failureEvents>>

\* The answer to the update may be lost: the error is handled as any other.
CheckpointTrigger ==
  /\ decisionJob.state = "checkpoint"
  /\ execution' = [execution EXCEPT !.status = "ingested"]
  /\ \/ JobAt("decide") /\ UNCHANGED faults
     \/ JobAt("failing") /\ Fault
  /\ UNCHANGED <<table, clock, ingest, monitored, tasks, decisions, failureEvents>>

\* CreateAllDecisions and the status in one transaction, whose answer may be lost.
Decide ==
  /\ decisionJob.state = "decide"
  /\ decisions' = decisions + 1
  /\ execution' = [execution EXCEPT !.status = "completed"]
  /\ \/ JobAt("decided") /\ UNCHANGED faults
     \/ JobAt("failing") /\ Fault
  /\ UNCHANGED <<table, clock, ingest, monitored, tasks, failureEvents>>

\* Nothing was found to decide upon, or the evaluation failed.
CannotDecide(retryable) ==
  /\ decisionJob.state = "decide"
  /\ decisionJob' = [decisionJob EXCEPT !.state = "failing", !.retryable = retryable]
  /\ UNCHANGED <<ingestionVars, execution, decisions, failureEvents>>

\* Mutant: no attempt is reserved.
Mutant_NoneReserved == FALSE

\* The last two attempts are reserved.
Reserved == decisionJob.attempts >= MaxDecisionAttempts - 2

\* handleError.
RetryLater ==
  /\ decisionJob.state = "failing" /\ decisionJob.retryable /\ ~Reserved
  /\ JobAt(Again)
  /\ UNCHANGED <<ingestionVars, execution, decisions, failureEvents>>

\* Mutant: the event is created before the status is written.
Mutant_EventFirst ==
  /\ decisionJob.state = "failing"
  /\ failureEvents' = failureEvents + 1
  /\ JobAt("decided")
  /\ UNCHANGED <<ingestionVars, execution, decisions>>

RecordFailure ==
  /\ decisionJob.state = "failing"
  /\ ~decisionJob.retryable \/ Reserved
  /\ execution' = [execution EXCEPT !.status = "failed"]
  /\ failureEvents' = failureEvents + 1
  /\ JobAt("decided")
  /\ UNCHANGED <<ingestionVars, decisions>>

EndDecision ==
  /\ decisionJob.state = "decided"
  /\ JobAt("completed")
  /\ UNCHANGED <<ingestionVars, execution, decisions, failureEvents>>

\* The worker dies, or the answer to the record of a failure is lost.
AttemptLost ==
  /\ decisionJob.state \in {"ingest", "checkpoint", "decide", "failing", "decided"}
  /\ Fault
  /\ JobAt(Again)
  /\ UNCHANGED <<table, clock, ingest, monitored, tasks, execution, decisions,
                 failureEvents>>

DecisionStep ==
  \/ StartDecision \/ IngestTrigger \/ TriggerIngested \/ CheckpointTrigger
  \/ Decide \/ \E retryable \in BOOLEAN : CannotDecide(retryable)
  \/ RetryLater \/ RecordFailure \/ EndDecision \/ AttemptLost

-----------------------------------------------------------------------------
(* Properties.                                                             *)

\* However often its job runs again, an execution is decided once, completed only
\* with its decisions, and not before the table holds the object that was to be
\* ingested, or a newer version of it.
DecidedOnIngested ==
  /\ decisions <= 1
  /\ execution.status = "completed" => decisions = 1
  /\ decisions > 0 /\ execution.ingest =>
       \A o \in DOMAIN execution.rows :
         ValidVersion(o) /= 0 /\ table[o][ValidVersion(o)].at >= execution.rows[o].at

\* A failure is announced once, and nothing else is announced.
FailureTold == failureEvents = IF execution.status = "failed" THEN 1 ELSE 0

\* A job never ends, not even by running out of attempts, before its execution is
\* decided, as long as it takes two faults to miss the attempts kept for that.
ExecutionSettles ==
  decisionJob.state \in {"completed", "discarded"} /\ faults < 2 =>
    execution.status \in Decided

=============================================================================
