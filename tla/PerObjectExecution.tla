------------------------- MODULE PerObjectExecution -------------------------
(***************************************************************************)
(* Batch execution of organizations without the manifest ("v1"): a setup   *)
(* job stores one row of decisions_to_create and one decision job for each *)
(* object, and a status job that polls until no row is left and then ends  *)
(* the execution.  Every decision job runs in one transaction, which also  *)
(* refreshes the counts of the execution.                                  *)
(*                                                                         *)
(* The module follows one execution from its creation, with all its jobs.  *)
(***************************************************************************)
EXTENDS Integers, FiniteSets

CONSTANTS
  Objects,             \* object ids of the trigger table
  MaxSetupAttempts,    \* River MaxAttempts of the setup job
  MaxDecisionAttempts, \* nbRetriesAsyncDecision
  MaxStatusAttempts,   \* nbRetriesScheduledExecStatus
  Timers,              \* bound: the timers that may expire
  MaxReruns,           \* bound: setup jobs run again after their commit
  MaxRows              \* bound: rows of decisions_to_create

ASSUME BoundsAssumption ==
  /\ MaxSetupAttempts \in Nat \ {0}
  /\ MaxDecisionAttempts \in Nat \ {0}
  /\ MaxStatusAttempts \in Nat \ {0}
  /\ Timers \subseteq {"initiation", "monitoring"}
  /\ MaxReruns \in Nat /\ MaxRows \in Nat
  /\ IsFiniteSet(Objects)

\* A row of decisions_to_create: its object and the setup attempt that stored it.
Rows == [object : Objects, attempt : 1 .. MaxSetupAttempts]

VARIABLES
  \* The execution's row in scheduled_executions, and the timers that expired.
  status, planned, counts, expired,
  \* Status of each row of decisions_to_create, and the decisions stored for it.
  row, decisions,
  \* River's jobs.
  setup, decisionJob, statusJob,
  \* Local variables: the listed objects; step, verdict and counts of each
  \* decision job; step, planned count and counts of the status job.
  listed, worker, monitor,
  \* Setup jobs run again so far.
  reruns

executionVars == <<status, planned, counts, expired>>
rowVars == <<row, decisions>>
vars == <<executionVars, rowVars, setup, decisionJob, statusJob, listed, worker,
          monitor, reruns>>

-----------------------------------------------------------------------------

Terminal == {"success", "partial_failure", "failure"}
Done == {"created", "mismatch"}

NoCounts == [created |-> 0, evaluated |-> 0]
IdleWorker == [pc |-> "idle", verdict |-> "none", sampled |-> FALSE, counts |-> NoCounts]
IdleMonitor == [pc |-> "idle", planned |-> 0, counts |-> NoCounts]
NoJob == [state |-> "none", attempts |-> 0]
NewJob == [state |-> "queued", attempts |-> 0]

Init ==
  /\ status = "pending"
  /\ planned = 0
  /\ counts = NoCounts
  /\ expired = {}
  /\ row = [r \in Rows |-> "absent"]
  /\ decisions = [r \in Rows |-> 0]
  /\ setup = NewJob
  /\ decisionJob = [r \in Rows |-> NoJob]
  /\ statusJob = NoJob
  /\ listed = {}
  /\ worker = [r \in Rows |-> IdleWorker]
  /\ monitor = IdleMonitor
  /\ reruns = 0

\* River hands a job to a worker, and decides about one that returned an error or
\* lost its worker.
Started(j, state) == [state |-> state, attempts |-> j.attempts + 1]

AfterError(j, max) ==
  [state |-> IF j.attempts < max THEN "queued" ELSE "discarded",
   attempts |-> j.attempts]

Ended(j) == [state |-> "completed", attempts |-> j.attempts]

-----------------------------------------------------------------------------
(* The setup job: ExecuteScheduledExecutionById without the manifest.      *)

\* scheduledExecMaxInitiationTime has passed since the row was inserted.
InitiationTimeout ==
  /\ "initiation" \in Timers \ expired
  /\ expired' = expired \cup {"initiation"}
  /\ UNCHANGED <<status, planned, counts, rowVars, setup, decisionJob, statusJob,
                 listed, worker, monitor, reruns>>

TooLate == "initiation" \in expired /\ status = "pending"

StartSetup ==
  /\ setup.state = "queued" /\ ~TooLate
  /\ setup' = Started(setup, "listing")
  /\ UNCHANGED <<executionVars, rowVars, decisionJob, statusJob, listed, worker,
                 monitor, reruns>>

StartSetupTooLate ==
  /\ setup.state = "queued" /\ TooLate
  /\ \/ setup' = Started(setup, "handled") /\ status' = "failure"
     \/ /\ setup' = AfterError(Started(setup, "listing"), MaxSetupAttempts)
        /\ UNCHANGED status
  /\ UNCHANGED <<planned, counts, expired, rowVars, decisionJob, statusJob, listed,
                 worker, monitor, reruns>>

\* What the trigger table holds, as far as MaxRows allows.
Listable == {ids \in SUBSET Objects :
  Cardinality({r \in Rows : row[r] /= "absent"}) + Cardinality(ids) <= MaxRows}

\* ListAllObjectIdsFromTable, then the planned count.
ListObjects ==
  /\ setup.state = "listing"
  /\ \E ids \in Listable : listed' = ids /\ planned' = Cardinality(ids)
  /\ setup' = [setup EXCEPT !.state = "listed"]
  /\ UNCHANGED <<status, counts, expired, rowVars, decisionJob, statusJob, worker,
                 monitor, reruns>>

\* The status is written on its own, before the rows exist.
SetProcessing ==
  /\ setup.state = "listed"
  /\ status' = "processing"
  /\ setup' = [setup EXCEPT !.state = "inserting"]
  /\ UNCHANGED <<planned, counts, expired, rowVars, decisionJob, statusJob, listed,
                 worker, monitor, reruns>>

\* EnqueueScheduledExecStatusTask: unique by arguments, completed jobs included.
EnqueueUnique(j) ==
  IF j.state \in {"queued", "running", "completed"} THEN j ELSE NewJob

\* The transaction: a row and a job per object, and the status job.
NewRows == {r \in Rows : r.object \in listed /\ r.attempt = setup.attempts}

\* Mutant: the rows and their jobs are committed before the rest may fail.
Mutant_InsertedOnTheirOwn ==
  /\ setup.state = "inserting"
  /\ row' = [r \in Rows |-> IF r \in NewRows THEN "pending" ELSE row[r]]
  /\ decisionJob' = [r \in Rows |-> IF r \in NewRows THEN NewJob ELSE decisionJob[r]]
  /\ statusJob' = EnqueueUnique(statusJob)
  /\ setup' \in {[setup EXCEPT !.state = "handled"], AfterError(setup, MaxSetupAttempts)}
  /\ listed' = {}
  /\ UNCHANGED <<executionVars, decisions, worker, monitor, reruns>>

InsertDecisionsToCreate ==
  /\ setup.state = "inserting"
  /\ row' = [r \in Rows |-> IF r \in NewRows THEN "pending" ELSE row[r]]
  /\ decisionJob' = [r \in Rows |-> IF r \in NewRows THEN NewJob ELSE decisionJob[r]]
  /\ statusJob' = EnqueueUnique(statusJob)
  /\ setup' = [setup EXCEPT !.state = "handled"]
  /\ listed' = {}
  /\ UNCHANGED <<executionVars, decisions, worker, monitor, reruns>>

\* An error or the death of the worker before the transaction commits.
SetupFails ==
  /\ setup.state \in {"listing", "listed", "inserting"}
  /\ setup' = AfterError(setup, MaxSetupAttempts)
  /\ listed' = {}
  /\ UNCHANGED <<executionVars, rowVars, decisionJob, statusJob, worker, monitor,
                 reruns>>

CompleteSetup ==
  /\ setup.state = "handled"
  /\ setup' = Ended(setup)
  /\ UNCHANGED <<executionVars, rowVars, decisionJob, statusJob, listed, worker,
                 monitor, reruns>>

\* The worker dies after the commit and before River records the completion.
SetupRerun ==
  /\ setup.state = "handled"
  /\ reruns < MaxReruns
  /\ reruns' = reruns + 1
  /\ setup' = AfterError(setup, MaxSetupAttempts)
  /\ UNCHANGED <<executionVars, rowVars, decisionJob, statusJob, listed, worker,
                 monitor>>

-----------------------------------------------------------------------------
(* A decision job: AsyncDecisionWorker, one transaction.                   *)

\* What a transaction sees of the rows: those committed, and its own.
CountsOf(rows) ==
  LET created == Cardinality({r \in Rows : rows[r] = "created"})
  IN  [created |-> created,
       evaluated |-> created + Cardinality({r \in Rows : rows[r] = "mismatch"})]

\* Mutant: the row's status is not looked at.
Mutant_AlwaysEvaluate(r) == FALSE

AlreadyDone(r) == row[r] \in Done

\* The job is handed out and its transaction locks the row.
StartDecision(r) ==
  /\ decisionJob[r].state = "queued"
  /\ decisionJob' = [decisionJob EXCEPT ![r] = Started(decisionJob[r], "running")]
  /\ worker' = [worker EXCEPT ![r].pc = IF AlreadyDone(r) THEN "committed" ELSE "locked"]
  /\ UNCHANGED <<executionVars, rowVars, setup, statusJob, listed, monitor, reruns>>

\* createSingleDecisionForObjectId: nothing is evaluated unless the execution is
\* processing.
EvaluateObject(r) ==
  /\ worker[r].pc = "locked"
  /\ \E v \in IF status = "processing" THEN {"missing", "untriggered", "triggered"}
              ELSE {"stopped"} :
       worker' = [worker EXCEPT ![r].pc = "evaluated", ![r].verdict = v]
  /\ UNCHANGED <<executionVars, rowVars, setup, decisionJob, statusJob, listed,
                 monitor, reruns>>

\* The row's next status: only a triggered object has a decision.
NewStatus(r) == IF worker[r].verdict = "triggered" THEN "created" ELSE "mismatch"

\* possiblyUpdateScheduledExecNumbers: a sample of the jobs counts the rows.
SampleCounts(r) ==
  /\ worker[r].pc = "evaluated"
  /\ \/ worker' = [worker EXCEPT ![r].pc = "counted"]
     \/ worker' = [worker EXCEPT ![r].pc = "counted", ![r].sampled = TRUE,
                     ![r].counts = CountsOf([row EXCEPT ![r] = NewStatus(r)])]
  /\ UNCHANGED <<executionVars, rowVars, setup, decisionJob, statusJob, listed,
                 monitor, reruns>>

\* The commit.  The counts are written together with the status processing,
\* whatever the status is by now.
CommitDecision(r) ==
  /\ worker[r].pc = "counted"
  /\ row' = [row EXCEPT ![r] = NewStatus(r)]
  /\ decisions' = [decisions EXCEPT ![r] =
       IF NewStatus(r) = "created" THEN decisions[r] + 1 ELSE decisions[r]]
  /\ status' = IF worker[r].sampled THEN "processing" ELSE status
  /\ counts' = IF worker[r].sampled THEN worker[r].counts ELSE counts
  /\ worker' = [worker EXCEPT ![r] = [IdleWorker EXCEPT !.pc = "committed"]]
  /\ UNCHANGED <<planned, expired, setup, decisionJob, statusJob, listed, monitor,
                 reruns>>

CompleteDecision(r) ==
  /\ worker[r].pc = "committed"
  /\ decisionJob' = [decisionJob EXCEPT ![r] = Ended(decisionJob[r])]
  /\ worker' = [worker EXCEPT ![r] = IdleWorker]
  /\ UNCHANGED <<executionVars, rowVars, setup, statusJob, listed, monitor, reruns>>

\* An error, a timeout or the death of the worker: the transaction is rolled back
\* if it is still open, and with it the status failed written to the row.
DecisionFails(r) ==
  /\ decisionJob[r].state = "running"
  /\ decisionJob' = [decisionJob EXCEPT ![r] = AfterError(decisionJob[r], MaxDecisionAttempts)]
  /\ worker' = [worker EXCEPT ![r] = IdleWorker]
  /\ UNCHANGED <<executionVars, rowVars, setup, statusJob, listed, monitor, reruns>>

-----------------------------------------------------------------------------
(* The status job: AsyncScheduledExecWorker, without a transaction.        *)

\* maxJobDuration has passed since the status job was created.
MonitoringTimeout ==
  /\ "monitoring" \in Timers \ expired
  /\ statusJob.state /= "none"
  /\ expired' = expired \cup {"monitoring"}
  /\ UNCHANGED <<status, planned, counts, rowVars, setup, decisionJob, statusJob,
                 listed, worker, monitor, reruns>>

StartStatus ==
  /\ statusJob.state = "queued"
  /\ statusJob' = Started(statusJob, "running")
  /\ monitor' = [monitor EXCEPT !.pc = IF status = "processing" THEN "list" ELSE "exit",
                                !.planned = planned]
  /\ UNCHANGED <<executionVars, rowVars, setup, decisionJob, listed, worker, reruns>>

NothingLeft == \A r \in Rows : row[r] /= "pending"

\* Mutant: polling has no time limit.
Mutant_PollForever ==
  /\ monitor.pc = "list"
  /\ ~NothingLeft
  /\ statusJob' = [state |-> "queued", attempts |-> statusJob.attempts - 1]
  /\ monitor' = IdleMonitor
  /\ UNCHANGED <<executionVars, rowVars, setup, decisionJob, listed, worker, reruns>>

\* JobSnooze: rows are left and there is time, so poll again later.
Poll ==
  /\ monitor.pc = "list"
  /\ ~NothingLeft /\ "monitoring" \notin expired
  /\ statusJob' = [state |-> "queued", attempts |-> statusJob.attempts - 1]
  /\ monitor' = IdleMonitor
  /\ UNCHANGED <<executionVars, rowVars, setup, decisionJob, listed, worker, reruns>>

StopPolling ==
  /\ monitor.pc = "list"
  /\ NothingLeft \/ "monitoring" \in expired
  /\ monitor' = [monitor EXCEPT !.pc = "count"]
  /\ UNCHANGED <<executionVars, rowVars, setup, decisionJob, statusJob, listed,
                 worker, reruns>>

CountRows ==
  /\ monitor.pc = "count"
  /\ monitor' = [monitor EXCEPT !.pc = "write", !.counts = CountsOf(row)]
  /\ UNCHANGED <<executionVars, rowVars, setup, decisionJob, statusJob, listed,
                 worker, reruns>>

\* Mutant: objects that were not evaluated are not a failure.
Mutant_AnyIsSuccess(c, n) ==
  IF c.created > 0 \/ c.evaluated = n THEN "success" ELSE "failure"

FinalStatus(c, n) ==
  IF c.evaluated = n THEN "success"
  ELSE IF c.created > 0 THEN "partial_failure" ELSE "failure"

WriteFinalStatus ==
  /\ monitor.pc = "write"
  /\ status' = FinalStatus(monitor.counts, monitor.planned)
  /\ counts' = monitor.counts
  /\ monitor' = [monitor EXCEPT !.pc = "exit"]
  /\ UNCHANGED <<planned, expired, rowVars, setup, decisionJob, statusJob, listed,
                 worker, reruns>>

CompleteStatus ==
  /\ monitor.pc = "exit"
  /\ statusJob' = Ended(statusJob)
  /\ monitor' = IdleMonitor
  /\ UNCHANGED <<executionVars, rowVars, setup, decisionJob, listed, worker, reruns>>

StatusFails ==
  /\ statusJob.state = "running"
  /\ statusJob' = AfterError(statusJob, MaxStatusAttempts)
  /\ monitor' = IdleMonitor
  /\ UNCHANGED <<executionVars, rowVars, setup, decisionJob, listed, worker, reruns>>

-----------------------------------------------------------------------------

SetupJob ==
  \/ StartSetup \/ StartSetupTooLate \/ ListObjects \/ SetProcessing
  \/ InsertDecisionsToCreate \/ SetupFails \/ CompleteSetup \/ SetupRerun

DecisionJob(r) ==
  \/ StartDecision(r) \/ EvaluateObject(r) \/ SampleCounts(r)
  \/ CommitDecision(r) \/ CompleteDecision(r) \/ DecisionFails(r)

StatusJob ==
  \/ StartStatus \/ Poll \/ StopPolling \/ CountRows \/ WriteFinalStatus
  \/ CompleteStatus \/ StatusFails

Next ==
  \/ SetupJob \/ StatusJob
  \/ \E r \in Rows : DecisionJob(r)
  \/ InitiationTimeout \/ MonitoringTimeout

Spec == Init /\ [][Next]_vars

\* River keeps running jobs, and timers fire; errors and crashes may happen at
\* every opportunity or never.
Fairness ==
  /\ WF_vars(SetupJob) /\ WF_vars(StatusJob)
  /\ \A r \in Rows : WF_vars(DecisionJob(r))
  /\ WF_vars(InitiationTimeout) /\ WF_vars(MonitoringTimeout)

FairSpec == Spec /\ Fairness

-----------------------------------------------------------------------------
(* Properties.                                                             *)

CountType == [created : 0 .. Cardinality(Rows), evaluated : 0 .. Cardinality(Rows)]

JobType(states, max) == [state : states, attempts : 0 .. max]
RiverStates == {"none", "queued", "running", "completed", "discarded"}

ExecutionOK ==
  /\ status \in Terminal \cup {"pending", "processing"}
  /\ planned \in 0 .. Cardinality(Objects)
  /\ counts \in CountType
  /\ expired \subseteq Timers

RowsOK ==
  /\ row \in [Rows -> {"absent", "pending"} \cup Done]
  /\ decisions \in [Rows -> Nat]

JobsOK ==
  /\ setup \in JobType({"queued", "listing", "listed", "inserting", "handled",
                        "completed", "discarded"}, MaxSetupAttempts)
  /\ decisionJob \in [Rows -> JobType(RiverStates, MaxDecisionAttempts)]
  /\ statusJob \in JobType(RiverStates, MaxStatusAttempts)
  /\ reruns \in 0 .. MaxReruns

WorkerType ==
  [pc : {"idle", "locked", "evaluated", "counted", "committed"},
   verdict : {"none", "missing", "untriggered", "triggered", "stopped"},
   sampled : BOOLEAN, counts : CountType]

MonitorType ==
  [pc : {"idle", "list", "count", "write", "exit"},
   planned : 0 .. Cardinality(Objects), counts : CountType]

LocalOK ==
  /\ listed \subseteq Objects
  /\ worker \in [Rows -> WorkerType]
  /\ monitor \in MonitorType

\* Type invariant; no job runs more often than its attempts allow.
TypeOK == ExecutionOK /\ RowsOK /\ JobsOK /\ LocalOK

\* A row has one decision if its status is created and none otherwise, however
\* often its job is run: a job run again after its commit stores nothing.
DecisionPerRow == \A r \in Rows :
  decisions[r] = IF row[r] = "created" THEN 1 ELSE 0

\* An object has at most one decision in the execution, unless the setup job ran again
\* after its commit.
DecisionPerObject == reruns = 0 => \A r, s \in Rows :
  decisions[r] > 0 /\ decisions[s] > 0 /\ r.object = s.object => r = s

\* The setup did not run again, and the monitoring has not given up.
Orderly == reruns = 0 /\ "monitoring" \notin expired

\* When the execution has ended its counts are those of its rows, although the
\* jobs wrote counts that missed each other's uncommitted rows; if it succeeded,
\* they evaluated every planned object, also when the monitoring gave up.
FinalCounts == status \in Terminal =>
  /\ Orderly => counts = CountsOf(row)
  /\ status = "success" /\ reruns = 0 =>
       NothingLeft /\ Cardinality({r \in Rows : row[r] \in Done}) = planned

\* The execution reaches its end, at the latest when the monitoring gives up,
\* unless River drops its setup or its status job; before that, its end stays.
Settles ==
  /\ <>(status \in Terminal \/ "discarded" \in {setup.state, statusJob.state})
  /\ [][(status \in Terminal /\ Orderly) => status' = status]_vars

=============================================================================
