--------------------------- MODULE BatchExecution ---------------------------
(***************************************************************************)
(* Manifest based ("v2") batch execution of one scenario.                  *)
(*                                                                         *)
(* Creators (the hourly cron and the API's manual trigger) insert          *)
(* executions; a setup job streams the ids to score into a manifest blob   *)
(* and starts the execution; a coordinator job walks through the manifest  *)
(* batch by batch.  A batch is filtered, evaluated, and then committed in  *)
(* one transaction that claims the objects in scenario_scored_objects,     *)
(* stores the decisions and moves the cursor.  Both jobs are run by River, *)
(* at least once: a worker may die at any point, and a job that returns an *)
(* error or whose worker died is run again while it has attempts left.     *)
(*                                                                         *)
(* All executions of the module belong to one scenario: claims, overlap    *)
(* checks and deduplication are scoped to a scenario.                      *)
(***************************************************************************)
EXTENDS Integers, Sequences, FiniteSets

CONSTANTS
  Executions,             \* identifiers of rows of scheduled_executions
  Objects,                \* object ids of the trigger table
  Creators,               \* callers that may create an execution
  Manifests,              \* contents the id query of a setup may stream
  BatchSize,              \* batchExecCommitBatchSize
  MaxCoordinatorAttempts, \* River MaxAttempts of the coordinator job
  MaxSetupAttempts,       \* River MaxAttempts of the setup job
  Timers,                 \* bound: the timers that may expire
  TableMayDisappear,      \* may the trigger table leave the data model?
  MaxReruns,              \* bound: setup jobs run again after their commit
  MaxAmbiguous            \* bound: commits applied but reported as failed

ASSUME BatchSizeAssumption == BatchSize \in Nat \ {0}
ASSUME ManifestsAssumption == Manifests \subseteq Seq(Objects)
ASSUME BoundsAssumption ==
  /\ MaxCoordinatorAttempts \in Nat \ {0}
  /\ MaxSetupAttempts \in Nat \ {0}
  /\ Timers \subseteq {"initiation", "slice", "deadline"}
  /\ TableMayDisappear \in BOOLEAN
  /\ MaxReruns \in Nat
  /\ MaxAmbiguous \in Nat

VARIABLES
  \* The row of each execution in scheduled_executions.
  status, dedup, stale, deadline, progress,
  \* Blob store, scenario_scored_objects, and what each execution committed, one
  \* entry per manifest row.
  blob, scored, log,
  \* What each creator knows, and the River jobs of each execution.
  creator, setup, job,
  \* Local variables of each running coordinator.
  pc, sliceOver, reader, cursor, batch,
  \* Faults so far: setups run again after their commit, and commits applied but
  \* reported as failed.
  reruns, ambiguous

rowVars == <<status, dedup, stale, deadline, progress>>
dataVars == <<blob, scored, log>>
localVars == <<pc, sliceOver, reader, cursor, batch>>
faultVars == <<reruns, ambiguous>>
vars == <<rowVars, dataVars, creator, setup, job, localVars, faultVars>>

-----------------------------------------------------------------------------
(* Data.                                                                   *)

Active == {"pending", "processing"}
Terminal == {"success", "failure"}

\* What evaluateObject reports, and what a batch leaves behind for a row.  A
\* "decision" stands for all that storeDecision writes in the transaction: the
\* decision, its screenings, its webhook event and its workflow task.
Verdicts == {"missing", "untriggered", "triggered"}
Evaluated == {"decision", "untriggered"}
Outcomes == Evaluated \cup {"missing", "prefiltered", "lost"}
Entry == [object : Objects, outcome : Outcomes]

\* The counts and the manifest cursor of a row; the coordinator has a copy.
NoProgress ==
  [planned |-> 0, offset |-> 0, rows |-> 0, created |-> 0, evaluated |-> 0]

\* Position of a manifest reader that is not open, and a batch not yet read.
Closed == -1
NoBatch == [ids |-> <<>>, toEvaluate |-> {}, verdict |-> <<>>]

\* No object has two rows in the manifest.
Injective(s) == \A i, j \in DOMAIN s : s[i] = s[j] => i = j
DistinctIds == \A m \in Manifests : Injective(m)

Init ==
  /\ status = [e \in Executions |-> "none"]
  /\ dedup = [e \in Executions |-> FALSE]
  /\ stale = [e \in Executions |-> FALSE]
  /\ deadline = [e \in Executions |-> "unset"]
  /\ progress = [e \in Executions |-> NoProgress]
  /\ blob = [e \in Executions |-> <<>>]
  /\ scored = {}
  /\ log = [e \in Executions |-> <<>>]
  /\ creator = [c \in Creators |-> "idle"]
  /\ setup = [e \in Executions |-> [state |-> "none", attempts |-> 0]]
  /\ job = [e \in Executions |-> [state |-> "none", attempts |-> 0]]
  /\ pc = [e \in Executions |-> "idle"]
  /\ sliceOver = [e \in Executions |-> FALSE]
  /\ reader = [e \in Executions |-> Closed]
  /\ cursor = [e \in Executions |-> NoProgress]
  /\ batch = [e \in Executions |-> NoBatch]
  /\ reruns = 0
  /\ ambiguous = 0

-----------------------------------------------------------------------------
(* Creating executions: the check and the insert are two database calls.   *)

NoneActive == \A e \in Executions : status[e] \notin Active

\* ListScheduledExecutions shows no pending or processing execution.
CheckNoneActive(c) ==
  /\ creator[c] = "idle"
  /\ NoneActive
  /\ creator' = [creator EXCEPT ![c] = "cleared"]
  /\ UNCHANGED <<rowVars, dataVars, setup, job, localVars, faultVars>>

\* The transaction that inserts the row and enqueues its setup job.  The dedup
\* setting is the scenario's, or the caller's override, at this moment.
CreateScheduledExecution(c, e) ==
  /\ creator[c] = "cleared"
  /\ status[e] = "none"
  /\ status' = [status EXCEPT ![e] = "pending"]
  /\ \E d \in BOOLEAN : dedup' = [dedup EXCEPT ![e] = d]
  /\ setup' = [setup EXCEPT ![e] = [state |-> "queued", attempts |-> 0]]
  /\ creator' = [creator EXCEPT ![c] = "idle"]
  /\ UNCHANGED <<stale, deadline, progress, dataVars, job, localVars, faultVars>>

\* The request fails, or the cron finds that the scenario is not due.
GiveUpCreating(c) ==
  /\ creator[c] = "cleared"
  /\ creator' = [creator EXCEPT ![c] = "idle"]
  /\ UNCHANGED <<rowVars, dataVars, setup, job, localVars, faultVars>>

-----------------------------------------------------------------------------
(* The setup job: ExecuteScheduledExecutionById and executeViaManifest.    *)

\* scheduledExecMaxInitiationTime has passed since the row was inserted.
InitiationTimeout(e) ==
  /\ "initiation" \in Timers
  /\ status[e] = "pending" /\ ~stale[e]
  /\ stale' = [stale EXCEPT ![e] = TRUE]
  /\ UNCHANGED <<status, dedup, deadline, progress, dataVars, creator, setup,
                 job, localVars, faultVars>>

\* River hands a job to a worker.
Started(j, state) == [state |-> state, attempts |-> j.attempts + 1]

\* River's decision about a job that returned an error or lost its worker.
AfterError(j, max) ==
  [state |-> IF j.attempts < max THEN "queued" ELSE "discarded",
   attempts |-> j.attempts]

StartSetup(e) ==
  /\ setup[e].state = "queued"
  /\ ~(stale[e] /\ status[e] = "pending")
  /\ setup' = [setup EXCEPT ![e] = Started(setup[e], "streaming")]
  /\ UNCHANGED <<rowVars, dataVars, creator, job, localVars, faultVars>>

\* Too late to start: the execution is failed; if that cannot be written River
\* runs the job again.
StartSetupTooLate(e) ==
  /\ setup[e].state = "queued"
  /\ stale[e] /\ status[e] = "pending"
  /\ \/ /\ setup' = [setup EXCEPT ![e] = Started(setup[e], "handled")]
        /\ status' = [status EXCEPT ![e] = "failure"]
     \/ /\ setup' = [setup EXCEPT ![e] =
             AfterError(Started(setup[e], "streaming"), MaxSetupAttempts)]
        /\ UNCHANGED status
  /\ UNCHANGED <<dedup, stale, deadline, progress, dataVars, creator, job,
                 localVars, faultVars>>

\* StreamAllObjectIdsFromTable writes every matching id to the execution's one
\* blob key, whatever the blob held before.
StreamManifest(e) ==
  /\ setup[e].state = "streaming"
  /\ \E m \in Manifests : blob' = [blob EXCEPT ![e] = m]
  /\ setup' = [setup EXCEPT ![e].state = "written"]
  /\ UNCHANGED <<rowVars, scored, log, creator, job, localVars, faultVars>>

\* The stream breaks: the writer is closed all the same, which stores what was
\* written so far, and the error is returned.
StreamFails(e) ==
  /\ setup[e].state = "streaming"
  /\ \E m \in Manifests : \E n \in 0 .. Len(m) :
       blob' = [blob EXCEPT ![e] = SubSeq(m, 1, n)]
  /\ setup' = [setup EXCEPT ![e] = AfterError(setup[e], MaxSetupAttempts)]
  /\ UNCHANGED <<rowVars, scored, log, creator, job, localVars, faultVars>>

\* Any other error, or the death of the worker, before the transaction commits.
SetupFails(e) ==
  /\ setup[e].state \in {"streaming", "written"}
  /\ setup' = [setup EXCEPT ![e] = AfterError(setup[e], MaxSetupAttempts)]
  /\ UNCHANGED <<rowVars, dataVars, creator, job, localVars, faultVars>>

\* EnqueueBatchExecutionCoordinator: unique by arguments over River's default
\* states, which include completed jobs and leave out cancelled and discarded ones.
EnqueueUnique(j) ==
  IF j.state \in {"queued", "running", "completed"}
    THEN j ELSE [state |-> "queued", attempts |-> 0]

\* The transaction: planned count, manifest key and deadline; status; job.
\* The status is written whatever it was (UpdateScheduledExecutionStatus).
CommitSetup(e) ==
  /\ setup[e].state = "written"
  /\ progress' = [progress EXCEPT ![e].planned = Len(blob[e])]
  /\ deadline' = [deadline EXCEPT ![e] = "ahead"]
  /\ status' = [status EXCEPT ![e] = "processing"]
  /\ job' = [job EXCEPT ![e] = EnqueueUnique(job[e])]
  /\ setup' = [setup EXCEPT ![e].state = "handled"]
  /\ UNCHANGED <<dedup, stale, dataVars, creator, localVars, faultVars>>

CompleteSetup(e) ==
  /\ setup[e].state = "handled"
  /\ setup' = [setup EXCEPT ![e].state = "completed"]
  /\ UNCHANGED <<rowVars, dataVars, creator, job, localVars, faultVars>>

\* The worker dies after the commit and before River records the completion.
SetupRerun(e) ==
  /\ setup[e].state = "handled"
  /\ reruns < MaxReruns
  /\ reruns' = reruns + 1
  /\ setup' = [setup EXCEPT ![e] = AfterError(setup[e], MaxSetupAttempts)]
  /\ UNCHANGED <<rowVars, dataVars, creator, job, localVars, ambiguous>>

-----------------------------------------------------------------------------
(* The coordinator job: BatchExecutionCoordinator.Run.                     *)

\* scheduledExecutionFullMaxRuntime has passed since the setup.
DeadlinePasses(e) ==
  /\ "deadline" \in Timers
  /\ deadline[e] = "ahead"
  /\ deadline' = [deadline EXCEPT ![e] = "passed"]
  /\ UNCHANGED <<status, dedup, stale, progress, dataVars, creator, setup, job,
                 localVars, faultVars>>

\* A run starts from the counts and the cursor of the row.
StartRun(e) ==
  /\ job[e].state = "queued"
  /\ job' = [job EXCEPT ![e] = Started(job[e], "running")]
  /\ pc' = [pc EXCEPT ![e] = IF deadline[e] = "passed" THEN "late" ELSE "load"]
  /\ cursor' = [cursor EXCEPT ![e] = progress[e]]
  /\ UNCHANGED <<rowVars, dataVars, creator, setup, sliceOver, reader, batch,
                 faultVars>>

\* The coordinator's locals are gone when its run ends.
EndRun(e) ==
  /\ pc' = [pc EXCEPT ![e] = "idle"]
  /\ sliceOver' = [sliceOver EXCEPT ![e] = FALSE]
  /\ reader' = [reader EXCEPT ![e] = Closed]
  /\ cursor' = [cursor EXCEPT ![e] = NoProgress]
  /\ batch' = [batch EXCEPT ![e] = NoBatch]

\* The coordinator moves on and changes no other local variable.
Goto(e, label) ==
  /\ pc' = [pc EXCEPT ![e] = label]
  /\ UNCHANGED <<sliceOver, reader, cursor, batch>>

SetStatus(e, s) ==
  /\ status' = [status EXCEPT ![e] = s]
  /\ UNCHANGED <<dedup, stale, deadline, progress>>

AllRowsProcessed(p) == p.rows >= p.planned

\* The deadline is over: success if every row was processed.
FinishLate(e) ==
  /\ pc[e] = "late"
  /\ AllRowsProcessed(cursor[e])
  /\ SetStatus(e, "success")
  /\ Goto(e, "exit")
  /\ UNCHANGED <<dataVars, creator, setup, job, faultVars>>

\* markFailed: the job is cancelled whether or not the status update succeeds.
\* It runs after the deadline, and loadInvariants does the same when the trigger
\* table has left the data model.
MarkFailed(e) ==
  /\ \/ pc[e] = "late" /\ ~AllRowsProcessed(cursor[e])
     \/ pc[e] = "load" /\ TableMayDisappear
  /\ SetStatus(e, "failure") \/ UNCHANGED rowVars
  /\ job' = [job EXCEPT ![e].state = "cancelled"]
  /\ EndRun(e)
  /\ UNCHANGED <<dataVars, creator, setup, faultVars>>

\* loadInvariants succeeds and the loop starts.
LoadInvariants(e) ==
  /\ pc[e] = "load"
  /\ Goto(e, "loop")
  /\ UNCHANGED <<rowVars, dataVars, creator, setup, job, faultVars>>

\* batchExecDefaultRunDuration has passed since the loop started.
SliceTimeout(e) ==
  /\ "slice" \in Timers
  /\ pc[e] \in {"loop", "filter", "evaluate", "commit"}
  /\ ~sliceOver[e]
  /\ sliceOver' = [sliceOver EXCEPT ![e] = TRUE]
  /\ UNCHANGED <<rowVars, dataVars, creator, setup, job, pc, reader, cursor,
                 batch, faultVars>>

\* JobSnooze: the job is scheduled again and the attempt is not counted.
JobSnooze(j) == [state |-> "queued", attempts |-> j.attempts - 1]

\* Mutant: the end of the slice ends the job instead of putting it off.
Mutant_SliceEndsJob(e) ==
  /\ pc[e] = "loop" /\ sliceOver[e]
  /\ job' = [job EXCEPT ![e].state = "completed"]
  /\ EndRun(e)
  /\ UNCHANGED <<rowVars, dataVars, creator, setup, faultVars>>

Snooze(e) ==
  /\ pc[e] = "loop" /\ sliceOver[e]
  /\ job' = [job EXCEPT ![e] = JobSnooze(job[e])]
  /\ EndRun(e)
  /\ UNCHANGED <<rowVars, dataVars, creator, setup, faultVars>>

\* The status was flipped away from processing.
ExitNotProcessing(e) ==
  /\ pc[e] = "loop" /\ ~sliceOver[e]
  /\ status[e] /= "processing"
  /\ Goto(e, "exit")
  /\ UNCHANGED <<rowVars, dataVars, creator, setup, job, faultVars>>

ContinueLoop(e) ==
  /\ pc[e] = "loop" /\ ~sliceOver[e]
  /\ status[e] = "processing"

\* readManifestBatch, on a reader that is opened at the offset when there is none.
ReadFrom(e) == IF reader[e] = Closed THEN cursor[e].offset ELSE reader[e]

ReadManifestBatch(e) ==
  LET last == ReadFrom(e) + BatchSize
  IN  SubSeq(blob[e], ReadFrom(e) + 1,
             IF last < Len(blob[e]) THEN last ELSE Len(blob[e]))

\* All rows are processed, or the manifest is drained.
LoopDone(e) ==
  /\ ContinueLoop(e)
  /\ AllRowsProcessed(cursor[e]) \/ ReadManifestBatch(e) = <<>>
  /\ Goto(e, "finish")
  /\ UNCHANGED <<rowVars, dataVars, creator, setup, job, faultVars>>

ReadBatch(e) ==
  /\ ContinueLoop(e)
  /\ ~AllRowsProcessed(cursor[e])
  /\ ReadManifestBatch(e) /= <<>>
  /\ batch' = [batch EXCEPT ![e].ids = ReadManifestBatch(e)]
  /\ reader' = [reader EXCEPT ![e] = ReadFrom(e) + Len(ReadManifestBatch(e))]
  /\ pc' = [pc EXCEPT ![e] = "filter"]
  /\ UNCHANGED <<rowVars, dataVars, creator, setup, job, sliceOver, cursor,
                 faultVars>>

\* Rows of the batch left after FilterAlreadyScoredObjects, read outside of any
\* transaction; without deduplication all of them.
ToEvaluate(e) ==
  {i \in 1 .. Len(batch[e].ids) : dedup[e] => batch[e].ids[i] \notin scored}

FilterAlreadyScored(e) ==
  /\ pc[e] = "filter"
  /\ batch' = [batch EXCEPT ![e].toEvaluate = ToEvaluate(e)]
  /\ pc' = [pc EXCEPT ![e] = "evaluate"]
  /\ UNCHANGED <<rowVars, dataVars, creator, setup, job, sliceOver, reader,
                 cursor, faultVars>>

\* evaluateBatch: a verdict for every row, or an error for the whole batch.
EvaluateBatch(e) ==
  /\ pc[e] = "evaluate"
  /\ \E v \in [batch[e].toEvaluate -> Verdicts] :
       batch' = [batch EXCEPT ![e].verdict =
                   [i \in 1 .. Len(batch[e].ids) |->
                      IF i \in batch[e].toEvaluate THEN v[i] ELSE "prefiltered"]]
  /\ pc' = [pc EXCEPT ![e] = "commit"]
  /\ UNCHANGED <<rowVars, dataVars, creator, setup, job, sliceOver, reader,
                 cursor, faultVars>>

\* Mutant: the reader is left where it is, past the batch.
Mutant_ReaderNotReset(e) == reader' = reader

\* resetManifestReader: the reader is past the batch that will be read again.
ResetManifestReader(e) == reader' = [reader EXCEPT ![e] = Closed]

RetryBatch(e) ==
  /\ ResetManifestReader(e)
  /\ batch' = [batch EXCEPT ![e] = NoBatch]
  /\ pc' = [pc EXCEPT ![e] = "loop"]
  /\ UNCHANGED <<sliceOver, cursor>>

\* A retryable error while reading the manifest, filtering or evaluating, or a
\* rolled back transaction.
BatchFails(e) ==
  /\ \/ ContinueLoop(e) /\ ~AllRowsProcessed(cursor[e])
     \/ pc[e] \in {"filter", "evaluate", "commit"}
  /\ RetryBatch(e)
  /\ UNCHANGED <<rowVars, dataVars, creator, setup, job, faultVars>>

\* Mutant: objects missing from the table are claimed too.
Mutant_ClaimMissing(e) ==
  {batch[e].ids[i] : i \in {k \in 1 .. Len(batch[e].ids) :
                              batch[e].verdict[k] /= "prefiltered"}}

\* Mutant: nothing is recorded unless the execution deduplicates.
Mutant_RecordOnlyIfDedup(e) ==
  {batch[e].ids[i] : i \in {k \in 1 .. Len(batch[e].ids) :
     dedup[e] /\ batch[e].verdict[k] \in {"untriggered", "triggered"}}}

\* The evaluated objects that exist: all of them are to be recorded.
ToClaim(e) ==
  {batch[e].ids[i] : i \in {k \in 1 .. Len(batch[e].ids) :
                              batch[e].verdict[k] \in {"untriggered", "triggered"}}}

\* Mutant: the insert also returns the objects that were there before.
Mutant_ClaimReturnsAll(e) == ToClaim(e)

\* ClaimScoredObjects: those not recorded before are claimed.
Claimed(e) == ToClaim(e) \ scored

\* Mutant: decisions are stored without looking at the claims.
Mutant_ClaimIgnored(e, i) == FALSE

\* Another execution claimed the object since the filter.
LostClaim(e, i) == dedup[e] /\ batch[e].ids[i] \notin Claimed(e)

\* The loop over the results: what becomes of row i of the batch.
Outcome(e, i) ==
  LET verdict == batch[e].verdict[i]
  IN  IF verdict \in {"prefiltered", "missing"} THEN verdict
      ELSE IF LostClaim(e, i) THEN "lost"
      ELSE IF verdict = "triggered" THEN "decision" ELSE "untriggered"

BatchLog(e) ==
  [i \in 1 .. Len(batch[e].ids) |->
     [object |-> batch[e].ids[i], outcome |-> Outcome(e, i)]]

BatchCreated(e) ==
  Cardinality({i \in 1 .. Len(batch[e].ids) : Outcome(e, i) = "decision"})

\* AdvanceScheduledExecutionManifest writes absolute values: the coordinator's
\* cursors, moved by the batch.  The row keeps its planned count.
Advanced(e, planned) ==
  [planned |-> planned,
   offset |-> cursor[e].offset + Len(batch[e].ids),
   rows |-> cursor[e].rows + Len(batch[e].ids),
   created |-> cursor[e].created + BatchCreated(e),
   evaluated |-> cursor[e].evaluated + Cardinality(batch[e].toEvaluate)]

\* The transaction: claims, decisions and the manifest cursor.
ApplyBatch(e) ==
  /\ scored' = scored \cup Claimed(e)
  /\ log' = [log EXCEPT ![e] = log[e] \o BatchLog(e)]
  /\ progress' = [progress EXCEPT ![e] = Advanced(e, progress[e].planned)]
  /\ UNCHANGED <<blob, status, dedup, stale, deadline>>

CommitBatch(e) ==
  /\ pc[e] = "commit"
  /\ ApplyBatch(e)
  /\ cursor' = [cursor EXCEPT ![e] = Advanced(e, cursor[e].planned)]
  /\ batch' = [batch EXCEPT ![e] = NoBatch]
  /\ pc' = [pc EXCEPT ![e] = "loop"]
  /\ UNCHANGED <<sliceOver, reader, creator, setup, job, faultVars>>

\* The transaction commits but the answer is lost: the code takes the error for
\* a rollback and keeps its cursors.
CommitAmbiguous(e) ==
  /\ pc[e] = "commit"
  /\ ambiguous < MaxAmbiguous
  /\ ambiguous' = ambiguous + 1
  /\ ApplyBatch(e)
  /\ RetryBatch(e)
  /\ UNCHANGED <<creator, setup, job, reruns>>

FinishSuccess(e) ==
  /\ pc[e] = "finish"
  /\ SetStatus(e, "success")
  /\ Goto(e, "exit")
  /\ UNCHANGED <<dataVars, creator, setup, job, faultVars>>

\* Run returned nil.
CompleteRun(e) ==
  /\ pc[e] = "exit"
  /\ job' = [job EXCEPT ![e].state = "completed"]
  /\ EndRun(e)
  /\ UNCHANGED <<rowVars, dataVars, creator, setup, faultVars>>

\* Run returned an error (loading, or writing the last status), or the worker
\* died: local variables are lost, River runs the job again if it may.
RunFails(e) ==
  /\ job[e].state = "running"
  /\ job' = [job EXCEPT ![e] = AfterError(job[e], MaxCoordinatorAttempts)]
  /\ EndRun(e)
  /\ UNCHANGED <<rowVars, dataVars, creator, setup, faultVars>>

-----------------------------------------------------------------------------

Create == \E c \in Creators :
  \/ CheckNoneActive(c)
  \/ \E e \in Executions : CreateScheduledExecution(c, e)
  \/ GiveUpCreating(c)

SetupJob(e) ==
  \/ StartSetup(e) \/ StartSetupTooLate(e) \/ StreamManifest(e)
  \/ StreamFails(e) \/ SetupFails(e) \/ CommitSetup(e) \/ CompleteSetup(e)
  \/ SetupRerun(e)

CoordinatorJob(e) ==
  \/ StartRun(e) \/ FinishLate(e) \/ MarkFailed(e) \/ LoadInvariants(e)
  \/ Snooze(e) \/ ExitNotProcessing(e) \/ LoopDone(e) \/ ReadBatch(e)
  \/ FilterAlreadyScored(e) \/ EvaluateBatch(e) \/ BatchFails(e)
  \/ CommitBatch(e) \/ CommitAmbiguous(e) \/ FinishSuccess(e)
  \/ CompleteRun(e) \/ RunFails(e)

Clock(e) == InitiationTimeout(e) \/ DeadlinePasses(e) \/ SliceTimeout(e)

Next ==
  \/ Create
  \/ \E e \in Executions : SetupJob(e) \/ CoordinatorJob(e) \/ Clock(e)

Spec == Init /\ [][Next]_vars

\* River keeps running jobs, and timers fire.  Nothing is assumed of errors and
\* crashes, nor of creators: they may happen at every opportunity or never.
Fairness == \A e \in Executions :
  /\ WF_vars(SetupJob(e)) /\ WF_vars(CoordinatorJob(e))
  /\ WF_vars(InitiationTimeout(e)) /\ WF_vars(DeadlinePasses(e))
  /\ WF_vars(SliceTimeout(e))

FairSpec == Spec /\ Fairness

-----------------------------------------------------------------------------
(* Properties.                                                             *)

Progress == [planned : Nat, offset : Nat, rows : Nat, created : Nat,
             evaluated : Nat]

SetupType ==
  [state : {"none", "queued", "streaming", "written", "handled", "completed",
            "discarded"},
   attempts : 0 .. MaxSetupAttempts]

JobType ==
  [state : {"none", "queued", "running", "completed", "cancelled", "discarded"},
   attempts : 0 .. MaxCoordinatorAttempts]

BatchType == [ids : Seq(Objects), toEvaluate : SUBSET Nat,
              verdict : Seq(Verdicts \cup {"prefiltered"})]

RowOK ==
  /\ status \in [Executions -> Active \cup Terminal \cup {"none"}]
  /\ dedup \in [Executions -> BOOLEAN]
  /\ stale \in [Executions -> BOOLEAN]
  /\ deadline \in [Executions -> {"unset", "ahead", "passed"}]
  /\ progress \in [Executions -> Progress]

DataOK ==
  /\ blob \in [Executions -> Seq(Objects)]
  /\ scored \subseteq Objects
  /\ log \in [Executions -> Seq(Entry)]

JobsOK ==
  /\ creator \in [Creators -> {"idle", "cleared"}]
  /\ setup \in [Executions -> SetupType]
  /\ job \in [Executions -> JobType]

Labels == {"idle", "late", "load", "loop", "filter", "evaluate", "commit",
           "finish", "exit"}

LocalOK ==
  /\ pc \in [Executions -> Labels]
  /\ sliceOver \in [Executions -> BOOLEAN]
  /\ reader \in [Executions -> Nat \cup {Closed}]
  /\ cursor \in [Executions -> Progress]
  /\ batch \in [Executions -> BatchType]

FaultsOK == reruns \in 0 .. MaxReruns /\ ambiguous \in 0 .. MaxAmbiguous

\* Type invariant.  River never runs a job more often than its attempts allow,
\* although snoozes give attempts back.
TypeOK == RowOK /\ DataOK /\ JobsOK /\ LocalOK /\ FaultsOK

\* What execution e committed for its rows, and the rows it evaluated.
EvaluatedRows(e) == {i \in DOMAIN log[e] : log[e][i].outcome \in Evaluated}

\* An object is evaluated by at most one row of all the deduplicated executions
\* of the scenario, however their batches, crashes and retries interleave: the
\* claim of ClaimScoredObjects is a mutual exclusion.
DedupExclusive ==
  \A e, f \in Executions : dedup[e] /\ dedup[f] =>
    \A i \in EvaluatedRows(e), j \in EvaluatedRows(f) :
      log[e][i].object = log[f][j].object => e = f /\ i = j

\* A deduplicated execution never evaluates an object that any execution of the
\* scenario, deduplicated or not, evaluated before it.
NeverRescored ==
  [][\A e \in Executions : dedup[e] =>
       \A i \in EvaluatedRows(e)' \ DOMAIN log[e] :
         \A f \in Executions : \A j \in EvaluatedRows(f) :
           log[f][j].object /= log'[e][i].object]_vars

\* scenario_scored_objects holds exactly the objects some execution evaluated: a
\* claim is published with the outcome it stands for and never without it, so a
\* rolled back batch or an object missing from the table stays eligible.
ClaimsMatchLog ==
  scored = UNION {{log[e][i].object : i \in EvaluatedRows(e)} : e \in Executions}

\* The rows an execution committed are the manifest's first rows, in order, each
\* one once, through every crash, retry, snooze and failed batch; the cursors and
\* the counters in the row say how many, and success means all.
LogFollowsManifest == \A e \in Executions :
  /\ progress[e].rows = Len(log[e]) /\ progress[e].offset = Len(log[e])
  /\ \A i \in DOMAIN log[e] :
       i \in DOMAIN blob[e] /\ blob[e][i] = log[e][i].object
  /\ progress[e].created =
       Cardinality({i \in DOMAIN log[e] : log[e][i].outcome = "decision"})
  /\ progress[e].evaluated =
       Cardinality({i \in DOMAIN log[e] : log[e][i].outcome /= "prefiltered"})
  /\ status[e] = "success" => Len(log[e]) = Len(blob[e])

\* The end of an execution stays.
EndStays ==
  [][\A e \in Executions : status[e] \in Terminal => status'[e] = status[e]]_vars

\* A pending execution is started or failed, unless River drops its setup job, and
\* one that is processing reaches its end, at the latest by its deadline, unless
\* River drops its coordinator or the failure could not be recorded.  The end stays.
Settles ==
  /\ \A e \in Executions :
       /\ status[e] = "pending" ~>
            status[e] /= "pending" \/ setup[e].state = "discarded"
       /\ status[e] = "processing" ~>
            status[e] \in Terminal \/ job[e].state \in {"discarded", "cancelled"}
  /\ EndStays

\* The executions behave like entries in a ledger: every execution goes once
\* through its life, batches are recorded whole, and only while processing, and
\* what a deduplicated execution evaluates was never evaluated before.
Ledger == INSTANCE ScoringLedger WITH ledger <- log

RefinesLedger == Ledger!LedgerSpec

=============================================================================
