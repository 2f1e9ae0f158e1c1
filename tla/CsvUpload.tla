----------------------------- MODULE CsvUpload -----------------------------
(***************************************************************************)
(* A CSV file that is ingested by a job of the task queue.  The file is    *)
(* read in batches; the log of the upload, in another database than the    *)
(* rows, says how far it got, so that an attempt resumes where a previous  *)
(* one stopped.  An attempt that runs out of time snoozes its job; one     *)
(* that is cut short from the outside, by its timeout or by a shutdown,    *)
(* leaves the log as it is, and the queue may start the next attempt while *)
(* it is still unwinding.                                                  *)
(*                                                                         *)
(* Offsets are counted in batches.                                         *)
(***************************************************************************)
EXTENDS ObjectVersions

CONSTANTS
  File,               \* the rows of each batch
  Attempts,           \* the attempts of the job that may be under way at a time
  MaxUploadAttempts,  \* attempts of the job
  MaxSnoozes          \* csvIngestionMaxSnoozes

ASSUME UploadAssumption ==
  /\ Attempts \subseteq Ingesters
  /\ File \in Seq(Payloads)
  /\ MaxUploadAttempts \in Nat \ {0} /\ MaxSnoozes \in Nat

VARIABLES
  upload,      \* the row of upload_logs
  uploadJob,   \* the job
  worker,      \* local variables of each attempt
  overtaken    \* an attempt began before another one had unwound

uploadVars == <<upload, uploadJob, worker, overtaken>>

IdleWorker == [pc |-> "idle", offset |-> 0, cut |-> FALSE]

UploadInit ==
  /\ upload = [status |-> "none", offset |-> 0]
  /\ uploadJob = [state |-> "none", attempts |-> 0, snoozes |-> 0]
  /\ worker = [a \in Attempts |-> IdleWorker]
  /\ overtaken = FALSE

Terminal == {"success", "failure"}

-----------------------------------------------------------------------------

\* ValidateAndUploadIngestionCsv: the log and the job in one transaction.
Submit ==
  /\ upload.status = "none"
  /\ upload' = [upload EXCEPT !.status = "pending"]
  /\ uploadJob' = [uploadJob EXCEPT !.state = "available"]
  /\ UNCHANGED <<ingestionVars, worker, overtaken>>

\* An attempt whose context is cancelled does nothing more.
Go(a, pc) == worker' = [worker EXCEPT ![a].pc = IF worker[a].cut THEN "end" ELSE pc]

\* The state of a job whose attempt failed.
Retried == IF uploadJob.attempts < MaxUploadAttempts THEN "available" ELSE "discarded"

EndJob(a, state) ==
  /\ uploadJob' = IF worker[a].cut THEN uploadJob ELSE [uploadJob EXCEPT !.state = state]
  /\ worker' = [worker EXCEPT ![a] = IdleWorker]

\* UpdateUploadLogStatus, from a status that is a condition of the update.
SetStatus(from, to) ==
  upload' = IF upload.status = from THEN [upload EXCEPT !.status = to] ELSE upload

\* Mutant: only a log that is pending is ingested.
Mutant_NeverResume(status) == IF status = "pending" THEN "claim" ELSE "done"

\* What an attempt does with a log of some status.
FirstStep(status) ==
  CASE status = "pending"    -> "claim"
    [] status = "processing" -> "batch"
    [] OTHER                 -> "done"

StartAttempt(a) ==
  /\ uploadJob.state = "available" /\ worker[a].pc = "idle"
  /\ ingest[a].pc \in {"idle", "returned"}
  /\ uploadJob' = [uploadJob EXCEPT !.state = "running", !.attempts = uploadJob.attempts + 1]
  /\ worker' = [worker EXCEPT ![a] =
       [pc |-> IF uploadJob.snoozes >= MaxSnoozes THEN "giveUp" ELSE FirstStep(upload.status),
        offset |-> upload.offset, cut |-> FALSE]]
  /\ overtaken' = (overtaken \/ \E other \in Attempts : worker[other].pc /= "idle")
  /\ UNCHANGED <<ingestionVars, upload>>

\* FailUploadLog after too many resumes.
GiveUp(a) ==
  /\ worker[a].pc = "giveUp"
  /\ SetStatus("processing", "failure")
  /\ EndJob(a, "cancelled")
  /\ UNCHANGED <<ingestionVars, overtaken>>

NothingToDo(a) ==
  /\ worker[a].pc = "done"
  /\ EndJob(a, "completed")
  /\ UNCHANGED <<ingestionVars, upload, overtaken>>

\* The log is no longer pending when another attempt claimed it.
Claim(a) ==
  /\ worker[a].pc = "claim"
  /\ SetStatus("pending", "processing")
  /\ Go(a, IF upload.status = "pending" THEN "batch" ELSE "done")
  /\ UNCHANGED <<ingestionVars, uploadJob, overtaken>>

\* A batch is ingested by a call of its own.
IngestBatch(a) ==
  /\ worker[a].pc = "batch" /\ ~worker[a].cut
  /\ worker[a].offset < Len(File)
  /\ Call(a, File[worker[a].offset + 1], FALSE, FALSE)
  /\ worker' = [worker EXCEPT ![a].pc = "ingesting"]
  /\ UNCHANGED <<upload, uploadJob, overtaken>>

EndOfFile(a) ==
  /\ worker[a].pc = "batch" /\ ~worker[a].cut
  /\ worker[a].offset >= Len(File)
  /\ worker' = [worker EXCEPT ![a].pc = "finish"]
  /\ UNCHANGED <<ingestionVars, upload, uploadJob, overtaken>>

\* Mutant: the batch counts as ingested even when it was refused.
Mutant_NextBatch(a) ==
  /\ worker[a].pc = "ingesting" /\ ingest[a].pc = "returned"
  /\ worker' = [worker EXCEPT ![a].offset = @ + 1, ![a].pc =
       IF worker[a].cut THEN "end" ELSE "checkpoint"]
  /\ UNCHANGED <<ingestionVars, upload, uploadJob, overtaken>>

BatchReturned(a) ==
  /\ worker[a].pc = "ingesting" /\ ingest[a].pc = "returned"
  /\ \/ /\ ingest[a].outcome = "ok"
        /\ worker' = [worker EXCEPT ![a].offset = @ + 1, ![a].pc =
             IF worker[a].cut THEN "end" ELSE "checkpoint"]
     \/ ingest[a].outcome /= "ok" /\ Go(a, "fail")
  /\ UNCHANGED <<ingestionVars, upload, uploadJob, overtaken>>

\* SaveUploadLogCheckpoint never lets the offset move backwards.
MayCheckpoint(a) == upload.status = "processing" /\ upload.offset <= worker[a].offset

\* Past its deadline the attempt stops after the checkpoint.
Checkpoint(a) ==
  /\ worker[a].pc = "checkpoint"
  /\ upload' = IF MayCheckpoint(a) THEN [upload EXCEPT !.offset = worker[a].offset] ELSE upload
  /\ Go(a, "batch") \/ Go(a, "snooze")
  /\ UNCHANGED <<ingestionVars, uploadJob, overtaken>>

\* JobSnooze does not count as an attempt.
Snooze(a) ==
  /\ worker[a].pc = "snooze" /\ ~worker[a].cut
  /\ uploadJob' = [state |-> "available", attempts |-> uploadJob.attempts - 1,
                   snoozes |-> uploadJob.snoozes + 1]
  /\ worker' = [worker EXCEPT ![a] = IdleWorker]
  /\ UNCHANGED <<ingestionVars, upload, overtaken>>

Finish(a) ==
  /\ worker[a].pc = "finish"
  /\ SetStatus("processing", "success")
  /\ EndJob(a, "completed")
  /\ UNCHANGED <<ingestionVars, overtaken>>

\* setToFailed.
Failed(a) == SetStatus("processing", "failure")

\* failAttempt: the error is returned all the same, and the next attempt finds a log
\* in a terminal status.  The update does not depend on the context of the attempt.
FailAttempt(a) ==
  /\ worker[a].pc = "fail"
  /\ Failed(a)
  /\ EndJob(a, Retried)
  /\ UNCHANGED <<ingestionVars, overtaken>>

\* A step fails; so may the update that records it, which is only logged.
StepFails(a) ==
  /\ worker[a].pc \in {"giveUp", "claim", "batch", "checkpoint", "finish", "fail"}
  /\ ~worker[a].cut
  /\ Fault
  /\ \/ worker[a].pc \in {"batch", "checkpoint"} /\ Go(a, "fail") /\ UNCHANGED uploadJob
     \/ worker[a].pc \notin {"batch", "checkpoint"} /\ EndJob(a, Retried)
  /\ UNCHANGED <<table, clock, ingest, monitored, tasks, upload, overtaken>>

\* The context of an attempt is cancelled: its job is available again, while a
\* statement it sent may still be executed.
Cut(a) ==
  /\ worker[a].pc \notin {"idle", "end"} /\ ~worker[a].cut
  /\ Fault
  /\ worker' = [worker EXCEPT ![a].cut = TRUE]
  /\ uploadJob' = [uploadJob EXCEPT !.state = Retried]
  /\ UNCHANGED <<table, clock, ingest, monitored, tasks, upload, overtaken>>

Unwind(a) ==
  /\ \/ worker[a].pc = "end"
     \/ worker[a].cut /\ worker[a].pc /= "ingesting"
  /\ worker' = [worker EXCEPT ![a] = IdleWorker]
  /\ UNCHANGED <<ingestionVars, upload, uploadJob, overtaken>>

UploadStep(a) ==
  \/ StartAttempt(a) \/ GiveUp(a) \/ NothingToDo(a) \/ Claim(a) \/ IngestBatch(a)
  \/ EndOfFile(a) \/ BatchReturned(a) \/ Checkpoint(a) \/ Snooze(a) \/ Finish(a)
  \/ FailAttempt(a) \/ StepFails(a) \/ Cut(a) \/ Unwind(a)

-----------------------------------------------------------------------------
(* Properties.                                                             *)

\* The table holds a row, or a newer one of the same object.
Holds(o, row) == ValidVersion(o) /= 0 /\ table[o][ValidVersion(o)].at >= row.at

\* Every row before the offset, and every row of an upload that succeeded, is in the
\* table, whatever attempts failed, were cut short or overlapped.
UploadComplete ==
  \A k \in 1 .. (IF upload.status = "success" THEN Len(File) ELSE upload.offset) :
    \A o \in DOMAIN File[k] : Holds(o, File[k][o])

\* Although attempts overlap and a late one may still write, the offset never moves
\* back, and what a user was told of an upload that ended does not change.
UploadAdvances ==
  [][/\ upload'.offset >= upload.offset
     /\ upload.status \in Terminal => upload' = upload]_uploadVars

\* Every upload advances until it ends, or its job runs out of attempts.
UploadSettles ==
  /\ UploadAdvances
  /\ upload.status = "pending" ~>
       (upload.status \in Terminal \/ uploadJob.state = "discarded" \/ overtaken)

=============================================================================
