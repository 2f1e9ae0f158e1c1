-------------------------- MODULE TestRunSummaries --------------------------
(***************************************************************************)
(* The summary of a test run: a periodic job counts the decisions and the  *)
(* rules they executed, by outcome, in one window of time after another,   *)
(* and adds the counts to totals that carry the end of the last window as  *)
(* a watermark.  Jobs may overlap, as one that failed is retried while the *)
(* next period's runs; the version of the test run, updated_at, is meant   *)
(* to tell.                                                                *)
(*                                                                         *)
(* A job reads in one transaction, read committed, and writes at its end;  *)
(* the rows it has written stay locked until then.  Versions of the        *)
(* scenario, live and phantom decisions are not told apart; the three      *)
(* statistics of rules and screenings are one.                             *)
(***************************************************************************)
EXTENDS Integers

CONSTANTS
  Decisions,
  Outcome,      \* of each decision
  Approve,      \* the outcome of the row that is written when there is nothing to count
  Ruled,        \* decisions with rules that the statistics of rules see
  Jobs,         \* summaries that may be under way at a time
  Window,       \* TEST_RUN_SUMMARY_WINDOW
  EndDate,
  MaxSummaries  \* bound: summaries that are started

Outcomes == {Outcome[d] : d \in Decisions} \cup {Approve}

ASSUME SummaryAssumption ==
  /\ Ruled \subseteq Decisions
  /\ Window \in Nat \ {0} /\ EndDate \in Nat /\ MaxSummaries \in Nat

VARIABLES
  clock,      \* time.Now(); no two readings are equal
  decision,   \* state and created_at of each decision
  run,        \* scenario_test_run, created at 0; updated_at is a number of updates
  row,        \* scenario_test_run_summaries: how often a total counts each decision
  job,        \* local variables of the jobs
  summaries,  \* counter of the bound
  ends,       \* history: the ends of the windows that were committed
  uneven,     \* history: a summary has left rows behind that it did not see
  cut,        \* history: a stopped test run was marked summarized by a cut window
  late        \* history: decisions committed after a window that covers them was opened

summariesVars == <<clock, decision, run, row, job, summaries, ends, uneven, cut, late>>

Rows == {"decisions", "rules"} \X Outcomes

IdleJob ==
  [pc |-> "idle", since |-> 0, bound |-> 0, status |-> "up", expires |-> 0, updated |-> 0,
   decided |-> {}, ruled |-> {}, seen |-> {}, locks |-> {}]
NoRow == [watermark |-> 0, counts |-> [d \in Decisions |-> 0]]

SummariesInit ==
  /\ clock = 0
  /\ decision = [d \in Decisions |-> [state |-> "none", at |-> 0]]
  /\ run = [status |-> "up", expires |-> EndDate, updated |-> 0, summarized |-> FALSE]
  /\ row = [r \in Rows |-> NoRow]
  /\ job = [j \in Jobs |-> IdleJob]
  /\ summaries = 0
  /\ ends = {} /\ uneven = FALSE /\ cut = FALSE /\ late = {}

Stored == {d \in Decisions : decision[d].state = "stored"}
Existing == {r \in Rows : row[r].watermark > 0}

Now == clock + 1

-----------------------------------------------------------------------------
(* Decisions get their time when they are made, and are seen once they are *)
(* committed.                                                              *)

MakeDecision(d) ==
  /\ decision[d].state = "none"
  /\ decision' = [decision EXCEPT ![d] = [state |-> "made", at |-> Now]]
  /\ clock' = Now
  /\ UNCHANGED <<run, row, job, summaries, ends, uneven, cut, late>>

\* A window that covers time t was committed, or is worked upon.
Opened(t) == (\E e \in ends : t <= e) \/ \E j \in Jobs : t <= job[j].bound

StoreDecision(d) ==
  /\ decision[d].state = "made"
  /\ decision' = [decision EXCEPT ![d].state = "stored"]
  /\ late' = IF Opened(decision[d].at) THEN late \cup {d} ELSE late
  /\ UNCHANGED <<clock, run, row, job, summaries, ends, uneven, cut>>

-----------------------------------------------------------------------------
(* The job.                                                                *)

\* The row of the test run, among those a transaction may have written.
RunRow == <<"test run", Approve>>

\* No other transaction has written these rows.
Free(j, rows) == \A k \in Jobs \ {j} : job[k].locks \cap rows = {}

\* GetRecentTestRunForOrg lists the rows whose watermark is before the end.
Listed == {r \in Existing : row[r].watermark < run.expires}

\* The earliest watermark, or the creation of the test run.
Since == IF Existing = {} THEN {0}
         ELSE {t \in {row[r].watermark : r \in Listed} :
                 \A r \in Listed : t <= row[r].watermark}

StartSummary(j) ==
  /\ job[j] = IdleJob /\ summaries < MaxSummaries
  /\ ~run.summarized
  /\ \E since \in Since :
       job' = [job EXCEPT ![j] = [IdleJob EXCEPT
                 !.pc = "listed", !.since = since, !.status = run.status,
                 !.expires = run.expires, !.updated = run.updated]]
  /\ summaries' = summaries + 1
  /\ UNCHANGED <<clock, decision, run, row, ends, uneven, cut, late>>

\* windowBound
OpenWindow(j) ==
  /\ job[j].pc = "listed"
  /\ clock' = Now
  /\ job' = [job EXCEPT ![j].pc = "decisions",
                        ![j].bound = IF job[j].since + Window > Now THEN Now
                                     ELSE job[j].since + Window]
  /\ UNCHANGED <<decision, run, row, summaries, ends, uneven, cut, late>>

\* Both ends belong to the window.
Covered(j) == {d \in Stored : job[j].since <= decision[d].at /\ decision[d].at <= job[j].bound}

ReadDecisions(j) ==
  /\ job[j].pc = "decisions"
  /\ job' = [job EXCEPT ![j].pc = "rules", ![j].decided = Covered(j)]
  /\ UNCHANGED <<clock, decision, run, row, summaries, ends, uneven, cut, late>>

ReadRules(j) ==
  /\ job[j].pc = "rules"
  /\ job' = [job EXCEPT ![j].pc = "save", ![j].ruled = Covered(j) \cap Ruled]
  /\ UNCHANGED <<clock, decision, run, row, summaries, ends, uneven, cut, late>>

DecisionRows(j) ==
  {<<"decisions", o>> : o \in IF job[j].decided = {} THEN {Approve}
                              ELSE {Outcome[d] : d \in job[j].decided}}

RuleRows(j) == {<<"rules", Outcome[d]>> : d \in job[j].ruled}

\* The rows are inserted or updated; what another transaction has written is waited for.
SaveRows(j) ==
  LET rows == DecisionRows(j) \cup RuleRows(j)
  IN  /\ job[j].pc = "save" /\ Free(j, rows)
      /\ job' = [job EXCEPT ![j].pc = "see", ![j].locks = rows]
      /\ UNCHANGED <<clock, decision, run, row, summaries, ends, uneven, cut, late>>

\* BumpDecisionSummaryWatermark: an update sees the rows committed when it starts,
\* and waits for those of them that are locked.
SeeRows(j) ==
  /\ job[j].pc = "see"
  /\ job' = [job EXCEPT ![j].pc = "bump", ![j].seen = Existing]
  /\ UNCHANGED <<clock, decision, run, row, summaries, ends, uneven, cut, late>>

BumpWatermarks(j) ==
  /\ job[j].pc = "bump" /\ Free(j, job[j].seen)
  /\ job' = [job EXCEPT ![j].pc = "check", ![j].locks = job[j].locks \cup job[j].seen]
  /\ UNCHANGED <<clock, decision, run, row, summaries, ends, uneven, cut, late>>

Summarizes(j) == job[j].status = "down" \/ job[j].bound > job[j].expires

\* Mutant: the version of the test run is not compared.
Mutant_NoVersion(j) ==
  /\ job[j].pc = "check" /\ (Summarizes(j) => Free(j, {RunRow}))
  /\ job' = [job EXCEPT ![j].pc = "commit",
                        ![j].locks = job[j].locks \cup IF Summarizes(j) THEN {RunRow} ELSE {}]
  /\ UNCHANGED <<clock, decision, run, row, summaries, ends, uneven, cut, late>>

\* SetTestRunAsSummarized, and ReadLatestUpdatedAt.
CheckVersion(j) ==
  /\ job[j].pc = "check" /\ (Summarizes(j) => Free(j, {RunRow}))
  /\ job' = IF run.updated = job[j].updated
            THEN [job EXCEPT ![j].pc = "commit",
                    ![j].locks = job[j].locks \cup IF Summarizes(j) THEN {RunRow} ELSE {}]
            ELSE [job EXCEPT ![j] = IdleJob]
  /\ UNCHANGED <<clock, decision, run, row, summaries, ends, uneven, cut, late>>

Counted(j, r, d) == \/ d \in job[j].decided /\ r = <<"decisions", Outcome[d]>>
                    \/ d \in job[j].ruled /\ r = <<"rules", Outcome[d]>>

\* The totals with those of the job, which read up to a watermark.
Summed(j, watermark) ==
  [r \in Rows |->
     IF r \notin job[j].locks THEN row[r]
     ELSE [watermark |-> watermark,
           counts |-> [d \in Decisions |-> row[r].counts[d] + IF Counted(j, r, d) THEN 1 ELSE 0]]]

\* savedNewData
SavedNewData(j) == job[j].ruled /= {}

Touched(j) ==
  [run EXCEPT !.updated = IF SavedNewData(j) THEN run.updated + 1 ELSE run.updated,
              !.summarized = run.summarized \/ RunRow \in job[j].locks]

\* The window ended before the present, and will be the last one of a stopped test run.
CutOff(j) == job[j].status = "down" /\ job[j].bound = job[j].since + Window

\* Rows that another transaction has inserted keep their watermark.
LeavesBehind(j) == Existing \ job[j].locks /= {}

\* Mutant: the watermark is the time of the commit.
Mutant_LateWatermark(j) ==
  /\ job[j].pc = "commit" /\ (SavedNewData(j) => Free(j, {RunRow}))
  /\ row' = Summed(j, Now) /\ clock' = Now
  /\ run' = Touched(j)
  /\ job' = [job EXCEPT ![j] = IdleJob]
  /\ ends' = ends \cup {job[j].bound}
  /\ uneven' = (uneven \/ LeavesBehind(j))
  /\ cut' = (cut \/ (RunRow \in job[j].locks /\ CutOff(j)))
  /\ UNCHANGED <<decision, summaries, late>>

\* TouchLatestUpdatedAt, and the end of the transaction.
CommitSummary(j) ==
  /\ job[j].pc = "commit" /\ (SavedNewData(j) => Free(j, {RunRow}))
  /\ row' = Summed(j, job[j].bound)
  /\ run' = Touched(j)
  /\ job' = [job EXCEPT ![j] = IdleJob]
  /\ ends' = ends \cup {job[j].bound}
  /\ uneven' = (uneven \/ LeavesBehind(j))
  /\ cut' = (cut \/ (RunRow \in job[j].locks /\ CutOff(j)))
  /\ UNCHANGED <<clock, decision, summaries, late>>

\* An error, a deadlock, the timeout or the death of the worker.
SummaryFails(j) ==
  /\ job[j] /= IdleJob
  /\ job' = [job EXCEPT ![j] = IdleJob]
  /\ UNCHANGED <<clock, decision, run, row, summaries, ends, uneven, cut, late>>

\* UpdateTestRunStatus to down, when another version is published or a user cancels.
StopTestRun ==
  /\ run.status = "up" /\ \A j \in Jobs : RunRow \notin job[j].locks
  /\ run' = [run EXCEPT !.status = "down", !.expires = Now]
  /\ clock' = Now
  /\ UNCHANGED <<decision, row, job, summaries, ends, uneven, cut, late>>

-----------------------------------------------------------------------------

Summary(j) ==
  \/ StartSummary(j) \/ OpenWindow(j) \/ ReadDecisions(j) \/ ReadRules(j) \/ SaveRows(j)
  \/ SeeRows(j) \/ BumpWatermarks(j) \/ CheckVersion(j) \/ CommitSummary(j) \/ SummaryFails(j)

SummariesNext ==
  \/ \E d \in Decisions : MakeDecision(d) \/ StoreDecision(d)
  \/ \E j \in Jobs : Summary(j)
  \/ StopTestRun

SummariesSpec == SummariesInit /\ [][SummariesNext]_summariesVars

-----------------------------------------------------------------------------
(* Properties.                                                             *)

\* As long as no summary has left rows behind, no decision is counted twice in a total,
\* although jobs overlap, fail and run again.  A decision of the very instant at which a
\* window ends belongs to the next one, too.
CountedOnce == ~uneven =>
  \A r \in Rows, d \in Decisions : decision[d].at \notin ends => row[r].counts[d] <= 1

InTotals(d) == /\ row[<<"decisions", Outcome[d]>>].counts[d] > 0
               /\ d \in Ruled => row[<<"rules", Outcome[d]>>].counts[d] > 0

\* What lies before the watermark is in the totals, except what was committed after a
\* window that covers it had been opened; and when the test run is marked summarized,
\* so is all that was decided before it ended, by a stop or at its date.  The exception
\* is a stopped test run whose summaries are more than a window behind: the next one
\* marks it summarized although its window is cut off, and what comes after that window
\* is never counted.
NoneMissed == \A d \in Stored \ late :
  \/ \E r \in Existing : decision[d].at <= row[r].watermark
  \/ /\ run.summarized /\ ~cut
     /\ decision[d].at <= run.expires /\ decision[d].at <= EndDate
  => InTotals(d)

=============================================================================
