------------------------ MODULE BatchExecutionProofs ------------------------
(***************************************************************************)
(* Proofs about BatchExecution, for any number of executions, objects and  *)
(* creators, any batch size and any bounds.                                *)
(***************************************************************************)
EXTENDS BatchExecution, FiniteSetTheorems, TLAPS

-----------------------------------------------------------------------------
(* Type correctness.                                                       *)

\* What the River state of an execution's jobs says of its coordinator and of
\* the attempts used; needed because a run takes an attempt and a snooze gives
\* one back.
AttemptsInv == \A e \in Executions :
  /\ setup[e].state = "queued" => setup[e].attempts < MaxSetupAttempts
  /\ job[e].state = "queued" => job[e].attempts < MaxCoordinatorAttempts
  /\ job[e].state = "running" => job[e].attempts > 0
  /\ pc[e] /= "idle" => job[e].state = "running"

\* The variables of a batch agree in length.
BatchInv == \A e \in Executions :
  /\ batch[e].toEvaluate \subseteq 1 .. Len(batch[e].ids)
  /\ pc[e] \notin {"evaluate", "commit", "finish", "exit"} => batch[e].toEvaluate = {}
  /\ pc[e] = "commit" => Len(batch[e].verdict) = Len(batch[e].ids)

TypeInv == TypeOK /\ AttemptsInv /\ BatchInv

\* The attempts are positive numbers of at most the configured maximum.
LEMMA Maxima ==
  /\ MaxSetupAttempts \in Nat /\ MaxSetupAttempts > 0
  /\ MaxCoordinatorAttempts \in Nat /\ MaxCoordinatorAttempts > 0
  /\ MaxReruns \in Nat /\ MaxAmbiguous \in Nat
  BY BoundsAssumption

\* The values that a run starts and ends with are well typed.
LEMMA EmptyValues ==
  /\ NoProgress \in Progress
  /\ NoBatch \in BatchType /\ NoBatch.toEvaluate = {} /\ NoBatch.ids = <<>>
  /\ Closed \in Nat \cup {Closed}
  <1>1. NoProgress \in Progress
    BY DEF NoProgress, Progress
  <1>2. NoBatch \in BatchType
    BY DEF NoBatch, BatchType
  <1> QED BY <1>1, <1>2 DEF NoBatch

\* River's bookkeeping keeps the jobs well typed.
LEMMA JobValues ==
  /\ \A j \in SetupType :
       /\ j.attempts \in Nat
       /\ j.attempts < MaxSetupAttempts =>
            \A s \in {"streaming", "handled"} :
              Started(j, s) \in SetupType /\ Started(j, s).state /= "queued"
       /\ AfterError(j, MaxSetupAttempts) \in SetupType
       /\ AfterError(j, MaxSetupAttempts).state = "queued" =>
            AfterError(j, MaxSetupAttempts).attempts < MaxSetupAttempts
  /\ \A j \in JobType :
       /\ j.attempts \in Nat
       /\ j.attempts < MaxCoordinatorAttempts =>
            /\ Started(j, "running") \in JobType
            /\ Started(j, "running").attempts > 0
            /\ Started(j, "running").state = "running"
       /\ AfterError(j, MaxCoordinatorAttempts) \in JobType
       /\ AfterError(j, MaxCoordinatorAttempts).state /= "running"
       /\ AfterError(j, MaxCoordinatorAttempts).state = "queued" =>
            AfterError(j, MaxCoordinatorAttempts).attempts < MaxCoordinatorAttempts
       /\ j.attempts > 0 => /\ JobSnooze(j) \in JobType
                            /\ JobSnooze(j).state = "queued"
                            /\ JobSnooze(j).attempts < MaxCoordinatorAttempts
       /\ EnqueueUnique(j) \in JobType
       /\ EnqueueUnique(j) = j \/ EnqueueUnique(j) = [state |-> "queued", attempts |-> 0]
  <1>1. ASSUME NEW j \in SetupType
        PROVE  /\ j.attempts \in Nat
               /\ j.attempts < MaxSetupAttempts =>
                    \A s \in {"streaming", "handled"} :
                      Started(j, s) \in SetupType /\ Started(j, s).state /= "queued"
               /\ AfterError(j, MaxSetupAttempts) \in SetupType
               /\ AfterError(j, MaxSetupAttempts).state = "queued" =>
                    AfterError(j, MaxSetupAttempts).attempts < MaxSetupAttempts
    BY Maxima DEF SetupType, Started, AfterError
  <1>2. ASSUME NEW j \in JobType
        PROVE  /\ j.attempts \in Nat
               /\ j.attempts < MaxCoordinatorAttempts =>
                    /\ Started(j, "running") \in JobType
                    /\ Started(j, "running").attempts > 0
                    /\ Started(j, "running").state = "running"
               /\ AfterError(j, MaxCoordinatorAttempts) \in JobType
               /\ AfterError(j, MaxCoordinatorAttempts).state /= "running"
               /\ AfterError(j, MaxCoordinatorAttempts).state = "queued" =>
                    AfterError(j, MaxCoordinatorAttempts).attempts < MaxCoordinatorAttempts
    BY Maxima DEF JobType, Started, AfterError
  <1>3. ASSUME NEW j \in JobType
        PROVE  /\ j.attempts > 0 => /\ JobSnooze(j) \in JobType
                                    /\ JobSnooze(j).state = "queued"
                                    /\ JobSnooze(j).attempts < MaxCoordinatorAttempts
               /\ EnqueueUnique(j) \in JobType
               /\ EnqueueUnique(j) = j \/ EnqueueUnique(j) = [state |-> "queued", attempts |-> 0]
    BY Maxima DEF JobType, JobSnooze, EnqueueUnique
  <1> QED BY <1>1, <1>2, <1>3

\* A batch read from the manifest is a sequence of object ids (readManifestBatch).
LEMMA ReadType ==
  ASSUME TypeOK, NEW e \in Executions
  PROVE  /\ ReadFrom(e) \in Nat
         /\ ReadManifestBatch(e) \in Seq(Objects)
         /\ Len(ReadManifestBatch(e)) \in Nat
  <1>1. ReadFrom(e) \in Nat
    BY DEF TypeOK, LocalOK, ReadFrom, Progress, Closed
  <1>2. blob[e] \in Seq(Objects) /\ Len(blob[e]) \in Nat
    BY DEF TypeOK, DataOK
  <1>3. ReadManifestBatch(e) \in Seq(Objects)
    BY <1>1, <1>2, BatchSizeAssumption DEF ReadManifestBatch
  <1> QED BY <1>1, <1>3

\* The entries of a batch, and its counts, are well formed (the result loop and
\* AdvanceScheduledExecutionManifest).
LEMMA BatchIsTyped ==
  ASSUME TypeInv, NEW e \in Executions, pc[e] = "commit"
  PROVE  /\ \A i \in 1 .. Len(batch[e].ids) : Outcome(e, i) \in Outcomes
         /\ BatchLog(e) \in Seq(Entry)
         /\ Claimed(e) \subseteq Objects
         /\ \A p \in Nat : Advanced(e, p) \in Progress
  <1> DEFINE n == Len(batch[e].ids)
  <1>1. /\ batch[e].ids \in Seq(Objects) /\ n \in Nat
        /\ batch[e].verdict \in Seq(Verdicts \cup {"prefiltered"})
        /\ Len(batch[e].verdict) = n
        /\ batch[e].toEvaluate \subseteq 1 .. n
    BY DEF TypeInv, TypeOK, LocalOK, BatchInv, BatchType
  <1>2. ASSUME NEW i \in 1 .. n PROVE Outcome(e, i) \in Outcomes
    <2>1. batch[e].verdict[i] \in {"prefiltered", "missing", "untriggered", "triggered"}
      BY <1>1 DEF Verdicts
    <2> QED BY <2>1 DEF Outcome, Outcomes, Evaluated
  <1>3. BatchLog(e) \in Seq(Entry)
    <2>1. \A i \in 1 .. n : batch[e].ids[i] \in Objects
      BY <1>1
    <2>2. BatchLog(e) \in [1 .. n -> Entry]
      BY <1>2, <2>1 DEF BatchLog, Entry
    <2> QED BY <1>1, <2>2
  <1>4. Claimed(e) \subseteq Objects
    BY <1>1 DEF Claimed, ToClaim
  <1>5. IsFiniteSet(1 .. n)
    BY <1>1, FS_Interval
  <1>6. BatchCreated(e) \in Nat
    <2>1. IsFiniteSet({i \in 1 .. n : Outcome(e, i) = "decision"})
      BY <1>5, FS_Subset
    <2> QED BY <2>1, FS_CardinalityType DEF BatchCreated
  <1>7. Cardinality(batch[e].toEvaluate) \in Nat
    BY <1>1, <1>5, FS_Subset, FS_CardinalityType
  <1>8. /\ cursor[e].offset \in Nat /\ cursor[e].rows \in Nat
        /\ cursor[e].created \in Nat /\ cursor[e].evaluated \in Nat
    BY DEF TypeInv, TypeOK, LocalOK, Progress
  <1>9. ASSUME NEW p \in Nat PROVE Advanced(e, p) \in Progress
    <2>1. Len(batch[e].ids) \in Nat
      BY <1>1
    <2>2. cursor[e].offset + Len(batch[e].ids) \in Nat
      BY <2>1, <1>8
    <2>3. cursor[e].rows + Len(batch[e].ids) \in Nat
      BY <2>1, <1>8
    <2>4. cursor[e].created + BatchCreated(e) \in Nat
      BY <1>6, <1>8
    <2>5. cursor[e].evaluated + Cardinality(batch[e].toEvaluate) \in Nat
      BY <1>7, <1>8
    <2> QED BY <2>2, <2>3, <2>4, <2>5 DEF Advanced, Progress
  <1> QED BY <1>2, <1>3, <1>4, <1>9

\* Every step preserves the types and what they rest on.
LEMMA TypeInvStep == TypeInv /\ [Next]_vars => TypeInv'
  <1> SUFFICES ASSUME TypeInv, [Next]_vars PROVE TypeInv'
    OBVIOUS
  <1>1. /\ TypeOK /\ RowOK /\ DataOK /\ JobsOK /\ LocalOK /\ FaultsOK
        /\ AttemptsInv /\ BatchInv /\ pc \in [Executions -> Labels]
    BY DEF TypeInv, TypeOK, LocalOK
  <1>2. ASSUME NEW c \in Creators, CheckNoneActive(c) \/ GiveUpCreating(c)
        PROVE  TypeInv'
    BY <1>1, <1>2 DEF CheckNoneActive, GiveUpCreating, TypeInv, TypeOK, RowOK, DataOK,
       JobsOK, LocalOK, FaultsOK, AttemptsInv, BatchInv, rowVars, dataVars,
       localVars, faultVars
  <1>3. ASSUME NEW c \in Creators, NEW e \in Executions,
               CreateScheduledExecution(c, e)
        PROVE  TypeInv'
    <2>1. DataOK' /\ LocalOK' /\ BatchInv' /\ FaultsOK'
      BY <1>1, <1>3 DEF CreateScheduledExecution, DataOK, LocalOK, BatchInv,
         FaultsOK, dataVars, localVars, faultVars
    <2>2. RowOK'
      BY <1>1, <1>3 DEF CreateScheduledExecution, RowOK, Active
    <2>3. [state |-> "queued", attempts |-> 0] \in SetupType
      BY Maxima DEF SetupType
    <2>4. JobsOK' /\ AttemptsInv'
      BY <1>1, <1>3, <2>3, Maxima DEF CreateScheduledExecution, JobsOK, AttemptsInv,
         localVars
    <2> QED BY <2>1, <2>2, <2>4 DEF TypeInv, TypeOK
  <1>4. ASSUME NEW e \in Executions, InitiationTimeout(e) PROVE TypeInv'
    <2>1. DataOK' /\ JobsOK' /\ AttemptsInv' /\ LocalOK' /\ BatchInv' /\ FaultsOK'
      BY <1>1, <1>4 DEF InitiationTimeout, DataOK, dataVars, JobsOK,
         AttemptsInv, localVars, LocalOK, BatchInv, FaultsOK, faultVars
    <2>2. RowOK'
      BY <1>1, <1>4 DEF InitiationTimeout, RowOK, rowVars
    <2> QED BY <2>1, <2>2 DEF TypeInv, TypeOK
  <1>5. ASSUME NEW e \in Executions, StartSetup(e) PROVE TypeInv'
    <2>1. RowOK' /\ DataOK' /\ LocalOK' /\ BatchInv' /\ FaultsOK'
      BY <1>1, <1>5 DEF StartSetup, RowOK, rowVars, DataOK, dataVars,
         LocalOK, localVars, BatchInv, FaultsOK, faultVars
    <2>2. JobsOK' /\ AttemptsInv'
      BY <1>1, <1>5, JobValues DEF StartSetup, JobsOK, AttemptsInv, localVars
    <2> QED BY <2>1, <2>2 DEF TypeInv, TypeOK
  <1>6. ASSUME NEW e \in Executions, StartSetupTooLate(e) PROVE TypeInv'
    <2>1. DataOK' /\ LocalOK' /\ BatchInv' /\ FaultsOK'
      BY <1>1, <1>6 DEF StartSetupTooLate, DataOK, dataVars, LocalOK,
         localVars, BatchInv, FaultsOK, faultVars
    <2>2. RowOK'
      BY <1>1, <1>6 DEF StartSetupTooLate, Active, Terminal, RowOK, rowVars
    <2>3. JobsOK' /\ AttemptsInv'
      BY <1>1, <1>6, JobValues DEF StartSetupTooLate, JobsOK, AttemptsInv,
         localVars
    <2> QED BY <2>1, <2>2, <2>3 DEF TypeInv, TypeOK
  <1>7. ASSUME NEW e \in Executions, StreamManifest(e) PROVE TypeInv'
    <2>1. RowOK' /\ LocalOK' /\ BatchInv' /\ FaultsOK'
      BY <1>1, <1>7 DEF StreamManifest, RowOK, rowVars, LocalOK, localVars,
         BatchInv, FaultsOK, faultVars
    <2>2. DataOK'
      BY <1>1, <1>7, ManifestsAssumption DEF StreamManifest, DataOK, dataVars
    <2>3. JobsOK' /\ AttemptsInv'
      BY <1>1, <1>7 DEF StreamManifest, SetupType, JobsOK, AttemptsInv,
         localVars
    <2> QED BY <2>1, <2>2, <2>3 DEF TypeInv, TypeOK
  <1>8. ASSUME NEW e \in Executions, StreamFails(e) PROVE TypeInv'
    <2>1. RowOK' /\ LocalOK' /\ BatchInv' /\ FaultsOK'
      BY <1>1, <1>8 DEF StreamFails, RowOK, rowVars, LocalOK, localVars,
         BatchInv, FaultsOK, faultVars
    <2>2. DataOK'
      BY <1>1, <1>8, ManifestsAssumption DEF StreamFails, DataOK, dataVars
    <2>3. JobsOK' /\ AttemptsInv'
      BY <1>1, <1>8, JobValues DEF StreamFails, JobsOK, AttemptsInv,
         localVars
    <2> QED BY <2>1, <2>2, <2>3 DEF TypeInv, TypeOK
  <1>9. ASSUME NEW e \in Executions, SetupFails(e) PROVE TypeInv'
    <2>1. RowOK' /\ DataOK' /\ LocalOK' /\ BatchInv' /\ FaultsOK'
      BY <1>1, <1>9 DEF SetupFails, RowOK, rowVars, DataOK, dataVars,
         LocalOK, localVars, BatchInv, FaultsOK, faultVars
    <2>2. JobsOK' /\ AttemptsInv'
      BY <1>1, <1>9, JobValues DEF SetupFails, JobsOK, AttemptsInv, localVars
    <2> QED BY <2>1, <2>2 DEF TypeInv, TypeOK
  <1>10. ASSUME NEW e \in Executions, CommitSetup(e) PROVE TypeInv'
    <2>1. DataOK' /\ LocalOK' /\ BatchInv' /\ FaultsOK'
      BY <1>1, <1>10 DEF CommitSetup, DataOK, dataVars, LocalOK, localVars,
         BatchInv, FaultsOK, faultVars
    <2>2. RowOK'
      <3>1. progress[e] \in Progress /\ Len(blob[e]) \in Nat
        BY <1>1 DEF RowOK, DataOK
      <3>2. [progress[e] EXCEPT !.planned = Len(blob[e])] \in Progress
        BY <3>1 DEF Progress
      <3> QED BY <1>1, <1>10, <3>2 DEF CommitSetup, RowOK, Active
    <2>3. JobsOK' /\ AttemptsInv'
      <3>1. EnqueueUnique(job[e]) \in JobType
        BY <1>1, JobValues DEF JobsOK
      <3>2. \/ EnqueueUnique(job[e]) = job[e]
            \/ EnqueueUnique(job[e]) = [state |-> "queued", attempts |-> 0] /\ pc[e] = "idle"
        BY <1>1 DEF EnqueueUnique, AttemptsInv
      <3>3. JobsOK'
        BY <1>1, <1>10, <3>1 DEF CommitSetup, JobsOK, SetupType
      <3>4. AttemptsInv'
        BY <1>1, <1>10, <3>2, Maxima DEF CommitSetup, JobsOK, SetupType, AttemptsInv,
           localVars
      <3> QED BY <3>3, <3>4
    <2> QED BY <2>1, <2>2, <2>3 DEF TypeInv, TypeOK
  <1>11. ASSUME NEW e \in Executions, CompleteSetup(e) PROVE TypeInv'
    <2>1. RowOK' /\ DataOK' /\ LocalOK' /\ BatchInv' /\ FaultsOK'
      BY <1>1, <1>11 DEF CompleteSetup, RowOK, rowVars, DataOK, dataVars,
         LocalOK, localVars, BatchInv, FaultsOK, faultVars
    <2>2. JobsOK' /\ AttemptsInv'
      BY <1>1, <1>11 DEF CompleteSetup, SetupType, JobsOK, AttemptsInv,
         localVars
    <2> QED BY <2>1, <2>2 DEF TypeInv, TypeOK
  <1>12. ASSUME NEW e \in Executions, SetupRerun(e) PROVE TypeInv'
    <2>1. RowOK' /\ DataOK' /\ LocalOK' /\ BatchInv'
      BY <1>1, <1>12 DEF SetupRerun, RowOK, rowVars, DataOK, dataVars,
         LocalOK, localVars, BatchInv
    <2>2. JobsOK' /\ AttemptsInv'
      BY <1>1, <1>12, JobValues DEF SetupRerun, JobsOK, AttemptsInv,
         localVars
    <2>3. FaultsOK'
      BY <1>1, <1>12, Maxima DEF SetupRerun, FaultsOK, faultVars
    <2> QED BY <2>1, <2>2, <2>3 DEF TypeInv, TypeOK
  <1>13. ASSUME NEW e \in Executions, DeadlinePasses(e) PROVE TypeInv'
    <2>1. DataOK' /\ JobsOK' /\ AttemptsInv' /\ LocalOK' /\ BatchInv' /\ FaultsOK'
      BY <1>1, <1>13 DEF DeadlinePasses, DataOK, dataVars, JobsOK,
         AttemptsInv, localVars, LocalOK, BatchInv, FaultsOK, faultVars
    <2>2. RowOK'
      BY <1>1, <1>13 DEF DeadlinePasses, RowOK, rowVars
    <2> QED BY <2>1, <2>2 DEF TypeInv, TypeOK
  <1>14. ASSUME NEW e \in Executions, StartRun(e) PROVE TypeInv'
    <2>1. RowOK' /\ DataOK' /\ FaultsOK'
      BY <1>1, <1>14 DEF StartRun, RowOK, rowVars, DataOK, dataVars,
         FaultsOK, faultVars
    <2>2. JobsOK' /\ AttemptsInv'
      BY <1>1, <1>14, JobValues DEF StartRun, JobsOK, AttemptsInv, localVars
    <2>3. LocalOK'
      BY <1>1, <1>14 DEF StartRun, RowOK, Labels, LocalOK, localVars
    <2>4. BatchInv'
      BY <1>1, <1>14 DEF StartRun, AttemptsInv, LocalOK, BatchInv, localVars
    <2> QED BY <2>1, <2>2, <2>3, <2>4 DEF TypeInv, TypeOK
  <1>15. ASSUME NEW e \in Executions, FinishLate(e) PROVE TypeInv'
    <2>1. DataOK' /\ JobsOK' /\ FaultsOK'
      BY <1>1, <1>15 DEF FinishLate, SetStatus, Goto, DataOK, dataVars,
         JobsOK, FaultsOK, faultVars
    <2>2. RowOK'
      BY <1>1, <1>15 DEF FinishLate, SetStatus, Active, Terminal, RowOK,
         rowVars
    <2>3. AttemptsInv' /\ LocalOK' /\ BatchInv'
      BY <1>1, <1>15 DEF FinishLate, Goto, Labels, AttemptsInv, localVars,
         LocalOK, BatchInv
    <2> QED BY <2>1, <2>2, <2>3 DEF TypeInv, TypeOK
  <1>16. ASSUME NEW e \in Executions, MarkFailed(e) PROVE TypeInv'
    <2>1. DataOK' /\ FaultsOK'
      BY <1>1, <1>16 DEF MarkFailed, EndRun, DataOK, dataVars, FaultsOK,
         faultVars
    <2>2. RowOK'
      BY <1>1, <1>16 DEF MarkFailed, SetStatus, Active, Terminal, RowOK,
         rowVars
    <2>3. JobsOK'
      BY <1>1, <1>16 DEF MarkFailed, JobType, JobsOK
    <2>4. AttemptsInv'
      BY <1>1, <1>16 DEF MarkFailed, JobType, EndRun, JobsOK, AttemptsInv,
         localVars
    <2>5. LocalOK' /\ BatchInv'
      BY <1>1, <1>16, EmptyValues DEF MarkFailed, EndRun, Labels, LocalOK,
         localVars, BatchInv
    <2> QED BY <2>1, <2>2, <2>3, <2>4, <2>5 DEF TypeInv, TypeOK
  <1>17. ASSUME NEW e \in Executions, LoadInvariants(e) PROVE TypeInv'
    <2>1. RowOK' /\ DataOK' /\ JobsOK' /\ FaultsOK'
      BY <1>1, <1>17 DEF LoadInvariants, Goto, RowOK, rowVars, DataOK,
         dataVars, JobsOK, FaultsOK, faultVars
    <2>2. AttemptsInv' /\ LocalOK' /\ BatchInv'
      BY <1>1, <1>17 DEF LoadInvariants, Goto, Labels, AttemptsInv,
         localVars, LocalOK, BatchInv
    <2> QED BY <2>1, <2>2 DEF TypeInv, TypeOK
  <1>18. ASSUME NEW e \in Executions, SliceTimeout(e) PROVE TypeInv'
    <2>1. RowOK' /\ DataOK' /\ JobsOK' /\ AttemptsInv' /\ BatchInv' /\ FaultsOK'
      BY <1>1, <1>18 DEF SliceTimeout, RowOK, rowVars, DataOK, dataVars,
         JobsOK, AttemptsInv, localVars, BatchInv, FaultsOK, faultVars
    <2>2. LocalOK'
      BY <1>1, <1>18 DEF SliceTimeout, LocalOK, localVars
    <2> QED BY <2>1, <2>2 DEF TypeInv, TypeOK
  <1>19. ASSUME NEW e \in Executions, Snooze(e) PROVE TypeInv'
    <2>1. RowOK' /\ DataOK' /\ FaultsOK'
      BY <1>1, <1>19 DEF Snooze, RowOK, rowVars, DataOK, dataVars, FaultsOK,
         faultVars
    <2>2. JobsOK' /\ AttemptsInv'
      BY <1>1, <1>19, JobValues DEF Snooze, EndRun, Labels, JobsOK,
         AttemptsInv, localVars
    <2>3. LocalOK' /\ BatchInv'
      BY <1>1, <1>19, EmptyValues DEF Snooze, EndRun, Labels, LocalOK,
         localVars, BatchInv
    <2> QED BY <2>1, <2>2, <2>3 DEF TypeInv, TypeOK
  <1>20. ASSUME NEW e \in Executions, ExitNotProcessing(e) PROVE TypeInv'
    <2>1. RowOK' /\ DataOK' /\ JobsOK' /\ FaultsOK'
      BY <1>1, <1>20 DEF ExitNotProcessing, Goto, RowOK, rowVars, DataOK,
         dataVars, JobsOK, FaultsOK, faultVars
    <2>2. AttemptsInv' /\ LocalOK' /\ BatchInv'
      BY <1>1, <1>20 DEF ExitNotProcessing, Goto, Labels, AttemptsInv,
         localVars, LocalOK, BatchInv
    <2> QED BY <2>1, <2>2 DEF TypeInv, TypeOK
  <1>21. ASSUME NEW e \in Executions, LoopDone(e) PROVE TypeInv'
    <2>1. RowOK' /\ DataOK' /\ JobsOK' /\ FaultsOK'
      BY <1>1, <1>21 DEF LoopDone, Goto, RowOK, rowVars, DataOK, dataVars,
         JobsOK, FaultsOK, faultVars
    <2>2. AttemptsInv' /\ LocalOK' /\ BatchInv'
      BY <1>1, <1>21 DEF LoopDone, Goto, ContinueLoop, Labels, AttemptsInv,
         localVars, LocalOK, BatchInv
    <2> QED BY <2>1, <2>2 DEF TypeInv, TypeOK
  <1>22. ASSUME NEW e \in Executions, ReadBatch(e) PROVE TypeInv'
    <2>1. RowOK' /\ DataOK' /\ JobsOK' /\ FaultsOK'
      BY <1>1, <1>22 DEF ReadBatch, RowOK, rowVars, DataOK, dataVars, JobsOK,
         FaultsOK, faultVars
    <2>2. AttemptsInv'
      BY <1>1, <1>22 DEF ReadBatch, ContinueLoop, AttemptsInv, localVars
    <2>3. LocalOK'
      <3>1. batch[e] \in BatchType /\ ReadManifestBatch(e) \in Seq(Objects)
        BY <1>1, ReadType DEF LocalOK
      <3>2. [batch[e] EXCEPT !.ids = ReadManifestBatch(e)] \in BatchType
        BY <3>1 DEF BatchType
      <3>3. ReadFrom(e) + Len(ReadManifestBatch(e)) \in Nat
        BY <1>1, ReadType
      <3> QED BY <1>1, <1>22, <3>2, <3>3 DEF ReadBatch, LocalOK, Labels
    <2>4. BatchInv'
      BY <1>1, <1>22, ReadType DEF ReadBatch, BatchType, ContinueLoop,
         BatchInv, localVars
    <2> QED BY <2>1, <2>2, <2>3, <2>4 DEF TypeInv, TypeOK
  <1>23. ASSUME NEW e \in Executions, FilterAlreadyScored(e) PROVE TypeInv'
    <2>1. RowOK' /\ DataOK' /\ JobsOK' /\ FaultsOK'
      BY <1>1, <1>23 DEF FilterAlreadyScored, RowOK, rowVars, DataOK,
         dataVars, JobsOK, FaultsOK, faultVars
    <2>2. AttemptsInv'
      BY <1>1, <1>23 DEF FilterAlreadyScored, AttemptsInv, localVars
    <2>3. LocalOK'
      <3>1. batch[e] \in BatchType
        BY <1>1 DEF LocalOK
      <3>2. Len(batch[e].ids) \in Nat
        BY <3>1 DEF BatchType
      <3>3. ToEvaluate(e) \in SUBSET Nat
        BY <3>2 DEF ToEvaluate
      <3>4. [batch[e] EXCEPT !.toEvaluate = ToEvaluate(e)] \in BatchType
        BY <3>1, <3>3 DEF BatchType
      <3> QED BY <1>1, <1>23, <3>4 DEF FilterAlreadyScored, LocalOK, Labels
    <2>4. BatchInv'
      <3>1. ToEvaluate(e) \subseteq 1 .. Len(batch[e].ids)
        BY DEF ToEvaluate
      <3> QED BY <1>1, <1>23, <3>1 DEF FilterAlreadyScored, BatchInv, LocalOK, BatchType,
                 Labels
    <2> QED BY <2>1, <2>2, <2>3, <2>4 DEF TypeInv, TypeOK
  <1>24. ASSUME NEW e \in Executions, EvaluateBatch(e) PROVE TypeInv'
    <2>1. RowOK' /\ DataOK' /\ JobsOK' /\ FaultsOK'
      BY <1>1, <1>24 DEF EvaluateBatch, RowOK, rowVars, DataOK, dataVars,
         JobsOK, FaultsOK, faultVars
    <2>2. AttemptsInv'
      BY <1>1, <1>24 DEF EvaluateBatch, AttemptsInv, localVars
    <2>3. LocalOK'
      <3>1. PICK v \in [batch[e].toEvaluate -> Verdicts] :
              batch' = [batch EXCEPT ![e].verdict =
                          [i \in 1 .. Len(batch[e].ids) |->
                             IF i \in batch[e].toEvaluate THEN v[i] ELSE "prefiltered"]]
        BY <1>24 DEF EvaluateBatch
      <3> DEFINE w == [i \in 1 .. Len(batch[e].ids) |->
                         IF i \in batch[e].toEvaluate THEN v[i] ELSE "prefiltered"]
      <3>2. batch[e] \in BatchType
        BY <1>1 DEF LocalOK
      <3>3. Len(batch[e].ids) \in Nat
        BY <3>2 DEF BatchType
      <3>4. w \in [1 .. Len(batch[e].ids) -> Verdicts \cup {"prefiltered"}]
        OBVIOUS
      <3>5. w \in Seq(Verdicts \cup {"prefiltered"})
        BY <3>3, <3>4
      <3>6. [batch[e] EXCEPT !.verdict = w] \in BatchType
        BY <3>2, <3>5 DEF BatchType
      <3> QED BY <1>1, <1>24, <3>1, <3>6 DEF EvaluateBatch, LocalOK, Labels
    <2>4. BatchInv'
      <3>1. PICK v \in [batch[e].toEvaluate -> Verdicts] :
              batch' = [batch EXCEPT ![e].verdict =
                          [i \in 1 .. Len(batch[e].ids) |->
                             IF i \in batch[e].toEvaluate THEN v[i] ELSE "prefiltered"]]
        BY <1>24 DEF EvaluateBatch
      <3>2. batch[e] \in BatchType
        BY <1>1 DEF LocalOK
      <3>3. Len(batch[e].ids) \in Nat
        BY <3>2 DEF BatchType
      <3>4. batch'[e].ids = batch[e].ids /\ Len(batch'[e].verdict) = Len(batch[e].ids)
        BY <1>1, <3>1, <3>3 DEF LocalOK, BatchType
      <3>5. batch'[e].toEvaluate = batch[e].toEvaluate
        BY <1>1, <3>1 DEF LocalOK, BatchType
      <3>6. \A f \in Executions \ {e} : batch'[f] = batch[f] /\ pc'[f] = pc[f]
        BY <1>1, <1>24, <3>1 DEF EvaluateBatch, LocalOK
      <3> QED BY <1>1, <1>24, <3>4, <3>5, <3>6 DEF EvaluateBatch, BatchInv
    <2> QED BY <2>1, <2>2, <2>3, <2>4 DEF TypeInv, TypeOK
  <1>25. ASSUME NEW e \in Executions, BatchFails(e) PROVE TypeInv'
    <2>1. RowOK' /\ DataOK' /\ JobsOK' /\ FaultsOK'
      BY <1>1, <1>25 DEF BatchFails, RowOK, rowVars, DataOK, dataVars,
         JobsOK, FaultsOK, faultVars
    <2>2. AttemptsInv'
      BY <1>1, <1>25 DEF BatchFails, RetryBatch, ContinueLoop, AttemptsInv,
         localVars
    <2>3. LocalOK'
      BY <1>1, <1>25, EmptyValues DEF BatchFails, RetryBatch,
         ResetManifestReader, Labels, LocalOK, localVars
    <2>4. BatchInv'
      BY <1>1, <1>25, EmptyValues DEF BatchFails, RetryBatch, LocalOK,
         BatchInv, localVars
    <2> QED BY <2>1, <2>2, <2>3, <2>4 DEF TypeInv, TypeOK
  <1>26. ASSUME NEW e \in Executions, CommitBatch(e) PROVE TypeInv'
    <2>1. JobsOK' /\ FaultsOK'
      BY <1>1, <1>26 DEF CommitBatch, ApplyBatch, JobsOK, FaultsOK, faultVars
    <2>2. RowOK'
      BY <1>1, <1>26, BatchIsTyped DEF CommitBatch, ApplyBatch, Progress,
         RowOK, rowVars
    <2>3. DataOK'
      BY <1>1, <1>26, BatchIsTyped DEF CommitBatch, ApplyBatch, DataOK,
         dataVars
    <2>4. AttemptsInv'
      BY <1>1, <1>26 DEF CommitBatch, AttemptsInv, localVars
    <2>5. LocalOK'
      <3>1. cursor[e].planned \in Nat
        BY <1>1 DEF LocalOK, Progress
      <3>2. Advanced(e, cursor[e].planned) \in Progress
        BY <3>1, <1>26, BatchIsTyped DEF CommitBatch
      <3> QED BY <1>1, <1>26, <3>2, EmptyValues DEF CommitBatch, LocalOK, Labels
    <2>6. BatchInv'
      BY <1>1, <1>26, EmptyValues DEF CommitBatch, LocalOK, BatchInv,
         localVars
    <2> QED BY <2>1, <2>2, <2>3, <2>4, <2>5, <2>6 DEF TypeInv, TypeOK
  <1>27. ASSUME NEW e \in Executions, CommitAmbiguous(e) PROVE TypeInv'
    <2>1. JobsOK'
      BY <1>1, <1>27 DEF CommitAmbiguous, ApplyBatch, RetryBatch, JobsOK
    <2>2. RowOK'
      BY <1>1, <1>27, BatchIsTyped DEF CommitAmbiguous, ApplyBatch, Progress,
         RowOK, rowVars
    <2>3. DataOK'
      BY <1>1, <1>27, BatchIsTyped DEF CommitAmbiguous, ApplyBatch, DataOK,
         dataVars
    <2>4. AttemptsInv'
      BY <1>1, <1>27 DEF CommitAmbiguous, RetryBatch, AttemptsInv, localVars
    <2>5. LocalOK'
      BY <1>1, <1>27, EmptyValues DEF CommitAmbiguous, RetryBatch,
         ResetManifestReader, Labels, LocalOK, localVars
    <2>6. BatchInv'
      BY <1>1, <1>27, EmptyValues DEF CommitAmbiguous, RetryBatch, LocalOK,
         BatchInv, localVars
    <2>7. FaultsOK'
      BY <1>1, <1>27, Maxima DEF CommitAmbiguous, FaultsOK, faultVars
    <2> QED BY <2>1, <2>2, <2>3, <2>4, <2>5, <2>6, <2>7 DEF TypeInv, TypeOK
  <1>28. ASSUME NEW e \in Executions, FinishSuccess(e) PROVE TypeInv'
    <2>1. DataOK' /\ JobsOK' /\ FaultsOK'
      BY <1>1, <1>28 DEF FinishSuccess, SetStatus, Goto, DataOK, dataVars,
         JobsOK, FaultsOK, faultVars
    <2>2. RowOK'
      BY <1>1, <1>28 DEF FinishSuccess, SetStatus, Active, Terminal, RowOK,
         rowVars
    <2>3. AttemptsInv' /\ LocalOK' /\ BatchInv'
      BY <1>1, <1>28 DEF FinishSuccess, Goto, Labels, AttemptsInv, localVars,
         LocalOK, BatchInv
    <2> QED BY <2>1, <2>2, <2>3 DEF TypeInv, TypeOK
  <1>29. ASSUME NEW e \in Executions, CompleteRun(e) PROVE TypeInv'
    <2>1. RowOK' /\ DataOK' /\ FaultsOK'
      BY <1>1, <1>29 DEF CompleteRun, RowOK, rowVars, DataOK, dataVars,
         FaultsOK, faultVars
    <2>2. JobsOK'
      BY <1>1, <1>29 DEF CompleteRun, JobType, JobsOK
    <2>3. AttemptsInv'
      BY <1>1, <1>29 DEF CompleteRun, JobType, EndRun, JobsOK, AttemptsInv,
         localVars
    <2>4. LocalOK' /\ BatchInv'
      BY <1>1, <1>29, EmptyValues DEF CompleteRun, EndRun, Labels, LocalOK,
         localVars, BatchInv
    <2> QED BY <2>1, <2>2, <2>3, <2>4 DEF TypeInv, TypeOK
  <1>30. ASSUME NEW e \in Executions, RunFails(e) PROVE TypeInv'
    <2>1. RowOK' /\ DataOK' /\ FaultsOK'
      BY <1>1, <1>30 DEF RunFails, RowOK, rowVars, DataOK, dataVars,
         FaultsOK, faultVars
    <2>2. JobsOK' /\ AttemptsInv'
      BY <1>1, <1>30, JobValues DEF RunFails, EndRun, Labels, JobsOK,
         AttemptsInv, localVars
    <2>3. LocalOK' /\ BatchInv'
      BY <1>1, <1>30, EmptyValues DEF RunFails, EndRun, Labels, LocalOK,
         localVars, BatchInv
    <2> QED BY <2>1, <2>2, <2>3 DEF TypeInv, TypeOK
  <1>31. CASE UNCHANGED vars
    BY <1>1, <1>31 DEF vars, TypeInv, TypeOK, RowOK, DataOK, JobsOK, LocalOK,
       FaultsOK, AttemptsInv, BatchInv, rowVars, dataVars, localVars, faultVars
  <1> QED
    BY <1>2, <1>3, <1>4, <1>5, <1>6, <1>7, <1>8, <1>9, <1>10, <1>11, <1>12,
       <1>13, <1>14, <1>15, <1>16, <1>17, <1>18, <1>19, <1>20, <1>21, <1>22,
       <1>23, <1>24, <1>25, <1>26, <1>27, <1>28, <1>29, <1>30, <1>31
       DEF Next, Create, SetupJob, CoordinatorJob, Clock

LEMMA TypeInvInit == Init => TypeInv
  <1> SUFFICES ASSUME Init PROVE TypeInv
    OBVIOUS
  <1>1. RowOK
    BY EmptyValues DEF Init, RowOK
  <1>2. DataOK
    BY DEF Init, DataOK
  <1>3. JobsOK /\ AttemptsInv
    BY Maxima DEF Init, JobsOK, AttemptsInv, SetupType, JobType
  <1>4. LocalOK
    BY EmptyValues DEF Init, LocalOK, Labels
  <1>6. BatchInv
    BY EmptyValues DEF Init, BatchInv
  <1>5. FaultsOK
    BY Maxima DEF Init, FaultsOK
  <1> QED BY <1>1, <1>2, <1>3, <1>4, <1>5, <1>6 DEF TypeInv, TypeOK

\* The specification keeps its types: rows, jobs and coordinator variables are
\* well formed, and no job is run more often than its attempts allow.
THEOREM TypeCorrect == Spec => []TypeOK
  <1>1. TypeInv => TypeOK
    BY DEF TypeInv
  <1> QED BY <1>1, TypeInvInit, TypeInvStep, PTL DEF Spec

-----------------------------------------------------------------------------
(* No object is scored twice.                                              *)

\* An execution that was not created has no jobs and no outcomes.  Its dedup
\* setting is chosen on creation, so this is what keeps the setting of every
\* outcome as it was when the outcome was committed.
LifeInv == \A e \in Executions : status[e] = "none" =>
  setup[e].state = "none" /\ job[e].state = "none" /\ log[e] = <<>>

\* Manifests, and therefore batches, hold every object once.
DistinctInv == \A e \in Executions :
  Injective(blob[e]) /\ Injective(batch[e].ids)

\* ClaimsMatchLog, object by object.
ScoredInv == \A o : o \in scored <=>
  \E e \in Executions : \E i \in EvaluatedRows(e) : log[e][i].object = o

\* Every step leaves outcomes, claims and dedup settings alone, or commits a
\* batch, or creates an execution.
LEMMA ThreeKindsOfStep ==
  ASSUME [Next]_vars
  PROVE  \/ UNCHANGED <<log, scored, dedup>>
         \/ \E e \in Executions : pc[e] = "commit" /\ ApplyBatch(e)
         \/ \E c \in Creators, e \in Executions : CreateScheduledExecution(c, e)
  <1>1. ASSUME NEW e \in Executions, SetupJob(e) \/ Clock(e)
        PROVE  UNCHANGED <<log, scored, dedup>>
    BY <1>1 DEF SetupJob, Clock, InitiationTimeout, DeadlinePasses, SliceTimeout,
       StartSetup, StartSetupTooLate, StreamManifest, StreamFails, SetupFails,
       CommitSetup, CompleteSetup, SetupRerun, rowVars, dataVars
  <1>2. ASSUME NEW e \in Executions, CoordinatorJob(e)
        PROVE  \/ UNCHANGED <<log, scored, dedup>>
               \/ pc[e] = "commit" /\ ApplyBatch(e)
    BY <1>2 DEF CoordinatorJob, StartRun, FinishLate, MarkFailed, LoadInvariants,
       Snooze, ExitNotProcessing, LoopDone, ReadBatch, FilterAlreadyScored,
       EvaluateBatch, BatchFails, CommitBatch, CommitAmbiguous, FinishSuccess,
       CompleteRun, RunFails, SetStatus, rowVars, dataVars
  <1>3. ASSUME Create
        PROVE  \/ UNCHANGED <<log, scored, dedup>>
               \/ \E c \in Creators, e \in Executions : CreateScheduledExecution(c, e)
    BY <1>3 DEF Create, CheckNoneActive, GiveUpCreating, rowVars, dataVars
  <1>4. CASE UNCHANGED vars
    BY <1>4 DEF vars, rowVars, dataVars
  <1> QED BY <1>1, <1>2, <1>3, <1>4 DEF Next

\* What committing a batch does to the outcomes: the old ones stay, and one per
\* row of the batch is appended.
LEMMA AppendedLog ==
  ASSUME TypeInv, NEW e \in Executions, pc[e] = "commit", ApplyBatch(e)
  PROVE  /\ \A f \in Executions \ {e} : log'[f] = log[f]
         /\ Len(log[e]) \in Nat /\ Len(batch[e].ids) \in Nat
         /\ DOMAIN log[e] = 1 .. Len(log[e])
         /\ DOMAIN log'[e] = 1 .. Len(log[e]) + Len(batch[e].ids)
         /\ \A i \in DOMAIN log[e] : log'[e][i] = log[e][i]
         /\ \A k \in 1 .. Len(batch[e].ids) :
              log'[e][Len(log[e]) + k] =
                [object |-> batch[e].ids[k], outcome |-> Outcome(e, k)]
  <1>1. log \in [Executions -> Seq(Entry)] /\ log[e] \in Seq(Entry)
    BY DEF TypeInv, TypeOK, DataOK
  <1>2. batch[e].ids \in Seq(Objects) /\ Len(batch[e].ids) \in Nat
    BY DEF TypeInv, TypeOK, LocalOK, BatchType
  <1>3. BatchLog(e) \in Seq(Entry)
    BY BatchIsTyped
  <1>4. /\ Len(BatchLog(e)) = Len(batch[e].ids)
        /\ \A k \in 1 .. Len(batch[e].ids) :
             BatchLog(e)[k] = [object |-> batch[e].ids[k], outcome |-> Outcome(e, k)]
    BY <1>2, <1>3 DEF BatchLog
  <1>5. log' = [log EXCEPT ![e] = log[e] \o BatchLog(e)]
    BY DEF ApplyBatch
  <1>6. log'[e] = log[e] \o BatchLog(e)
    BY <1>1, <1>5
  <1>7. \A f \in Executions \ {e} : log'[f] = log[f]
    BY <1>1, <1>5
  <1>8. Len(log[e]) \in Nat /\ DOMAIN log[e] = 1 .. Len(log[e])
    BY <1>1
  <1>9. DOMAIN log'[e] = 1 .. Len(log[e]) + Len(batch[e].ids)
    <2>1. Len(log[e] \o BatchLog(e)) = Len(log[e]) + Len(BatchLog(e))
      BY <1>1, <1>3
    <2>2. log[e] \o BatchLog(e) \in Seq(Entry)
      BY <1>1, <1>3
    <2>3. DOMAIN (log[e] \o BatchLog(e)) = 1 .. Len(log[e] \o BatchLog(e))
      BY <2>2
    <2> QED BY <1>4, <1>6, <2>1, <2>3
  <1>10. \A i \in DOMAIN log[e] : log'[e][i] = log[e][i]
    BY <1>1, <1>3, <1>6, <1>8
  <1>11. \A k \in 1 .. Len(batch[e].ids) : log'[e][Len(log[e]) + k] = BatchLog(e)[k]
    BY <1>1, <1>2, <1>3, <1>4, <1>6, <1>8
  <1> QED BY <1>2, <1>4, <1>7, <1>8, <1>9, <1>10, <1>11

\* An interval as inequalities.
LEMMA IntervalOfSum ==
  ASSUME NEW m \in Nat, NEW n \in Nat
  PROVE  \A i : i \in 1 .. m + n <=> i \in Nat /\ 1 <= i /\ i <= m + n
  OBVIOUS

\* The rows evaluated after a commit are those before and those of the batch.
LEMMA EvaluatedAfterCommit ==
  ASSUME TypeInv, NEW e \in Executions, pc[e] = "commit", ApplyBatch(e)
  PROVE  /\ \A f \in Executions \ {e} : EvaluatedRows(f)' = EvaluatedRows(f)
         /\ \A i \in EvaluatedRows(e) :
              i \in EvaluatedRows(e)' /\ log'[e][i] = log[e][i]
         /\ \A i \in EvaluatedRows(e)' :
              \/ i \in EvaluatedRows(e) /\ log'[e][i] = log[e][i]
              \/ \E k \in 1 .. Len(batch[e].ids) :
                   /\ i = Len(log[e]) + k /\ i \notin DOMAIN log[e]
                   /\ Outcome(e, k) \in Evaluated
                   /\ log'[e][i].object = batch[e].ids[k]
         /\ \A k \in 1 .. Len(batch[e].ids) : Outcome(e, k) \in Evaluated =>
              /\ Len(log[e]) + k \in EvaluatedRows(e)'
              /\ log'[e][Len(log[e]) + k].object = batch[e].ids[k]
  <1> DEFINE m == Len(log[e])
             n == Len(batch[e].ids)
  <1>0. /\ m \in Nat /\ n \in Nat
        /\ \A i : i \in DOMAIN log[e] <=> i \in Nat /\ 1 <= i /\ i <= m
        /\ \A i : i \in DOMAIN log'[e] <=> i \in Nat /\ 1 <= i /\ i <= m + n
        /\ \A i \in DOMAIN log[e] : log'[e][i] = log[e][i]
        /\ \A k \in 1 .. n :
             log'[e][m + k] = [object |-> batch[e].ids[k], outcome |-> Outcome(e, k)]
    <2>1. DOMAIN log[e] = 1 .. m /\ DOMAIN log'[e] = 1 .. m + n
      BY AppendedLog
    <2>2. m \in Nat /\ n \in Nat
      BY AppendedLog
    <2>3. \A i : i \in 1 .. m <=> i \in Nat /\ 1 <= i /\ i <= m
      BY <2>2
    <2>4. \A i : i \in 1 .. m + n <=> i \in Nat /\ 1 <= i /\ i <= m + n
      BY <2>2, IntervalOfSum
    <2> QED BY <2>1, <2>2, <2>3, <2>4, AppendedLog
  <1>1. \A f \in Executions \ {e} : EvaluatedRows(f)' = EvaluatedRows(f)
    BY AppendedLog DEF EvaluatedRows
  <1> HIDE DEF m, n
  <1>2. DOMAIN log[e] \subseteq DOMAIN log'[e]
    BY <1>0
  <1>3. ASSUME NEW i \in EvaluatedRows(e)
        PROVE  i \in EvaluatedRows(e)' /\ log'[e][i] = log[e][i]
    BY <1>0, <1>2 DEF EvaluatedRows
  <1>4. ASSUME NEW k \in 1 .. n, Outcome(e, k) \in Evaluated
        PROVE  /\ m + k \in EvaluatedRows(e)'
               /\ log'[e][m + k].object = batch[e].ids[k]
    <2>1. m + k \in DOMAIN log'[e]
      BY <1>0
    <2>2. log'[e][m + k] = [object |-> batch[e].ids[k], outcome |-> Outcome(e, k)]
      BY <1>0
    <2> QED BY <1>4, <2>1, <2>2 DEF EvaluatedRows
  <1>5. ASSUME NEW i \in EvaluatedRows(e)', i \notin EvaluatedRows(e)
        PROVE  \E k \in 1 .. n :
                 /\ i = m + k /\ i \notin DOMAIN log[e]
                 /\ Outcome(e, k) \in Evaluated
                 /\ log'[e][i].object = batch[e].ids[k]
    <2>1. i \in DOMAIN log'[e] /\ log'[e][i].outcome \in Evaluated
      BY DEF EvaluatedRows
    <2>2. i \notin DOMAIN log[e]
      BY <1>0, <1>5, <2>1 DEF EvaluatedRows
    <2>3. i \in Nat /\ i > m /\ i - m \in 1 .. n
      BY <1>0, <2>1, <2>2
    <2> DEFINE k == i - m
    <2>4. k \in 1 .. n /\ i = m + k
      BY <1>0, <2>3
    <2> HIDE DEF k
    <2>5. log'[e][i] = [object |-> batch[e].ids[k], outcome |-> Outcome(e, k)]
      BY <1>0, <2>4
    <2> QED BY <2>1, <2>2, <2>4, <2>5
  <1> QED BY <1>1, <1>3, <1>4, <1>5 DEF m, n

\* The result loop and the claim: an evaluated row is to be claimed, was claimed
\* if the execution deduplicates, and every claim is that of an evaluated row.
LEMMA OutcomeAndClaim ==
  ASSUME TypeInv, NEW e \in Executions, pc[e] = "commit"
  PROVE  /\ \A k \in 1 .. Len(batch[e].ids) : Outcome(e, k) \in Evaluated =>
              /\ batch[e].ids[k] \in ToClaim(e)
              /\ dedup[e] => batch[e].ids[k] \in Claimed(e)
         /\ \A o \in Claimed(e) : \E k \in 1 .. Len(batch[e].ids) :
              batch[e].ids[k] = o /\ Outcome(e, k) \in Evaluated
  <1> DEFINE n == Len(batch[e].ids)
  <1>1. ASSUME NEW k \in 1 .. n
        PROVE  batch[e].verdict[k] \in {"prefiltered", "missing", "untriggered", "triggered"}
    <2>1. /\ batch[e].verdict \in Seq(Verdicts \cup {"prefiltered"})
          /\ Len(batch[e].verdict) = n
      BY DEF TypeInv, TypeOK, LocalOK, BatchInv, BatchType
    <2> QED BY <2>1 DEF Verdicts
  <1>2. ASSUME NEW k \in 1 .. n, Outcome(e, k) \in Evaluated
        PROVE  /\ batch[e].verdict[k] \in {"untriggered", "triggered"}
               /\ ~LostClaim(e, k)
    BY <1>1, <1>2 DEF Outcome, Evaluated
  <1>3. ASSUME NEW k \in 1 .. n, Outcome(e, k) \in Evaluated
        PROVE  /\ batch[e].ids[k] \in ToClaim(e)
               /\ dedup[e] => batch[e].ids[k] \in Claimed(e)
    BY <1>2, <1>3 DEF ToClaim, LostClaim
  <1>4. ASSUME NEW o \in Claimed(e)
        PROVE  \E k \in 1 .. n : batch[e].ids[k] = o /\ Outcome(e, k) \in Evaluated
    <2>1. PICK k \in 1 .. n : /\ batch[e].ids[k] = o
                              /\ batch[e].verdict[k] \in {"untriggered", "triggered"}
      BY DEF Claimed, ToClaim
    <2>2. ~LostClaim(e, k)
      BY <2>1 DEF LostClaim
    <2>3. Outcome(e, k) \in Evaluated
      BY <2>1, <2>2 DEF Outcome, Evaluated
    <2> QED BY <2>1, <2>3
  <1> QED BY <1>3, <1>4

\* A step of a job of execution e concerns an execution that exists, and leaves
\* every other one alone.
LEMMA LifeOfJobs ==
  ASSUME TypeInv, LifeInv, NEW e \in Executions, SetupJob(e) \/ CoordinatorJob(e)
  PROVE  /\ status[e] /= "none" /\ status'[e] /= "none"
         /\ \A f \in Executions \ {e} :
              /\ status'[f] = status[f] /\ setup'[f] = setup[f]
              /\ job'[f] = job[f] /\ log'[f] = log[f]
  <1> DEFINE Others == \A f \in Executions \ {e} :
               /\ status'[f] = status[f] /\ setup'[f] = setup[f]
               /\ job'[f] = job[f] /\ log'[f] = log[f]
  <1>1. /\ setup[e].state /= "none" => status[e] /= "none"
        /\ job[e].state /= "none" => status[e] /= "none"
        /\ pc[e] /= "idle" => status[e] /= "none"
    BY DEF LifeInv, TypeInv, AttemptsInv
  <1>2. /\ status \in [Executions -> Active \cup Terminal \cup {"none"}]
        /\ setup \in [Executions -> SetupType] /\ job \in [Executions -> JobType]
        /\ log \in [Executions -> Seq(Entry)]
    BY DEF TypeInv, TypeOK, RowOK, JobsOK, DataOK
  <1>3. ASSUME StartSetup(e) PROVE status[e] /= "none" /\ status'[e] /= "none" /\ Others
    BY <1>1, <1>2, <1>3 DEF StartSetup, rowVars, dataVars
  <1>4. ASSUME StartSetupTooLate(e) PROVE status[e] /= "none" /\ status'[e] /= "none" /\ Others
    BY <1>1, <1>2, <1>4 DEF StartSetupTooLate, rowVars, dataVars
  <1>5. ASSUME StreamManifest(e) PROVE status[e] /= "none" /\ status'[e] /= "none" /\ Others
    BY <1>1, <1>2, <1>5 DEF StreamManifest, rowVars, dataVars
  <1>6. ASSUME StreamFails(e) PROVE status[e] /= "none" /\ status'[e] /= "none" /\ Others
    BY <1>1, <1>2, <1>6 DEF StreamFails, rowVars, dataVars
  <1>7. ASSUME SetupFails(e) PROVE status[e] /= "none" /\ status'[e] /= "none" /\ Others
    BY <1>1, <1>2, <1>7 DEF SetupFails, rowVars, dataVars
  <1>8. ASSUME CommitSetup(e) PROVE status[e] /= "none" /\ status'[e] /= "none" /\ Others
    BY <1>1, <1>2, <1>8 DEF CommitSetup, rowVars, dataVars
  <1>9. ASSUME CompleteSetup(e) PROVE status[e] /= "none" /\ status'[e] /= "none" /\ Others
    BY <1>1, <1>2, <1>9 DEF CompleteSetup, rowVars, dataVars
  <1>10. ASSUME SetupRerun(e) PROVE status[e] /= "none" /\ status'[e] /= "none" /\ Others
    BY <1>1, <1>2, <1>10 DEF SetupRerun, rowVars, dataVars
  <1>11. ASSUME StartRun(e) PROVE status[e] /= "none" /\ status'[e] /= "none" /\ Others
    BY <1>1, <1>2, <1>11 DEF StartRun, rowVars, dataVars
  <1>12. ASSUME FinishLate(e) PROVE status[e] /= "none" /\ status'[e] /= "none" /\ Others
    BY <1>1, <1>2, <1>12 DEF FinishLate, SetStatus, Goto, rowVars, dataVars
  <1>13. ASSUME MarkFailed(e) PROVE status[e] /= "none" /\ status'[e] /= "none" /\ Others
    BY <1>1, <1>2, <1>13 DEF MarkFailed, SetStatus, rowVars, dataVars
  <1>14. ASSUME LoadInvariants(e) PROVE status[e] /= "none" /\ status'[e] /= "none" /\ Others
    BY <1>1, <1>2, <1>14 DEF LoadInvariants, rowVars, dataVars
  <1>15. ASSUME Snooze(e) PROVE status[e] /= "none" /\ status'[e] /= "none" /\ Others
    BY <1>1, <1>2, <1>15 DEF Snooze, rowVars, dataVars
  <1>16. ASSUME ExitNotProcessing(e) PROVE status[e] /= "none" /\ status'[e] /= "none" /\ Others
    BY <1>1, <1>2, <1>16 DEF ExitNotProcessing, rowVars, dataVars
  <1>17. ASSUME LoopDone(e) PROVE status[e] /= "none" /\ status'[e] /= "none" /\ Others
    BY <1>1, <1>2, <1>17 DEF LoopDone, ContinueLoop, rowVars, dataVars
  <1>18. ASSUME ReadBatch(e) PROVE status[e] /= "none" /\ status'[e] /= "none" /\ Others
    BY <1>1, <1>2, <1>18 DEF ReadBatch, ContinueLoop, rowVars, dataVars
  <1>19. ASSUME FilterAlreadyScored(e) PROVE status[e] /= "none" /\ status'[e] /= "none" /\ Others
    BY <1>1, <1>2, <1>19 DEF FilterAlreadyScored, rowVars, dataVars
  <1>20. ASSUME EvaluateBatch(e) PROVE status[e] /= "none" /\ status'[e] /= "none" /\ Others
    BY <1>1, <1>2, <1>20 DEF EvaluateBatch, rowVars, dataVars
  <1>21. ASSUME BatchFails(e) PROVE status[e] /= "none" /\ status'[e] /= "none" /\ Others
    BY <1>1, <1>2, <1>21 DEF BatchFails, ContinueLoop, rowVars, dataVars
  <1>22. ASSUME CommitBatch(e) PROVE status[e] /= "none" /\ status'[e] /= "none" /\ Others
    BY <1>1, <1>2, <1>22 DEF CommitBatch, ApplyBatch, rowVars, dataVars
  <1>23. ASSUME CommitAmbiguous(e) PROVE status[e] /= "none" /\ status'[e] /= "none" /\ Others
    BY <1>1, <1>2, <1>23 DEF CommitAmbiguous, ApplyBatch, rowVars, dataVars
  <1>24. ASSUME FinishSuccess(e) PROVE status[e] /= "none" /\ status'[e] /= "none" /\ Others
    BY <1>1, <1>2, <1>24 DEF FinishSuccess, SetStatus, rowVars, dataVars
  <1>25. ASSUME CompleteRun(e) PROVE status[e] /= "none" /\ status'[e] /= "none" /\ Others
    BY <1>1, <1>2, <1>25 DEF CompleteRun, rowVars, dataVars
  <1>26. ASSUME RunFails(e) PROVE status[e] /= "none" /\ status'[e] /= "none" /\ Others
    BY <1>1, <1>2, <1>26 DEF RunFails, rowVars, dataVars
  <1> QED BY <1>3, <1>4, <1>5, <1>6, <1>7, <1>8, <1>9, <1>10, <1>11, <1>12,
          <1>13, <1>14, <1>15, <1>16, <1>17, <1>18, <1>19, <1>20, <1>21,
          <1>22, <1>23, <1>24, <1>25, <1>26
          DEF SetupJob, CoordinatorJob

LEMMA LifeInvStep == TypeInv /\ LifeInv /\ [Next]_vars => LifeInv'
  <1> SUFFICES ASSUME TypeInv, LifeInv, [Next]_vars PROVE LifeInv'
    OBVIOUS
  <1>1. ASSUME NEW e \in Executions, SetupJob(e) \/ CoordinatorJob(e) PROVE LifeInv'
    BY <1>1, LifeOfJobs DEF LifeInv
  <1>2. ASSUME NEW e \in Executions, Clock(e) PROVE LifeInv'
    BY <1>2 DEF Clock, InitiationTimeout, DeadlinePasses, SliceTimeout, LifeInv,
       rowVars, dataVars
  <1>3. ASSUME NEW c \in Creators, CheckNoneActive(c) \/ GiveUpCreating(c) PROVE LifeInv'
    BY <1>3 DEF CheckNoneActive, GiveUpCreating, LifeInv, rowVars, dataVars
  <1>4. ASSUME NEW c \in Creators, NEW e \in Executions, CreateScheduledExecution(c, e)
        PROVE  LifeInv'
    BY <1>4 DEF CreateScheduledExecution, LifeInv, dataVars, TypeInv, TypeOK, RowOK, JobsOK
  <1>5. CASE UNCHANGED vars
    BY <1>5 DEF vars, LifeInv, rowVars, dataVars
  <1> QED BY <1>1, <1>2, <1>3, <1>4, <1>5 DEF Next, Create

\* Parts of a sequence of distinct ids are sequences of distinct ids: a manifest
\* cut short by a broken stream, and a batch.
LEMMA PartsAreInjective ==
  ASSUME NEW s \in Seq(Objects), Injective(s), NEW m \in Nat, NEW n \in Nat, n <= Len(s)
  PROVE  Injective(SubSeq(s, m + 1, n))
  <1> DEFINE t == SubSeq(s, m + 1, n)
  <1>1. CASE n <= m
    <2>1. t = <<>>
      BY <1>1
    <2> QED BY <2>1 DEF Injective
  <1>2. CASE n > m
    <2>1. t \in Seq(Objects) /\ Len(t) = n - m
      BY <1>2
    <2>2. \A i \in 1 .. n - m : t[i] = s[m + i]
      BY <1>2
    <2>3. DOMAIN t = 1 .. n - m
      BY <2>1, <1>2
    <2>4. \A i \in 1 .. n - m : m + i \in DOMAIN s
      BY <1>2
    <2> HIDE DEF t
    <2>5. ASSUME NEW i \in DOMAIN t, NEW j \in DOMAIN t, t[i] = t[j] PROVE i = j
      <3>1. i \in 1 .. n - m /\ j \in 1 .. n - m
        BY <2>3
      <3>2. s[m + i] = s[m + j] /\ m + i \in DOMAIN s /\ m + j \in DOMAIN s
        BY <2>2, <2>4, <2>5, <3>1
      <3>3. m + i = m + j
        BY <3>2 DEF Injective
      <3> QED BY <3>1, <3>3
    <2>6. Injective(t)
      BY <2>5 DEF Injective
    <2> QED BY <2>6 DEF t
  <1> QED BY <1>1, <1>2

\* A step keeps the manifests and the batches of ids, or empties a batch, unless
\* it streams a manifest or reads a batch.
LEMMA IdsKept ==
  ASSUME TypeInv, [Next]_vars,
         \A e \in Executions : ~StreamManifest(e) /\ ~StreamFails(e) /\ ~ReadBatch(e)
  PROVE  /\ blob' = blob
         /\ \A f \in Executions : batch'[f].ids = batch[f].ids \/ batch'[f].ids = <<>>
  <1> DEFINE Kept == /\ blob' = blob
                     /\ \A f \in Executions :
                          batch'[f].ids = batch[f].ids \/ batch'[f].ids = <<>>
  <1>1. batch \in [Executions -> BatchType] /\ NoBatch.ids = <<>>
    BY EmptyValues DEF TypeInv, TypeOK, LocalOK
  <1>2. ASSUME NEW e \in Executions,
               InitiationTimeout(e) \/ DeadlinePasses(e) \/ SliceTimeout(e)
        PROVE  Kept
    BY <1>2 DEF InitiationTimeout, DeadlinePasses, SliceTimeout, localVars,
       dataVars
  <1>3. ASSUME NEW e \in Executions,
               \/ StartSetup(e) \/ StartSetupTooLate(e) \/ SetupFails(e)
               \/ CommitSetup(e) \/ CompleteSetup(e) \/ SetupRerun(e)
        PROVE  Kept
    BY <1>3 DEF StartSetup, StartSetupTooLate, SetupFails, CommitSetup,
       CompleteSetup, SetupRerun, localVars, dataVars
  <1>4. ASSUME NEW e \in Executions,
               \/ StartRun(e) \/ FinishLate(e) \/ LoadInvariants(e)
               \/ ExitNotProcessing(e) \/ LoopDone(e) \/ FinishSuccess(e)
        PROVE  Kept
    BY <1>4 DEF StartRun, FinishLate, LoadInvariants, ExitNotProcessing,
       LoopDone, FinishSuccess, Goto, dataVars
  <1>5. ASSUME NEW e \in Executions, MarkFailed(e) PROVE Kept
    BY <1>1, <1>5 DEF MarkFailed, EndRun, dataVars
  <1>6. ASSUME NEW e \in Executions, Snooze(e) PROVE Kept
    BY <1>1, <1>6 DEF Snooze, EndRun, dataVars
  <1>7. ASSUME NEW e \in Executions, CompleteRun(e) PROVE Kept
    BY <1>1, <1>7 DEF CompleteRun, EndRun, dataVars
  <1>8. ASSUME NEW e \in Executions, RunFails(e) PROVE Kept
    BY <1>1, <1>8 DEF RunFails, EndRun, dataVars
  <1>9. ASSUME NEW e \in Executions, BatchFails(e) PROVE Kept
    BY <1>1, <1>9 DEF BatchFails, RetryBatch, dataVars
  <1>10. ASSUME NEW e \in Executions, CommitBatch(e) PROVE Kept
    BY <1>1, <1>10 DEF CommitBatch, ApplyBatch, dataVars
  <1>11. ASSUME NEW e \in Executions, CommitAmbiguous(e) PROVE Kept
    BY <1>1, <1>11 DEF CommitAmbiguous, ApplyBatch, RetryBatch, dataVars
  <1>12. ASSUME NEW e \in Executions, FilterAlreadyScored(e) PROVE Kept
    BY <1>1, <1>12 DEF FilterAlreadyScored, BatchType, dataVars
  <1>13. ASSUME NEW e \in Executions, EvaluateBatch(e) PROVE Kept
    BY <1>1, <1>13 DEF EvaluateBatch, BatchType, dataVars
  <1>14. ASSUME Create PROVE Kept
    BY <1>14 DEF Create, CheckNoneActive, CreateScheduledExecution, GiveUpCreating,
       localVars, dataVars
  <1>15. CASE UNCHANGED vars
    BY <1>15 DEF vars, localVars, dataVars
  <1> QED BY <1>2, <1>3, <1>4, <1>5, <1>6, <1>7, <1>8, <1>9, <1>10, <1>11,
          <1>12, <1>13, <1>14, <1>15
          DEF Next, SetupJob, CoordinatorJob, Clock

LEMMA DistinctInvStep ==
  ASSUME DistinctIds, TypeInv, DistinctInv, [Next]_vars
  PROVE  DistinctInv'
  <1>1. Injective(<<>>)
    BY DEF Injective
  <1>2. /\ blob \in [Executions -> Seq(Objects)] /\ batch \in [Executions -> BatchType]
        /\ \A e \in Executions : Len(blob[e]) \in Nat
    BY DEF TypeInv, TypeOK, DataOK, LocalOK
  <1>3. ASSUME NEW e \in Executions, StreamManifest(e) PROVE DistinctInv'
    BY <1>2, <1>3 DEF StreamManifest, DistinctInv, DistinctIds, localVars
  <1>4. ASSUME NEW e \in Executions, StreamFails(e) PROVE DistinctInv'
    <2>a. PICK m \in Manifests : \E k \in 0 .. Len(m) :
            blob' = [blob EXCEPT ![e] = SubSeq(m, 1, k)]
      BY <1>4 DEF StreamFails
    <2>1. PICK k \in 0 .. Len(m) : blob' = [blob EXCEPT ![e] = SubSeq(m, 1, k)]
      BY <2>a
    <2>2. m \in Seq(Objects) /\ Injective(m)
      BY ManifestsAssumption DEF DistinctIds
    <2>3. Injective(SubSeq(m, 0 + 1, k))
      BY <2>2, PartsAreInjective
    <2>4. Injective(SubSeq(m, 1, k))
      BY <2>3
    <2>5. batch' = batch
      BY <1>4 DEF StreamFails, localVars
    <2> QED BY <1>2, <2>1, <2>4, <2>5 DEF DistinctInv
  <1>5. ASSUME NEW e \in Executions, ReadBatch(e) PROVE DistinctInv'
    <2>1. ReadFrom(e) \in Nat
      BY ReadType DEF TypeInv
    <2>2. blob[e] \in Seq(Objects) /\ Injective(blob[e]) /\ Len(blob[e]) \in Nat
      BY <1>2 DEF DistinctInv
    <2> DEFINE k == IF ReadFrom(e) + BatchSize < Len(blob[e])
                      THEN ReadFrom(e) + BatchSize ELSE Len(blob[e])
    <2>3. k \in Nat /\ k <= Len(blob[e])
      BY <2>1, <2>2, BatchSizeAssumption
    <2>4. Injective(SubSeq(blob[e], ReadFrom(e) + 1, k))
      BY <2>1, <2>2, <2>3, PartsAreInjective
    <2>5. Injective(ReadManifestBatch(e))
      BY <2>4 DEF ReadManifestBatch
    <2>6. batch'[e].ids = ReadManifestBatch(e)
      BY <1>2, <1>5 DEF ReadBatch, BatchType
    <2>7. blob' = blob /\ \A f \in Executions \ {e} : batch'[f] = batch[f]
      BY <1>2, <1>5 DEF ReadBatch, dataVars
    <2> QED BY <2>5, <2>6, <2>7 DEF DistinctInv
  <1>6. CASE \A e \in Executions : ~StreamManifest(e) /\ ~StreamFails(e) /\ ~ReadBatch(e)
    BY <1>1, <1>6, IdsKept DEF DistinctInv
  <1> QED BY <1>3, <1>4, <1>5, <1>6

\* The claims match the outcomes after every step.
LEMMA ScoredInvStep ==
  ASSUME TypeInv, LifeInv, ScoredInv, [Next]_vars
  PROVE  ScoredInv'
  <1>1. CASE UNCHANGED <<log, scored, dedup>>
    BY <1>1 DEF ScoredInv, EvaluatedRows
  <1>2. ASSUME NEW c \in Creators, NEW e \in Executions, CreateScheduledExecution(c, e)
        PROVE  ScoredInv'
    BY <1>2 DEF CreateScheduledExecution, ScoredInv, EvaluatedRows, dataVars
  <1>3. ASSUME NEW e \in Executions, pc[e] = "commit", ApplyBatch(e) PROVE ScoredInv'
    <2>1. scored' = scored \cup Claimed(e)
      BY <1>3 DEF ApplyBatch
    <2>2. ASSUME NEW o \in scored'
          PROVE  \E f \in Executions : \E i \in EvaluatedRows(f)' : log'[f][i].object = o
      <3>1. CASE o \in scored
        <4>a. PICK f \in Executions : \E i \in EvaluatedRows(f) : log[f][i].object = o
          BY <3>1 DEF ScoredInv
        <4>1. PICK i \in EvaluatedRows(f) : log[f][i].object = o
          BY <4>a
        <4>2. CASE f = e
          <5>1. i \in EvaluatedRows(e)' /\ log'[e][i] = log[e][i]
            BY <1>3, <4>2, EvaluatedAfterCommit
          <5> QED BY <4>1, <4>2, <5>1
        <4>3. CASE f /= e
          <5>1. EvaluatedRows(f)' = EvaluatedRows(f) /\ log'[f] = log[f]
            BY <1>3, <4>3, EvaluatedAfterCommit, AppendedLog
          <5> QED BY <4>1, <5>1
        <4> QED BY <4>2, <4>3
      <3>2. CASE o \in Claimed(e)
        <4>1. PICK k \in 1 .. Len(batch[e].ids) :
                batch[e].ids[k] = o /\ Outcome(e, k) \in Evaluated
          BY <1>3, <3>2, OutcomeAndClaim
        <4>2. /\ Len(log[e]) + k \in EvaluatedRows(e)'
              /\ log'[e][Len(log[e]) + k].object = batch[e].ids[k]
          BY <1>3, <4>1, EvaluatedAfterCommit
        <4> QED BY <4>1, <4>2
      <3> QED BY <2>1, <3>1, <3>2
    <2>3. ASSUME NEW f \in Executions, NEW i \in EvaluatedRows(f)'
          PROVE  log'[f][i].object \in scored'
      <3>1. CASE i \in EvaluatedRows(f) /\ log'[f][i] = log[f][i]
        BY <2>1, <3>1 DEF ScoredInv
      <3>2. CASE f /= e
        <4>1. EvaluatedRows(f)' = EvaluatedRows(f) /\ log'[f] = log[f]
          BY <1>3, <3>2, EvaluatedAfterCommit, AppendedLog
        <4> QED BY <4>1, <3>1
      <3>3. CASE f = e /\ ~(i \in EvaluatedRows(f) /\ log'[f][i] = log[f][i])
        <4>1. PICK k \in 1 .. Len(batch[e].ids) :
                Outcome(e, k) \in Evaluated /\ log'[e][i].object = batch[e].ids[k]
          BY <1>3, <3>3, EvaluatedAfterCommit
        <4>2. batch[e].ids[k] \in ToClaim(e)
          BY <1>3, <4>1, OutcomeAndClaim
        <4> QED BY <2>1, <3>3, <4>1, <4>2 DEF Claimed
      <3> QED BY <3>1, <3>2, <3>3
    <2> QED BY <2>2, <2>3 DEF ScoredInv
  <1> QED BY <1>1, <1>2, <1>3, ThreeKindsOfStep

\* What a deduplicated execution commits for the first time was not scored.
LEMMA NewRowsAreFresh ==
  ASSUME TypeInv, NEW e \in Executions, dedup[e], pc[e] = "commit", ApplyBatch(e),
         NEW i \in EvaluatedRows(e)', i \notin EvaluatedRows(e)
  PROVE  log'[e][i].object \notin scored
  <1>1. PICK k \in 1 .. Len(batch[e].ids) :
          Outcome(e, k) \in Evaluated /\ log'[e][i].object = batch[e].ids[k]
    BY EvaluatedAfterCommit
  <1>2. batch[e].ids[k] \in Claimed(e)
    BY <1>1, OutcomeAndClaim
  <1> QED BY <1>1, <1>2 DEF Claimed

\* No step makes two rows of deduplicated executions evaluate one object.
LEMMA DedupExclusiveStep ==
  ASSUME TypeInv, LifeInv, DistinctInv, ScoredInv, DedupExclusive, [Next]_vars
  PROVE  DedupExclusive'
  <1>1. CASE UNCHANGED <<log, scored, dedup>>
    BY <1>1 DEF DedupExclusive, EvaluatedRows
  <1>2. ASSUME NEW c \in Creators, NEW e \in Executions, CreateScheduledExecution(c, e)
        PROVE  DedupExclusive'
    <2>1. log' = log /\ \A f \in Executions : EvaluatedRows(f)' = EvaluatedRows(f)
      BY <1>2 DEF CreateScheduledExecution, dataVars, EvaluatedRows
    <2>2. EvaluatedRows(e) = {}
      BY <1>2 DEF CreateScheduledExecution, LifeInv, EvaluatedRows
    <2>3. \A f \in Executions \ {e} : dedup'[f] = dedup[f]
      BY <1>2 DEF CreateScheduledExecution, TypeInv, TypeOK, RowOK
    <2> QED BY <2>1, <2>2, <2>3 DEF DedupExclusive
  <1>3. ASSUME NEW e \in Executions, pc[e] = "commit", ApplyBatch(e)
        PROVE  DedupExclusive'
    <2> SUFFICES ASSUME NEW f \in Executions, NEW g \in Executions, dedup'[f], dedup'[g],
                        NEW i \in EvaluatedRows(f)', NEW j \in EvaluatedRows(g)',
                        log'[f][i].object = log'[g][j].object
                 PROVE  f = g /\ i = j
      BY DEF DedupExclusive
    <2>1. dedup' = dedup
      BY <1>3 DEF ApplyBatch
    <2>2. ASSUME NEW h \in Executions, NEW k \in EvaluatedRows(h)'
          PROVE  \/ k \in EvaluatedRows(h) /\ log'[h][k] = log[h][k]
                 \/ h = e /\ k \notin EvaluatedRows(e)
      <3>1. CASE h = e
        BY <1>3, <3>1, EvaluatedAfterCommit
      <3>2. CASE h /= e
        <4>1. EvaluatedRows(h)' = EvaluatedRows(h)
          BY <1>3, <3>2, EvaluatedAfterCommit
        <4>2. log'[h] = log[h]
          BY <1>3, <3>2, AppendedLog
        <4> QED BY <4>1, <4>2
      <3> QED BY <3>1, <3>2
    <2>3. ASSUME NEW h \in Executions, NEW k \in EvaluatedRows(h)
          PROVE  log[h][k].object \in scored
      BY DEF ScoredInv
    <2>4. ASSUME NEW k \in EvaluatedRows(e)', k \notin EvaluatedRows(e), dedup[e]
          PROVE  log'[e][k].object \notin scored
      BY <1>3, <2>4, NewRowsAreFresh
    <2>5. CASE /\ i \in EvaluatedRows(f) /\ log'[f][i] = log[f][i]
               /\ j \in EvaluatedRows(g) /\ log'[g][j] = log[g][j]
      BY <2>1, <2>5 DEF DedupExclusive
    <2>6. CASE /\ i \in EvaluatedRows(f) /\ log'[f][i] = log[f][i]
               /\ g = e /\ j \notin EvaluatedRows(e)
      BY <2>1, <2>3, <2>4, <2>6
    <2>7. CASE /\ f = e /\ i \notin EvaluatedRows(e)
               /\ j \in EvaluatedRows(g) /\ log'[g][j] = log[g][j]
      BY <2>1, <2>3, <2>4, <2>7
    <2>8. CASE /\ f = e /\ i \notin EvaluatedRows(e)
               /\ g = e /\ j \notin EvaluatedRows(e)
      <3>1. PICK k \in 1 .. Len(batch[e].ids) :
              i = Len(log[e]) + k /\ log'[e][i].object = batch[e].ids[k]
        BY <1>3, <2>8, EvaluatedAfterCommit
      <3>2. PICK l \in 1 .. Len(batch[e].ids) :
              j = Len(log[e]) + l /\ log'[e][j].object = batch[e].ids[l]
        BY <1>3, <2>8, EvaluatedAfterCommit
      <3>3. DOMAIN batch[e].ids = 1 .. Len(batch[e].ids)
        BY DEF TypeInv, TypeOK, LocalOK, BatchType
      <3>4. k = l
        BY <2>8, <3>1, <3>2, <3>3 DEF DistinctInv, Injective
      <3> QED BY <2>8, <3>1, <3>2, <3>4
    <2> QED BY <2>2, <2>5, <2>6, <2>7, <2>8
  <1> QED BY <1>1, <1>2, <1>3, ThreeKindsOfStep

\* The inductive invariant of deduplication.
DedupInv == TypeInv /\ LifeInv /\ ScoredInv

LEMMA DedupInvInit == Init => DedupInv
  <1> SUFFICES ASSUME Init PROVE DedupInv
    OBVIOUS
  <1>1. TypeInv
    BY TypeInvInit
  <1>2. LifeInv
    BY DEF Init, LifeInv
  <1>3. \A e \in Executions : log[e] = <<>> /\ EvaluatedRows(e) = {}
    BY DEF Init, EvaluatedRows
  <1>4. ScoredInv
    BY <1>3 DEF Init, ScoredInv
  <1> QED BY <1>1, <1>2, <1>4 DEF DedupInv

LEMMA DedupInvStep == DedupInv /\ [Next]_vars => DedupInv'
  BY TypeInvStep, LifeInvStep, ScoredInvStep DEF DedupInv

\* The objects in scenario_scored_objects are always exactly those that some
\* execution evaluated: no claim without its outcome, no outcome without its claim.
THEOREM ClaimsCorrect == Spec => []ClaimsMatchLog
  <1>1. DedupInv => ClaimsMatchLog
    BY DEF DedupInv, ScoredInv, ClaimsMatchLog
  <1> QED BY <1>1, DedupInvInit, DedupInvStep, PTL DEF Spec

\* What a deduplicated execution evaluates was not evaluated before by any
\* execution of the scenario, whatever the manifests hold.
THEOREM NoRescoring == Spec => NeverRescored
  <1>1. ASSUME DedupInv, [Next]_vars, NEW e \in Executions, dedup[e],
               NEW i \in EvaluatedRows(e)' \ DOMAIN log[e],
               NEW f \in Executions, NEW j \in EvaluatedRows(f)
        PROVE  log[f][j].object /= log'[e][i].object
    <2>1. TypeInv /\ log[f][j].object \in scored
      BY <1>1 DEF DedupInv, ScoredInv
    <2>2. i \in EvaluatedRows(e)' /\ i \notin EvaluatedRows(e)
      BY DEF EvaluatedRows
    <2>3. log'[e] /= log[e]
      BY <2>2 DEF EvaluatedRows
    <2>4. pc[e] = "commit" /\ ApplyBatch(e)
      <3>1. CASE UNCHANGED <<log, scored, dedup>>
        BY <2>3, <3>1
      <3>2. ASSUME NEW g \in Executions, pc[g] = "commit", ApplyBatch(g)
            PROVE  pc[e] = "commit" /\ ApplyBatch(e)
        BY <2>1, <2>3, <3>2, AppendedLog
      <3>3. ASSUME NEW c \in Creators, NEW g \in Executions, CreateScheduledExecution(c, g)
            PROVE  FALSE
        BY <2>3, <3>3 DEF CreateScheduledExecution, dataVars
      <3> QED BY <1>1, <3>1, <3>2, <3>3, ThreeKindsOfStep
    <2>5. log'[e][i].object \notin scored
      BY <1>1, <2>1, <2>2, <2>4, NewRowsAreFresh
    <2> QED BY <2>1, <2>5
  <1>2. DedupInv /\ [Next]_vars =>
          [\A e \in Executions : dedup[e] =>
             \A i \in EvaluatedRows(e)' \ DOMAIN log[e] :
               \A f \in Executions : \A j \in EvaluatedRows(f) :
                 log[f][j].object /= log'[e][i].object]_vars
    BY <1>1
  <1> QED BY <1>2, DedupInvInit, DedupInvStep, PTL DEF Spec, NeverRescored

\* If ids are distinct within each manifest, an object is evaluated by at most one
\* row of all the deduplicated executions of a scenario.
THEOREM Deduplication ==
  ASSUME DistinctIds
  PROVE  Spec => []DedupExclusive
  <1> DEFINE Inv == DedupInv /\ DistinctInv /\ DedupExclusive
  <1>1. Init => Inv
    <2> SUFFICES ASSUME Init PROVE Inv
      OBVIOUS
    <2>1. DistinctInv
      BY EmptyValues DEF Init, DistinctInv, Injective
    <2>2. \A e \in Executions : EvaluatedRows(e) = {}
      BY DEF Init, EvaluatedRows
    <2> QED BY <2>1, <2>2, DedupInvInit DEF DedupExclusive
  <1>2. Inv /\ [Next]_vars => Inv'
    BY DedupInvStep, DistinctInvStep, DedupExclusiveStep DEF DedupInv
  <1>3. Inv => DedupExclusive
    OBVIOUS
  <1> QED BY <1>1, <1>2, <1>3, PTL DEF Spec

-----------------------------------------------------------------------------
(* The life of an execution.                                               *)

\* What the properties of execution e are about.
Own(e) == <<status[e], dedup[e], progress[e], blob[e], log[e], setup[e], job[e],
            pc[e], reader[e], cursor[e], batch[e]>>

\* The variables are functions of the execution.
LEMMA OwnFunctions ==
  ASSUME TypeInv
  PROVE  /\ status \in [Executions -> Active \cup Terminal \cup {"none"}]
         /\ dedup \in [Executions -> BOOLEAN]
         /\ progress \in [Executions -> Progress]
         /\ blob \in [Executions -> Seq(Objects)] /\ log \in [Executions -> Seq(Entry)]
         /\ setup \in [Executions -> SetupType] /\ job \in [Executions -> JobType]
         /\ pc \in [Executions -> Labels]
         /\ reader \in [Executions -> Nat \cup {Closed}]
         /\ cursor \in [Executions -> Progress] /\ batch \in [Executions -> BatchType]
  BY DEF TypeInv, TypeOK, RowOK, DataOK, JobsOK, LocalOK

\* A step of one execution leaves every other one alone.
LEMMA OthersAlone ==
  ASSUME TypeInv, NEW e \in Executions, SetupJob(e) \/ CoordinatorJob(e) \/ Clock(e),
         NEW f \in Executions \ {e}
  PROVE  UNCHANGED Own(f)
  <1>1. CASE StartSetup(e)
    BY <1>1, OwnFunctions DEF StartSetup, rowVars, dataVars, localVars, Own
  <1>2. CASE StartSetupTooLate(e)
    BY <1>2, OwnFunctions DEF StartSetupTooLate, dataVars, localVars, Own
  <1>3. CASE StreamManifest(e)
    BY <1>3, OwnFunctions DEF StreamManifest, rowVars, localVars, Own
  <1>4. CASE StreamFails(e)
    BY <1>4, OwnFunctions DEF StreamFails, rowVars, localVars, Own
  <1>5. CASE SetupFails(e)
    BY <1>5, OwnFunctions DEF SetupFails, rowVars, dataVars, localVars, Own
  <1>6. CASE CommitSetup(e)
    BY <1>6, OwnFunctions DEF CommitSetup, dataVars, localVars, Own
  <1>7. CASE CompleteSetup(e)
    BY <1>7, OwnFunctions DEF CompleteSetup, rowVars, dataVars, localVars, Own
  <1>8. CASE SetupRerun(e)
    BY <1>8, OwnFunctions DEF SetupRerun, rowVars, dataVars, localVars, Own
  <1>9. CASE StartRun(e)
    BY <1>9, OwnFunctions DEF StartRun, rowVars, dataVars, Own
  <1>10. CASE FinishLate(e)
    BY <1>10, OwnFunctions DEF FinishLate, SetStatus, Goto, dataVars, Own
  <1>11. CASE MarkFailed(e)
    BY <1>11, OwnFunctions DEF MarkFailed, SetStatus, EndRun, rowVars, dataVars, Own
  <1>12. CASE LoadInvariants(e)
    BY <1>12, OwnFunctions DEF LoadInvariants, Goto, rowVars, dataVars, Own
  <1>13. CASE Snooze(e)
    BY <1>13, OwnFunctions DEF Snooze, EndRun, rowVars, dataVars, Own
  <1>14. CASE ExitNotProcessing(e)
    BY <1>14, OwnFunctions DEF ExitNotProcessing, Goto, rowVars, dataVars, Own
  <1>15. CASE LoopDone(e)
    BY <1>15, OwnFunctions DEF LoopDone, Goto, rowVars, dataVars, Own
  <1>16. CASE ReadBatch(e)
    BY <1>16, OwnFunctions DEF ReadBatch, rowVars, dataVars, Own
  <1>17. CASE FilterAlreadyScored(e)
    BY <1>17, OwnFunctions DEF FilterAlreadyScored, rowVars, dataVars, Own
  <1>18. CASE EvaluateBatch(e)
    BY <1>18, OwnFunctions DEF EvaluateBatch, rowVars, dataVars, Own
  <1>19. CASE BatchFails(e)
    BY <1>19, OwnFunctions DEF BatchFails, RetryBatch, ResetManifestReader, rowVars,
       dataVars, Own
  <1>20. CASE CommitBatch(e)
    BY <1>20, OwnFunctions DEF CommitBatch, ApplyBatch, Own
  <1>21. CASE CommitAmbiguous(e)
    BY <1>21, OwnFunctions DEF CommitAmbiguous, ApplyBatch, RetryBatch,
       ResetManifestReader, Own
  <1>22. CASE FinishSuccess(e)
    BY <1>22, OwnFunctions DEF FinishSuccess, SetStatus, Goto, dataVars, Own
  <1>23. CASE CompleteRun(e)
    BY <1>23, OwnFunctions DEF CompleteRun, EndRun, rowVars, dataVars, Own
  <1>24. CASE RunFails(e)
    BY <1>24, OwnFunctions DEF RunFails, EndRun, rowVars, dataVars, Own
  <1>25. CASE InitiationTimeout(e)
    BY <1>25, OwnFunctions DEF InitiationTimeout, dataVars, localVars, Own
  <1>26. CASE DeadlinePasses(e)
    BY <1>26, OwnFunctions DEF DeadlinePasses, dataVars, localVars, Own
  <1>27. CASE SliceTimeout(e)
    BY <1>27, OwnFunctions DEF SliceTimeout, rowVars, dataVars, Own
  <1> QED BY <1>1, <1>2, <1>3, <1>4, <1>5, <1>6, <1>7, <1>8, <1>9, <1>10, <1>11, <1>12,
             <1>13, <1>14, <1>15, <1>16, <1>17, <1>18, <1>19, <1>20, <1>21, <1>22, <1>23,
             <1>24, <1>25, <1>26, <1>27
       DEF SetupJob, CoordinatorJob, Clock

\* A coordinator that is past the check of its loop works for an execution that is
\* processing; a job runs exactly while its coordinator does, and there is none
\* before the execution has started.
WithBatch == {"filter", "evaluate", "commit"}

WorkInv == \A e \in Executions :
  /\ pc[e] \in WithBatch \cup {"finish"} => status[e] = "processing"
  /\ job[e].state = "running" <=> pc[e] /= "idle"
  /\ job[e].state /= "none" => status[e] \notin {"none", "pending"}

\* Without a second attempt, nothing runs for an execution that has ended.
ActiveInv == \A e \in Executions :
  job[e].state = "queued" \/ pc[e] \notin {"idle", "exit"} => status[e] = "processing"

LEMMA WorkInvStep ==
  ASSUME TypeInv, LifeInv, WorkInv, [Next]_vars
  PROVE  WorkInv'
  <1> DEFINE OK(e) == /\ pc[e] \in WithBatch \cup {"finish"} => status[e] = "processing"
                      /\ job[e].state = "running" <=> pc[e] /= "idle"
                      /\ job[e].state /= "none" => status[e] \notin {"none", "pending"}
  <1>1. ASSUME NEW e \in Executions, SetupJob(e) \/ CoordinatorJob(e) \/ Clock(e)
        PROVE  OK(e)'
    <2>0. /\ OK(e) /\ job[e] \in JobType /\ pc[e] \in Labels
          /\ pc[e] /= "idle" => job[e].state = "running"
          /\ job[e].state = "running" => status[e] /= "none"
      BY OwnFunctions DEF WorkInv, LifeInv, TypeInv, AttemptsInv
    <2>1. CASE StartSetup(e)
      BY <2>0, <2>1, OwnFunctions DEF StartSetup, rowVars, dataVars, localVars, WithBatch
    <2>2. CASE StartSetupTooLate(e)
      BY <2>0, <2>2, OwnFunctions DEF StartSetupTooLate, dataVars, localVars, WithBatch
    <2>3. CASE StreamManifest(e)
      BY <2>0, <2>3, OwnFunctions DEF StreamManifest, rowVars, localVars, WithBatch
    <2>4. CASE StreamFails(e)
      BY <2>0, <2>4, OwnFunctions DEF StreamFails, rowVars, localVars, WithBatch
    <2>5. CASE SetupFails(e)
      BY <2>0, <2>5, OwnFunctions DEF SetupFails, rowVars, dataVars, localVars, WithBatch
    <2>6. CASE CommitSetup(e)
      BY <2>0, <2>6, OwnFunctions DEF CommitSetup, dataVars, localVars, EnqueueUnique,
         WithBatch
    <2>7. CASE CompleteSetup(e)
      BY <2>0, <2>7, OwnFunctions DEF CompleteSetup, rowVars, dataVars, localVars, WithBatch
    <2>8. CASE SetupRerun(e)
      BY <2>0, <2>8, OwnFunctions DEF SetupRerun, rowVars, dataVars, localVars, WithBatch
    <2>9. CASE StartRun(e)
      BY <2>0, <2>9, OwnFunctions DEF StartRun, rowVars, dataVars, Started, WithBatch
    <2>10. CASE FinishLate(e)
      BY <2>0, <2>10, OwnFunctions DEF FinishLate, SetStatus, Goto, dataVars, WithBatch
    <2>11. CASE MarkFailed(e)
      BY <2>0, <2>11, OwnFunctions DEF MarkFailed, SetStatus, EndRun, rowVars, dataVars,
         WithBatch
    <2>12. CASE LoadInvariants(e)
      BY <2>0, <2>12, OwnFunctions DEF LoadInvariants, Goto, rowVars, dataVars, WithBatch
    <2>13. CASE Snooze(e)
      BY <2>0, <2>13, OwnFunctions DEF Snooze, EndRun, rowVars, dataVars, JobSnooze,
         WithBatch
    <2>14. CASE ExitNotProcessing(e)
      BY <2>0, <2>14, OwnFunctions DEF ExitNotProcessing, Goto, rowVars, dataVars, WithBatch
    <2>15. CASE LoopDone(e)
      BY <2>0, <2>15, OwnFunctions DEF LoopDone, Goto, rowVars, dataVars, ContinueLoop,
         WithBatch
    <2>16. CASE ReadBatch(e)
      BY <2>0, <2>16, OwnFunctions DEF ReadBatch, rowVars, dataVars, ContinueLoop, WithBatch
    <2>17. CASE FilterAlreadyScored(e)
      BY <2>0, <2>17, OwnFunctions DEF FilterAlreadyScored, rowVars, dataVars, WithBatch
    <2>18. CASE EvaluateBatch(e)
      BY <2>0, <2>18, OwnFunctions DEF EvaluateBatch, rowVars, dataVars, WithBatch
    <2>19. CASE BatchFails(e)
      BY <2>0, <2>19, OwnFunctions DEF BatchFails, RetryBatch, ResetManifestReader,
         rowVars, dataVars, ContinueLoop, WithBatch
    <2>20. CASE CommitBatch(e)
      BY <2>0, <2>20, OwnFunctions DEF CommitBatch, ApplyBatch, WithBatch
    <2>21. CASE CommitAmbiguous(e)
      BY <2>0, <2>21, OwnFunctions DEF CommitAmbiguous, ApplyBatch, RetryBatch,
         ResetManifestReader, WithBatch
    <2>22. CASE FinishSuccess(e)
      BY <2>0, <2>22, OwnFunctions DEF FinishSuccess, SetStatus, Goto, dataVars, WithBatch
    <2>23. CASE CompleteRun(e)
      BY <2>0, <2>23, OwnFunctions DEF CompleteRun, EndRun, rowVars, dataVars, WithBatch
    <2>24. CASE RunFails(e)
      BY <2>0, <2>24, OwnFunctions DEF RunFails, EndRun, rowVars, dataVars, AfterError,
         WithBatch
    <2>25. CASE InitiationTimeout(e)
      BY <2>0, <2>25, OwnFunctions DEF InitiationTimeout, dataVars, localVars, WithBatch
    <2>26. CASE DeadlinePasses(e)
      BY <2>0, <2>26, OwnFunctions DEF DeadlinePasses, dataVars, localVars, WithBatch
    <2>27. CASE SliceTimeout(e)
      BY <2>0, <2>27, OwnFunctions DEF SliceTimeout, rowVars, dataVars, WithBatch
    <2> QED BY <1>1, <2>1, <2>2, <2>3, <2>4, <2>5, <2>6, <2>7, <2>8, <2>9, <2>10, <2>11,
               <2>12, <2>13, <2>14, <2>15, <2>16, <2>17, <2>18, <2>19, <2>20, <2>21,
               <2>22, <2>23, <2>24, <2>25, <2>26, <2>27
         DEF SetupJob, CoordinatorJob, Clock
  <1>2. ASSUME NEW e \in Executions, SetupJob(e) \/ CoordinatorJob(e) \/ Clock(e),
               NEW f \in Executions \ {e}
        PROVE  OK(f)'
    BY <1>2, OthersAlone DEF Own, WorkInv
  <1>3. ASSUME NEW c \in Creators, NEW e \in Executions, CreateScheduledExecution(c, e)
        PROVE  WorkInv'
    BY <1>3, OwnFunctions DEF CreateScheduledExecution, LifeInv, WorkInv, WithBatch,
       localVars
  <1>4. ASSUME NEW c \in Creators, CheckNoneActive(c) \/ GiveUpCreating(c) PROVE WorkInv'
    BY <1>4 DEF CheckNoneActive, GiveUpCreating, WorkInv, rowVars, localVars
  <1>5. CASE UNCHANGED vars
    BY <1>5 DEF vars, rowVars, localVars, WorkInv
  <1>6. ASSUME NEW e \in Executions, SetupJob(e) \/ CoordinatorJob(e) \/ Clock(e)
        PROVE  WorkInv'
    BY <1>1, <1>2, <1>6 DEF WorkInv
  <1> QED BY <1>3, <1>4, <1>5, <1>6 DEF Next, Create

LEMMA ActiveInvStep ==
  ASSUME MaxCoordinatorAttempts = 1, TypeInv, LifeInv, ActiveInv, [Next]_vars
  PROVE  ActiveInv'
  <1> DEFINE OK(e) ==
        job[e].state = "queued" \/ pc[e] \notin {"idle", "exit"} => status[e] = "processing"
  <1>1. ASSUME NEW e \in Executions, SetupJob(e) \/ CoordinatorJob(e) \/ Clock(e)
        PROVE  OK(e)'
    <2>0. /\ OK(e) /\ job[e] \in JobType /\ pc[e] \in Labels
          /\ pc[e] /= "idle" => job[e].state = "running"
          /\ job[e].state = "running" => job[e].attempts > 0
      BY OwnFunctions DEF ActiveInv, TypeInv, AttemptsInv
    <2>1. CASE StartSetup(e)
      BY <2>0, <2>1, OwnFunctions DEF StartSetup, rowVars, dataVars, localVars
    <2>2. CASE StartSetupTooLate(e)
      BY <2>0, <2>2, OwnFunctions DEF StartSetupTooLate, dataVars, localVars
    <2>3. CASE StreamManifest(e)
      BY <2>0, <2>3, OwnFunctions DEF StreamManifest, rowVars, localVars
    <2>4. CASE StreamFails(e)
      BY <2>0, <2>4, OwnFunctions DEF StreamFails, rowVars, localVars
    <2>5. CASE SetupFails(e)
      BY <2>0, <2>5, OwnFunctions DEF SetupFails, rowVars, dataVars, localVars
    <2>6. CASE CommitSetup(e)
      BY <2>0, <2>6, OwnFunctions DEF CommitSetup, dataVars, localVars, EnqueueUnique
    <2>7. CASE CompleteSetup(e)
      BY <2>0, <2>7, OwnFunctions DEF CompleteSetup, rowVars, dataVars, localVars
    <2>8. CASE SetupRerun(e)
      BY <2>0, <2>8, OwnFunctions DEF SetupRerun, rowVars, dataVars, localVars
    <2>9. CASE StartRun(e)
      BY <2>0, <2>9, OwnFunctions DEF StartRun, rowVars, dataVars, Started
    <2>10. CASE FinishLate(e)
      BY <2>0, <2>10, OwnFunctions DEF FinishLate, SetStatus, Goto, dataVars
    <2>11. CASE MarkFailed(e)
      BY <2>0, <2>11, OwnFunctions DEF MarkFailed, SetStatus, EndRun, rowVars, dataVars
    <2>12. CASE LoadInvariants(e)
      BY <2>0, <2>12, OwnFunctions DEF LoadInvariants, Goto, rowVars, dataVars
    <2>13. CASE Snooze(e)
      BY <2>0, <2>13, OwnFunctions DEF Snooze, EndRun, rowVars, dataVars, JobSnooze
    <2>14. CASE ExitNotProcessing(e)
      BY <2>0, <2>14, OwnFunctions DEF ExitNotProcessing, Goto, rowVars, dataVars
    <2>15. CASE LoopDone(e)
      BY <2>0, <2>15, OwnFunctions DEF LoopDone, Goto, rowVars, dataVars, ContinueLoop
    <2>16. CASE ReadBatch(e)
      BY <2>0, <2>16, OwnFunctions DEF ReadBatch, rowVars, dataVars, ContinueLoop
    <2>17. CASE FilterAlreadyScored(e)
      BY <2>0, <2>17, OwnFunctions DEF FilterAlreadyScored, rowVars, dataVars
    <2>18. CASE EvaluateBatch(e)
      BY <2>0, <2>18, OwnFunctions DEF EvaluateBatch, rowVars, dataVars
    <2>19. CASE BatchFails(e)
      BY <2>0, <2>19, OwnFunctions DEF BatchFails, RetryBatch, ResetManifestReader,
         rowVars, dataVars, ContinueLoop
    <2>20. CASE CommitBatch(e)
      BY <2>0, <2>20, OwnFunctions DEF CommitBatch, ApplyBatch
    <2>21. CASE CommitAmbiguous(e)
      BY <2>0, <2>21, OwnFunctions DEF CommitAmbiguous, ApplyBatch, RetryBatch,
         ResetManifestReader
    <2>22. CASE FinishSuccess(e)
      BY <2>0, <2>22, OwnFunctions DEF FinishSuccess, SetStatus, Goto, dataVars
    <2>23. CASE CompleteRun(e)
      BY <2>0, <2>23, OwnFunctions DEF CompleteRun, EndRun, rowVars, dataVars
    <2>24. CASE RunFails(e)
      BY <2>0, <2>24, OwnFunctions DEF RunFails, EndRun, rowVars, dataVars, AfterError,
         JobType
    <2>25. CASE InitiationTimeout(e)
      BY <2>0, <2>25, OwnFunctions DEF InitiationTimeout, dataVars, localVars
    <2>26. CASE DeadlinePasses(e)
      BY <2>0, <2>26, OwnFunctions DEF DeadlinePasses, dataVars, localVars
    <2>27. CASE SliceTimeout(e)
      BY <2>0, <2>27, OwnFunctions DEF SliceTimeout, rowVars, dataVars
    <2> QED BY <1>1, <2>1, <2>2, <2>3, <2>4, <2>5, <2>6, <2>7, <2>8, <2>9, <2>10, <2>11,
               <2>12, <2>13, <2>14, <2>15, <2>16, <2>17, <2>18, <2>19, <2>20, <2>21,
               <2>22, <2>23, <2>24, <2>25, <2>26, <2>27
         DEF SetupJob, CoordinatorJob, Clock
  <1>2. ASSUME NEW e \in Executions, SetupJob(e) \/ CoordinatorJob(e) \/ Clock(e),
               NEW f \in Executions \ {e}
        PROVE  OK(f)'
    BY <1>2, OthersAlone DEF Own, ActiveInv
  <1>3. ASSUME NEW c \in Creators, NEW e \in Executions, CreateScheduledExecution(c, e)
        PROVE  ActiveInv'
    <2>1. job[e].state = "none" /\ pc[e] = "idle"
      BY <1>3 DEF CreateScheduledExecution, LifeInv, TypeInv, AttemptsInv
    <2> QED BY <1>3, <2>1, OwnFunctions DEF CreateScheduledExecution, ActiveInv, localVars
  <1>4. ASSUME NEW c \in Creators, CheckNoneActive(c) \/ GiveUpCreating(c) PROVE ActiveInv'
    BY <1>4 DEF CheckNoneActive, GiveUpCreating, ActiveInv, rowVars, localVars
  <1>5. CASE UNCHANGED vars
    BY <1>5 DEF vars, rowVars, localVars, ActiveInv
  <1>6. ASSUME NEW e \in Executions, SetupJob(e) \/ CoordinatorJob(e) \/ Clock(e)
        PROVE  ActiveInv'
    BY <1>1, <1>2, <1>6 DEF ActiveInv
  <1> QED BY <1>3, <1>4, <1>5, <1>6 DEF Next, Create


\* What readManifestBatch returns: the rows that follow the reader, and nothing
\* only when the manifest is drained.
LEMMA RowsRead ==
  ASSUME TypeInv, NEW e \in Executions
  PROVE  /\ ReadFrom(e) \in Nat /\ Len(ReadManifestBatch(e)) \in Nat /\ Len(blob[e]) \in Nat
         /\ DOMAIN ReadManifestBatch(e) = 1 .. Len(ReadManifestBatch(e))
         /\ ReadManifestBatch(e) = <<>> => ReadFrom(e) >= Len(blob[e])
         /\ ReadManifestBatch(e) /= <<>> =>
              ReadFrom(e) + Len(ReadManifestBatch(e)) <= Len(blob[e])
         /\ \A k \in 1 .. Len(ReadManifestBatch(e)) :
              ReadManifestBatch(e)[k] = blob[e][ReadFrom(e) + k]
  <1> DEFINE r == ReadFrom(e)
             last == IF r + BatchSize < Len(blob[e]) THEN r + BatchSize ELSE Len(blob[e])
             read == SubSeq(blob[e], r + 1, last)
  <1>1. r \in Nat /\ blob[e] \in Seq(Objects) /\ Len(blob[e]) \in Nat
    BY ReadType, OwnFunctions DEF TypeInv
  <1>2. ReadManifestBatch(e) = read
    BY DEF ReadManifestBatch
  <1>3. last \in Nat /\ last <= Len(blob[e]) /\ (last > r <=> r < Len(blob[e]))
    BY <1>1, BatchSizeAssumption
  <1> HIDE DEF r, last
  <1>4. CASE last > r
    <2>1. read \in Seq(Objects) /\ Len(read) = last - r
      BY <1>1, <1>3, <1>4
    <2>2. DOMAIN read = 1 .. last - r /\ last - r > 0
      BY <1>1, <1>3, <1>4, <2>1
    <2>3. read /= <<>>
      BY <1>1, <1>3, <1>4, <2>1
    <2>4. \A k \in 1 .. last - r : read[k] = blob[e][r + k]
      BY <1>1, <1>3, <1>4
    <2>5. r + Len(read) <= Len(blob[e]) /\ Len(read) \in Nat
      BY <1>1, <1>3, <1>4, <2>1
    <2> HIDE DEF read
    <2> QED BY <1>1, <1>2, <1>4, <2>1, <2>2, <2>3, <2>4, <2>5 DEF r
  <1>5. CASE last <= r
    <2>1. read = <<>>
      BY <1>1, <1>3, <1>5
    <2>2. r >= Len(blob[e])
      BY <1>1, <1>3, <1>5
    <2> HIDE DEF read
    <2> QED BY <1>1, <1>2, <2>1, <2>2 DEF r
  <1> QED BY <1>1, <1>3, <1>4, <1>5

\* Before its setup has committed nothing has happened to an execution.
StartOK(e) == setup[e].state \in {"none", "queued", "streaming", "written", "discarded"} =>
  /\ job[e].state = "none" /\ status[e] \in {"none", "pending"}
  /\ progress[e] = NoProgress /\ log[e] = <<>>

\* The planned count is the manifest's length; the cursors say how many rows are
\* done, in the row as well as in the coordinator, which is never ahead of the row;
\* an open reader is at the cursor, or a batch past it.
CursorOK(e) ==
  /\ job[e].state /= "none" => progress[e].planned = Len(blob[e])
  /\ progress[e].offset = progress[e].rows
  /\ pc[e] /= "idle" =>
       /\ cursor[e].planned = progress[e].planned
       /\ cursor[e].offset = cursor[e].rows
       /\ cursor[e].rows <= progress[e].rows
  /\ pc[e] = "late" => cursor[e] = progress[e]
  /\ pc[e] \in {"idle", "late", "load"} => reader[e] = Closed
  /\ pc[e] = "loop" => reader[e] \in {Closed, cursor[e].offset}
  /\ pc[e] \in WithBatch => reader[e] = cursor[e].offset + Len(batch[e].ids)

\* An execution succeeds when its rows are processed, and one that failed has no
\* job left to run.
EndOK(e) ==
  /\ pc[e] = "finish" \/ status[e] = "success" => AllRowsProcessed(progress[e])
  /\ status[e] = "success" => job[e].state /= "none"
  /\ status[e] = "failure" => job[e].state \in {"none", "cancelled"}

ManifestInv == \A e \in Executions : StartOK(e) /\ CursorOK(e) /\ EndOK(e)

LEMMA ManifestInvStep ==
  ASSUME MaxReruns = 0, TypeInv, LifeInv, WorkInv, ManifestInv, [Next]_vars
  PROVE  ManifestInv'
  <1> DEFINE OK(e) == StartOK(e) /\ CursorOK(e) /\ EndOK(e)
  <1>1. ASSUME NEW e \in Executions, SetupJob(e) \/ CoordinatorJob(e) \/ Clock(e)
        PROVE  StartOK(e)' /\ CursorOK(e)' /\ EndOK(e)'
    <2>0. /\ StartOK(e) /\ CursorOK(e) /\ EndOK(e)
          /\ job[e] \in JobType /\ setup[e] \in SetupType /\ pc[e] \in Labels
          /\ progress[e] \in Progress /\ cursor[e] \in Progress
          /\ pc[e] /= "idle" => job[e].state = "running"
          /\ pc[e] = "idle" => job[e].state /= "running"
          /\ pc[e] \in WithBatch \cup {"finish"} => status[e] = "processing"
      BY OwnFunctions DEF ManifestInv, WorkInv
    <2>1. CASE StartSetup(e)
      BY <2>0, <2>1, OwnFunctions DEF StartSetup, rowVars, dataVars, localVars, Started,
         StartOK, CursorOK, EndOK,
         WithBatch, AllRowsProcessed
    <2>2. CASE StartSetupTooLate(e)
      <3>1. /\ job[e].state = "none" /\ status[e] = "pending"
            /\ progress[e] = NoProgress /\ log[e] = <<>>
        BY <2>0, <2>2 DEF StartSetupTooLate, StartOK
      <3>2. /\ UNCHANGED <<progress, dataVars, job, localVars>>
            /\ \/ status' = status
               \/ status'[e] = "failure" /\ setup'[e].state = "handled"
        BY <2>2, OwnFunctions DEF StartSetupTooLate, Started
      <3> QED BY <2>0, <3>1, <3>2 DEF dataVars, localVars, StartOK, CursorOK, EndOK,
                 WithBatch
    <2>3. CASE StreamManifest(e)
      BY <2>0, <2>3, OwnFunctions DEF StreamManifest, rowVars, localVars, SetupType,
         StartOK, CursorOK, EndOK,
         WithBatch, AllRowsProcessed
    <2>4. CASE StreamFails(e)
      BY <2>0, <2>4, OwnFunctions DEF StreamFails, rowVars, localVars, AfterError,
         StartOK, CursorOK, EndOK,
         WithBatch, AllRowsProcessed
    <2>5. CASE SetupFails(e)
      BY <2>0, <2>5, OwnFunctions DEF SetupFails, rowVars, dataVars, localVars,
         AfterError, StartOK, CursorOK, EndOK,
         WithBatch, AllRowsProcessed
    <2>6. CASE CommitSetup(e)
      <3>1. /\ job[e].state = "none" /\ pc[e] = "idle" /\ progress[e] = NoProgress
        BY <2>0, <2>6 DEF CommitSetup, StartOK
      <3>2. /\ blob' = blob /\ pc' = pc /\ reader' = reader
            /\ progress'[e] = [progress[e] EXCEPT !.planned = Len(blob[e])]
            /\ status'[e] = "processing" /\ job'[e] = EnqueueUnique(job[e])
            /\ setup'[e].state = "handled"
        BY <2>6, OwnFunctions DEF CommitSetup, SetupType, dataVars, localVars
      <3>3. progress'[e].planned = Len(blob[e]) /\ progress'[e].offset = progress'[e].rows
        BY <3>1, <3>2 DEF NoProgress
      <3> QED BY <2>0, <3>1, <3>2, <3>3 DEF StartOK, CursorOK, EndOK, WithBatch
    <2>7. CASE CompleteSetup(e)
      BY <2>0, <2>7, OwnFunctions DEF CompleteSetup, rowVars, dataVars, localVars,
         SetupType, StartOK, CursorOK, EndOK,
         WithBatch, AllRowsProcessed
    <2>8. CASE SetupRerun(e)
      BY <2>8 DEF SetupRerun, TypeInv, TypeOK, FaultsOK
    <2>9. CASE StartRun(e)
      BY <2>0, <2>9, OwnFunctions DEF StartRun, rowVars, dataVars, Started, Progress,
         StartOK, CursorOK, EndOK,
         WithBatch, AllRowsProcessed
    <2>10. CASE FinishLate(e)
      BY <2>0, <2>10, OwnFunctions DEF FinishLate, SetStatus, Goto, dataVars, StartOK,
         CursorOK, EndOK,
         WithBatch, AllRowsProcessed
    <2>11. CASE MarkFailed(e)
      BY <2>0, <2>11, OwnFunctions DEF MarkFailed, SetStatus, EndRun, rowVars, dataVars,
         JobType, StartOK, CursorOK, EndOK,
         WithBatch, AllRowsProcessed
    <2>12. CASE LoadInvariants(e)
      BY <2>0, <2>12, OwnFunctions DEF LoadInvariants, Goto, rowVars, dataVars, StartOK,
         CursorOK, EndOK,
         WithBatch, AllRowsProcessed
    <2>13. CASE Snooze(e)
      BY <2>0, <2>13, OwnFunctions DEF Snooze, EndRun, rowVars, dataVars, JobSnooze,
         StartOK, CursorOK, EndOK,
         WithBatch, AllRowsProcessed
    <2>14. CASE ExitNotProcessing(e)
      BY <2>0, <2>14, OwnFunctions DEF ExitNotProcessing, Goto, rowVars, dataVars,
         StartOK, CursorOK, EndOK,
         WithBatch, AllRowsProcessed
    <2>15. CASE LoopDone(e)
      <3>1. /\ status' = status /\ job' = job /\ setup' = setup /\ progress' = progress
            /\ blob' = blob /\ log' = log /\ cursor' = cursor /\ reader' = reader
            /\ pc[e] = "loop" /\ pc'[e] = "finish" /\ status[e] = "processing"
            /\ AllRowsProcessed(cursor[e]) \/ ReadManifestBatch(e) = <<>>
        BY <2>15, OwnFunctions DEF LoopDone, ContinueLoop, Goto, rowVars, dataVars
      <3>2. ReadFrom(e) = cursor[e].offset /\ job[e].state = "running"
        BY <2>0, <3>1 DEF ReadFrom, CursorOK
      <3>3. ReadManifestBatch(e) = <<>> => cursor[e].offset >= Len(blob[e])
        BY <3>2, RowsRead
      <3>4. cursor[e].rows >= progress[e].planned
        BY <2>0, <3>1, <3>2, <3>3 DEF CursorOK, AllRowsProcessed, Progress
      <3>5. AllRowsProcessed(progress[e])
        BY <2>0, <3>1, <3>4 DEF CursorOK, AllRowsProcessed, Progress
      <3> QED BY <2>0, <3>1, <3>5 DEF StartOK, CursorOK, EndOK, WithBatch
    <2>16. CASE ReadBatch(e)
      <3>1. /\ status' = status /\ job' = job /\ setup' = setup /\ progress' = progress
            /\ blob' = blob /\ log' = log /\ cursor' = cursor
            /\ pc[e] = "loop" /\ pc'[e] = "filter"
            /\ reader'[e] = ReadFrom(e) + Len(ReadManifestBatch(e))
            /\ batch'[e].ids = ReadManifestBatch(e)
        BY <2>16, OwnFunctions DEF ReadBatch, ContinueLoop, BatchType, rowVars, dataVars
      <3>2. ReadFrom(e) = cursor[e].offset
        BY <2>0, <3>1 DEF ReadFrom, CursorOK
      <3> QED BY <2>0, <3>1, <3>2 DEF StartOK, CursorOK, EndOK, WithBatch
    <2>17. CASE FilterAlreadyScored(e)
      <3>1. batch'[e].ids = batch[e].ids
        BY <2>17, OwnFunctions DEF FilterAlreadyScored, BatchType
      <3> QED BY <2>0, <2>17, <3>1, OwnFunctions DEF FilterAlreadyScored, StartOK, CursorOK,
              EndOK, WithBatch, rowVars, dataVars
    <2>18. CASE EvaluateBatch(e)
      <3>1. batch'[e].ids = batch[e].ids
        BY <2>18, OwnFunctions DEF EvaluateBatch, BatchType
      <3>2. /\ pc[e] = "evaluate" /\ pc'[e] = "commit"
            /\ UNCHANGED <<rowVars, dataVars, setup, job, reader, cursor>>
        BY <2>18, OwnFunctions DEF EvaluateBatch
      <3> QED BY <2>0, <3>1, <3>2 DEF StartOK, CursorOK, EndOK, WithBatch, rowVars, dataVars
    <2>19. CASE BatchFails(e)
      BY <2>0, <2>19, OwnFunctions DEF BatchFails, RetryBatch, ResetManifestReader,
         rowVars, dataVars, ContinueLoop, StartOK, CursorOK, EndOK,
         WithBatch, AllRowsProcessed
    <2>20. CASE CommitBatch(e)
      <3>1. /\ status' = status /\ job' = job /\ setup' = setup /\ blob' = blob
            /\ reader' = reader /\ pc[e] = "commit" /\ pc'[e] = "loop"
            /\ progress'[e] = Advanced(e, progress[e].planned)
            /\ cursor'[e] = Advanced(e, cursor[e].planned)
        BY <2>20, OwnFunctions DEF CommitBatch, ApplyBatch
      <3>2. /\ progress'[e].planned = progress[e].planned
            /\ cursor'[e].planned = cursor[e].planned
            /\ progress'[e].offset = cursor[e].offset + Len(batch[e].ids)
            /\ progress'[e].rows = cursor[e].rows + Len(batch[e].ids)
            /\ cursor'[e].offset = cursor[e].offset + Len(batch[e].ids)
            /\ cursor'[e].rows = cursor[e].rows + Len(batch[e].ids)
        BY <3>1 DEF Advanced
      <3>3. Len(batch[e].ids) \in Nat
        BY OwnFunctions DEF BatchType
      <3>4. job[e].state = "running" /\ setup[e].state \in {"handled", "completed"}
        BY <2>0, <3>1 DEF StartOK, SetupType
      <3> QED BY <2>0, <3>1, <3>2, <3>3, <3>4 DEF StartOK, CursorOK, EndOK, WithBatch,
                 Progress
    <2>21. CASE CommitAmbiguous(e)
      <3>1. /\ status' = status /\ job' = job /\ setup' = setup /\ blob' = blob
            /\ reader'[e] = Closed /\ pc[e] = "commit" /\ pc'[e] = "loop"
            /\ progress'[e] = Advanced(e, progress[e].planned)
            /\ cursor' = cursor
        BY <2>21, OwnFunctions DEF CommitAmbiguous, ApplyBatch, RetryBatch,
           ResetManifestReader
      <3>2. /\ progress'[e].planned = progress[e].planned
            /\ progress'[e].offset = cursor[e].offset + Len(batch[e].ids)
            /\ progress'[e].rows = cursor[e].rows + Len(batch[e].ids)
        BY <3>1 DEF Advanced
      <3>3. Len(batch[e].ids) \in Nat
        BY OwnFunctions DEF BatchType
      <3>4. job[e].state = "running" /\ setup[e].state \in {"handled", "completed"}
        BY <2>0, <3>1 DEF StartOK, SetupType
      <3> QED BY <2>0, <3>1, <3>2, <3>3, <3>4 DEF StartOK, CursorOK, EndOK, WithBatch,
                 Progress
    <2>22. CASE FinishSuccess(e)
      BY <2>0, <2>22, OwnFunctions DEF FinishSuccess, SetStatus, Goto, dataVars, StartOK,
         CursorOK, EndOK,
         WithBatch, AllRowsProcessed
    <2>23. CASE CompleteRun(e)
      BY <2>0, <2>23, OwnFunctions DEF CompleteRun, EndRun, rowVars, dataVars, JobType,
         StartOK, CursorOK, EndOK,
         WithBatch, AllRowsProcessed
    <2>24. CASE RunFails(e)
      BY <2>0, <2>24, OwnFunctions DEF RunFails, EndRun, rowVars, dataVars, AfterError,
         StartOK, CursorOK, EndOK,
         WithBatch, AllRowsProcessed
    <2>25. CASE InitiationTimeout(e)
      BY <2>0, <2>25, OwnFunctions DEF InitiationTimeout, dataVars, localVars, StartOK,
         CursorOK, EndOK,
         WithBatch, AllRowsProcessed
    <2>26. CASE DeadlinePasses(e)
      BY <2>0, <2>26, OwnFunctions DEF DeadlinePasses, dataVars, localVars, StartOK,
         CursorOK, EndOK,
         WithBatch, AllRowsProcessed
    <2>27. CASE SliceTimeout(e)
      BY <2>0, <2>27, OwnFunctions DEF SliceTimeout, rowVars, dataVars, StartOK, CursorOK,
         EndOK,
         WithBatch, AllRowsProcessed
    <2> QED BY <1>1, <2>1, <2>2, <2>3, <2>4, <2>5, <2>6, <2>7, <2>8, <2>9, <2>10, <2>11,
               <2>12, <2>13, <2>14, <2>15, <2>16, <2>17, <2>18, <2>19, <2>20, <2>21,
               <2>22, <2>23, <2>24, <2>25, <2>26, <2>27
         DEF SetupJob, CoordinatorJob, Clock
  <1>2. ASSUME NEW e \in Executions, SetupJob(e) \/ CoordinatorJob(e) \/ Clock(e),
               NEW f \in Executions \ {e}
        PROVE  StartOK(f)' /\ CursorOK(f)' /\ EndOK(f)'
    BY <1>2, OthersAlone DEF Own, ManifestInv, StartOK, CursorOK, EndOK
  <1>3. ASSUME NEW c \in Creators, NEW e \in Executions, CreateScheduledExecution(c, e)
        PROVE  ManifestInv'
    BY <1>3, OwnFunctions DEF CreateScheduledExecution, LifeInv, ManifestInv, StartOK,
       CursorOK, EndOK, localVars, dataVars
  <1>4. ASSUME NEW c \in Creators, CheckNoneActive(c) \/ GiveUpCreating(c)
        PROVE  ManifestInv'
    BY <1>4 DEF CheckNoneActive, GiveUpCreating, ManifestInv, StartOK, CursorOK, EndOK,
       rowVars, localVars, dataVars
  <1>5. CASE UNCHANGED vars
    BY <1>5 DEF vars, rowVars, localVars, dataVars, ManifestInv, StartOK, CursorOK, EndOK
  <1>6. ASSUME NEW e \in Executions, SetupJob(e) \/ CoordinatorJob(e) \/ Clock(e)
        PROVE  ManifestInv'
    BY <1>1, <1>2, <1>6 DEF ManifestInv
  <1> QED BY <1>3, <1>4, <1>5, <1>6 DEF Next, Create


-----------------------------------------------------------------------------
(* The end of an execution, and the ledger.                                *)

LEMMA LifeFacts ==
  /\ Init => WorkInv /\ ManifestInv /\ ActiveInv
  /\ MaxReruns = 0 =>
       (DedupInv /\ WorkInv /\ ManifestInv /\ [Next]_vars => ManifestInv')
  /\ MaxCoordinatorAttempts = 1 =>
       (DedupInv /\ ActiveInv /\ [Next]_vars => ActiveInv')
  /\ DedupInv /\ WorkInv /\ [Next]_vars => WorkInv'
  <1>1. ASSUME Init PROVE WorkInv /\ ManifestInv /\ ActiveInv
    <2>1. WorkInv /\ ActiveInv
      BY <1>1 DEF Init, WorkInv, ActiveInv, WithBatch
    <2>2. ManifestInv
      BY <1>1 DEF Init, ManifestInv, StartOK, CursorOK, EndOK, WithBatch, NoProgress
    <2> QED BY <2>1, <2>2
  <1> QED BY <1>1, WorkInvStep, ActiveInvStep, ManifestInvStep DEF DedupInv

\* The executions that have ended once stay so if no setup runs again and the
\* table stays; and, whatever happens, if the coordinator has one attempt.
EndsOnce == MaxCoordinatorAttempts = 1 \/ (MaxReruns = 0 /\ ~TableMayDisappear)

LifeOnceInv ==
  /\ DedupInv /\ WorkInv
  /\ MaxReruns = 0 => ManifestInv
  /\ MaxCoordinatorAttempts = 1 => ActiveInv

LEMMA LifeOnceInvInit == Init => LifeOnceInv
  BY DedupInvInit, LifeFacts DEF LifeOnceInv

LEMMA LifeOnceInvStep == LifeOnceInv /\ [Next]_vars => LifeOnceInv'
  <1> SUFFICES ASSUME LifeOnceInv, [Next]_vars PROVE LifeOnceInv'
    OBVIOUS
  <1>1. DedupInv' /\ WorkInv'
    BY DedupInvStep, LifeFacts DEF LifeOnceInv
  <1>2. MaxReruns = 0 => ManifestInv'
    BY LifeFacts DEF LifeOnceInv
  <1>3. MaxCoordinatorAttempts = 1 => ActiveInv'
    BY LifeFacts DEF LifeOnceInv
  <1> QED BY <1>1, <1>2, <1>3 DEF LifeOnceInv

\* What the steps of a job do to the status of their execution: it is started by
\* its setup, closed while it is active, and otherwise left alone.
Starts(e) ==
  /\ setup[e].state = "written" /\ status[e] /= "none"
  /\ status' = [status EXCEPT ![e] = "processing"]
  /\ UNCHANGED <<dedup, log>>

Closes(e) ==
  /\ \/ status[e] = "processing" /\ \E s \in Terminal : status' = [status EXCEPT ![e] = s]
     \/ status[e] = "pending" /\ status' = [status EXCEPT ![e] = "failure"]
  /\ UNCHANGED <<dedup, log>>

\* A coordinator that writes how its execution ended finds it processing, or finds
\* the same end.
LEMMA ClosingOnce ==
  ASSUME EndsOnce, LifeOnceInv, NEW e \in Executions,
         FinishLate(e) \/ FinishSuccess(e) \/ MarkFailed(e)
  PROVE  Closes(e) \/ UNCHANGED <<status, dedup, log>>
  <1>1. /\ status \in [Executions -> Active \cup Terminal \cup {"none"}]
        /\ progress \in [Executions -> Progress]
        /\ TypeInv /\ LifeInv /\ WorkInv /\ ScoredInv
        /\ pc[e] /= "idle" => job[e].state = "running" /\ status[e] /= "none"
    BY OwnFunctions DEF LifeOnceInv, DedupInv, TypeInv, AttemptsInv, LifeInv
  <1>2. CASE FinishSuccess(e)
    BY <1>1, <1>2 DEF FinishSuccess, SetStatus, WorkInv, Closes, Terminal, dataVars
  <1>3. CASE MaxCoordinatorAttempts = 1 /\ (FinishLate(e) \/ MarkFailed(e))
    <2>1. status[e] = "processing"
      BY <1>3 DEF LifeOnceInv, ActiveInv, FinishLate, MarkFailed
    <2> QED BY <1>3, <2>1 DEF FinishLate, MarkFailed, SetStatus, Closes, Terminal,
               rowVars, dataVars
  <1>4. CASE MaxReruns = 0 /\ ~TableMayDisappear /\ (FinishLate(e) \/ MarkFailed(e))
    <2>1. pc[e] = "late" /\ StartOK(e) /\ CursorOK(e) /\ EndOK(e)
      BY <1>4 DEF LifeOnceInv, ManifestInv, FinishLate, MarkFailed
    <2>2. cursor[e] = progress[e] /\ status[e] \in {"pending", "processing", "success"}
      BY <1>1, <2>1 DEF CursorOK, EndOK, Active, Terminal
    <2>3. status[e] /= "pending"
      BY <1>1, <2>1 DEF WorkInv
    <2>4. CASE status[e] = "success"
      <3>1. AllRowsProcessed(cursor[e])
        BY <2>1, <2>2, <2>4 DEF EndOK
      <3>2. FinishLate(e)
        BY <1>4, <3>1 DEF MarkFailed
      <3> QED BY <1>1, <2>4, <3>2 DEF FinishLate, SetStatus, dataVars
    <2>5. CASE status[e] = "processing"
      BY <1>4, <2>5 DEF FinishLate, MarkFailed, SetStatus, Closes, Terminal, rowVars,
         dataVars
    <2> QED BY <2>2, <2>3, <2>4, <2>5
  <1> QED BY <1>2, <1>3, <1>4 DEF EndsOnce


\* What a step does to the statuses and to what the executions committed.
LEMMA StatusSteps ==
  ASSUME EndsOnce, LifeOnceInv, [Next]_vars
  PROVE  \/ UNCHANGED <<status, dedup, log>>
         \/ \E e \in Executions : Starts(e) \/ Closes(e)
         \/ \E e \in Executions : pc[e] = "commit" /\ ApplyBatch(e)
         \/ \E c \in Creators, e \in Executions : CreateScheduledExecution(c, e)
  <1> DEFINE Same == UNCHANGED <<status, dedup, log>>
  <1>1. ASSUME NEW e \in Executions, SetupJob(e) PROVE Same \/ Starts(e) \/ Closes(e)
    <2>1. CASE CommitSetup(e)
      <3>1. status[e] /= "none"
        BY <2>1 DEF CommitSetup, LifeOnceInv, DedupInv, LifeInv
      <3> QED BY <2>1, <3>1 DEF CommitSetup, Starts, dataVars
    <2>2. CASE StartSetupTooLate(e)
      BY <2>2 DEF StartSetupTooLate, Closes, dataVars
    <2>3. CASE ~CommitSetup(e) /\ ~StartSetupTooLate(e)
      BY <1>1, <2>3 DEF SetupJob, StartSetup, StreamManifest, StreamFails, SetupFails,
         CompleteSetup, SetupRerun, rowVars, dataVars
    <2> QED BY <2>1, <2>2, <2>3
  <1>2. ASSUME NEW e \in Executions, CoordinatorJob(e)
        PROVE  Same \/ Closes(e) \/ (pc[e] = "commit" /\ ApplyBatch(e))
    <2>1. CASE FinishLate(e) \/ FinishSuccess(e) \/ MarkFailed(e)
      BY <2>1, ClosingOnce
    <2>2. CASE CommitBatch(e) \/ CommitAmbiguous(e)
      BY <2>2 DEF CommitBatch, CommitAmbiguous
    <2>3. CASE /\ ~(FinishLate(e) \/ FinishSuccess(e) \/ MarkFailed(e))
               /\ ~(CommitBatch(e) \/ CommitAmbiguous(e))
      BY <1>2, <2>3 DEF CoordinatorJob, StartRun, LoadInvariants, Snooze, ExitNotProcessing,
         LoopDone, ReadBatch, FilterAlreadyScored, EvaluateBatch, BatchFails, CompleteRun,
         RunFails, rowVars, dataVars
    <2> QED BY <2>1, <2>2, <2>3
  <1>3. ASSUME NEW e \in Executions, Clock(e) PROVE Same
    BY <1>3 DEF Clock, InitiationTimeout, DeadlinePasses, SliceTimeout, rowVars, dataVars
  <1>4. ASSUME Create
        PROVE  \/ Same
               \/ \E c \in Creators, e \in Executions : CreateScheduledExecution(c, e)
    BY <1>4 DEF Create, CheckNoneActive, GiveUpCreating, rowVars, dataVars
  <1>5. CASE UNCHANGED vars
    BY <1>5 DEF vars, rowVars, dataVars
  <1> QED BY <1>1, <1>2, <1>3, <1>4, <1>5 DEF Next

\* The end of an execution stays, as long as no setup runs again and the trigger
\* table does not disappear: the last status write wins in the code, and what
\* keeps a late coordinator from changing it is that it finds its rows processed.
THEOREM EndsStay ==
  ASSUME MaxReruns = 0, ~TableMayDisappear
  PROVE  Spec => EndStays
  <1>1. ASSUME LifeOnceInv, [Next]_vars, NEW e \in Executions, status[e] \in Terminal
        PROVE  status'[e] = status[e]
    <2>1. /\ status \in [Executions -> Active \cup Terminal \cup {"none"}]
          /\ EndsOnce /\ StartOK(e)
      BY <1>1, OwnFunctions DEF EndsOnce, LifeOnceInv, DedupInv, ManifestInv
    <2>2. ASSUME NEW f \in Executions, Starts(f) \/ Closes(f) PROVE f /= e
      BY <1>1, <2>1, <2>2 DEF Starts, Closes, StartOK, Terminal
    <2>3. ASSUME NEW f \in Executions, Starts(f) \/ Closes(f) PROVE status'[e] = status[e]
      BY <2>1, <2>2, <2>3 DEF Starts, Closes
    <2>4. ASSUME NEW f \in Executions, ApplyBatch(f) PROVE status'[e] = status[e]
      BY <2>4 DEF ApplyBatch
    <2>5. ASSUME NEW c \in Creators, NEW f \in Executions, CreateScheduledExecution(c, f)
          PROVE  status'[e] = status[e]
      BY <1>1, <2>1, <2>5 DEF CreateScheduledExecution, Terminal
    <2> QED BY <1>1, <2>1, <2>3, <2>4, <2>5, StatusSteps
  <1>2. LifeOnceInv /\ [Next]_vars =>
          [\A e \in Executions : status[e] \in Terminal => status'[e] = status[e]]_vars
    BY <1>1
  <1> QED BY <1>2, LifeOnceInvInit, LifeOnceInvStep, PTL DEF Spec, EndStays

\* The rows a commit adds to the ledger are the batch's.
LEMMA AddedIsBatch ==
  ASSUME TypeInv, NEW e \in Executions, pc[e] = "commit", ApplyBatch(e)
  PROVE  Ledger!Added(e) = BatchLog(e) /\ log' = [log EXCEPT ![e] = log[e] \o BatchLog(e)]
  <1>1. log[e] \in Seq(Entry) /\ BatchLog(e) \in Seq(Entry)
    BY OwnFunctions, BatchIsTyped
  <1>2. log' = [log EXCEPT ![e] = log[e] \o BatchLog(e)]
    BY DEF ApplyBatch
  <1>3. log'[e] = log[e] \o BatchLog(e)
    BY <1>2, OwnFunctions
  <1> DEFINE s == log[e]
             t == BatchLog(e)
  <1>4. Len(s) \in Nat /\ Len(t) \in Nat /\ Len(s \o t) = Len(s) + Len(t)
    BY <1>1
  <1>5. SubSeq(s \o t, Len(s) + 1, Len(s \o t)) = t
    <2>1. s \in Seq(Entry) /\ t \in Seq(Entry) /\ s \o t \in Seq(Entry)
      BY <1>1
    <2> HIDE DEF s, t
    <2>2. /\ SubSeq(s \o t, Len(s) + 1, Len(s) + Len(t)) \in Seq(Entry)
          /\ Len(SubSeq(s \o t, Len(s) + 1, Len(s) + Len(t))) = Len(t)
      BY <1>4, <2>1
    <2>3. \A i \in 1 .. Len(t) : SubSeq(s \o t, Len(s) + 1, Len(s) + Len(t))[i] = t[i]
      BY <1>4, <2>1
    <2> DEFINE u == SubSeq(s \o t, Len(s) + 1, Len(s) + Len(t))
    <2> HIDE DEF u
    <2>4. u \in Seq(Entry) /\ Len(u) = Len(t) /\ \A i \in 1 .. Len(t) : u[i] = t[i]
      BY <2>2, <2>3 DEF u
    <2>5. u = t
      BY <2>1, <2>4
    <2> QED BY <1>4, <2>5 DEF u
  <1> QED BY <1>2, <1>3, <1>5 DEF Ledger!Added

\* A deduplicated execution records first evaluations only.
LEMMA RecordsFresh ==
  ASSUME TypeInv, DistinctInv, ScoredInv, NEW e \in Executions, pc[e] = "commit", dedup[e]
  PROVE  Ledger!AllFresh(BatchLog(e))
  <1> DEFINE t == BatchLog(e)
             n == Len(batch[e].ids)
  <1>1. /\ batch[e].ids \in Seq(Objects) /\ n \in Nat
        /\ DOMAIN batch[e].ids = 1 .. n
        /\ DOMAIN t = 1 .. n
        /\ \A i \in 1 .. n : t[i] = [object |-> batch[e].ids[i], outcome |-> Outcome(e, i)]
    BY OwnFunctions DEF BatchType, BatchLog
  <1> HIDE DEF t, n
  <1>2. ASSUME NEW i \in Ledger!EvaluationRows(t)
        PROVE  /\ i \in 1 .. n /\ t[i].object = batch[e].ids[i]
               /\ batch[e].ids[i] \notin scored
    <2>1. i \in 1 .. n /\ t[i].outcome \in Evaluated
      BY <1>1 DEF Ledger!EvaluationRows, Ledger!Evaluations, Evaluated
    <2>2. t[i].object = batch[e].ids[i] /\ Outcome(e, i) \in Evaluated
      BY <1>1, <2>1
    <2>3. batch[e].ids[i] \in Claimed(e)
      BY <2>1, <2>2, OutcomeAndClaim DEF n
    <2> QED BY <2>1, <2>2, <2>3 DEF Claimed
  <1>3. ASSUME NEW i \in Ledger!EvaluationRows(t)
        PROVE  ~Ledger!EvaluatedBefore(t[i].object)
    BY <1>2 DEF ScoredInv, EvaluatedRows, Evaluated, Ledger!EvaluatedBefore,
       Ledger!EvaluationRows, Ledger!Evaluations
  <1>4. ASSUME NEW i \in Ledger!EvaluationRows(t), NEW j \in Ledger!EvaluationRows(t),
               t[i].object = t[j].object
        PROVE  i = j
    BY <1>1, <1>2, <1>4 DEF DistinctInv, Injective
  <1>5. Ledger!AllFresh(t)
    BY <1>3, <1>4 DEF Ledger!AllFresh
  <1> QED BY <1>5 DEF t

\* The executions implement the ledger: whatever the interleavings, crashes,
\* retries, snoozes and lost answers, each execution goes through its life in
\* order, what it commits is recorded in whole batches while it is processing, and
\* a deduplicated one only records first evaluations.  Manifests hold an object
\* once, and ends are written once (EndsOnce).
THEOREM LedgerImplemented ==
  ASSUME DistinctIds, EndsOnce
  PROVE  Spec => RefinesLedger
  <1> DEFINE Inv == LifeOnceInv /\ DistinctInv
  <1>1. Init => Inv
    BY LifeOnceInvInit, EmptyValues DEF Init, DistinctInv, Injective
  <1>2. Inv /\ [Next]_vars => Inv'
    BY LifeOnceInvStep, DistinctInvStep DEF LifeOnceInv, DedupInv
  <1>3. Init => Ledger!LedgerInit
    BY DEF Init, Ledger!LedgerInit
  <1>4. ASSUME Inv, [Next]_vars
        PROVE  [Ledger!LedgerNext]_(Ledger!ledgerVars)
    <2>1. /\ status \in [Executions -> Active \cup Terminal \cup {"none"}]
          /\ log \in [Executions -> Seq(Entry)]
          /\ TypeInv /\ ScoredInv /\ WorkInv /\ DistinctInv
      BY <1>4, OwnFunctions DEF LifeOnceInv, DedupInv
    <2>2. CASE UNCHANGED <<status, dedup, log>>
      BY <2>2 DEF Ledger!ledgerVars
    <2>3. ASSUME NEW e \in Executions, Starts(e) PROVE Ledger!LedgerNext
      <3>1. Ledger!Begin(e) \/ Ledger!BeginAgain(e)
        BY <2>3 DEF Starts, Ledger!Begin, Ledger!BeginAgain
      <3> QED BY <3>1 DEF Ledger!LedgerNext
    <2>4. ASSUME NEW e \in Executions, Closes(e) PROVE Ledger!LedgerNext
      <3>1. Ledger!Close(e)
        BY <2>4 DEF Closes, Terminal, Ledger!Close
      <3> QED BY <3>1 DEF Ledger!LedgerNext
    <2>5. ASSUME NEW e \in Executions, pc[e] = "commit", ApplyBatch(e)
          PROVE  Ledger!LedgerNext
      <3>1. status[e] = "processing" /\ UNCHANGED <<status, dedup>>
        BY <2>1, <2>5 DEF WorkInv, WithBatch, ApplyBatch
      <3>2. log' = [log EXCEPT ![e] = @ \o Ledger!Added(e)]
        BY <2>1, <2>5, AddedIsBatch
      <3>3. dedup[e] => Ledger!AllFresh(Ledger!Added(e))
        BY <2>1, <2>5, AddedIsBatch, RecordsFresh
      <3>4. Ledger!Record(e)
        BY <3>1, <3>2, <3>3 DEF Ledger!Record
      <3> QED BY <3>4 DEF Ledger!LedgerNext
    <2>6. ASSUME NEW c \in Creators, NEW e \in Executions, CreateScheduledExecution(c, e)
          PROVE  Ledger!LedgerNext
      <3>1. Ledger!Open(e)
        BY <2>6 DEF CreateScheduledExecution, Ledger!Open, dataVars
      <3> QED BY <3>1 DEF Ledger!LedgerNext
    <2>7. LifeOnceInv
      BY <1>4
    <2> QED BY <1>4, <2>2, <2>3, <2>4, <2>5, <2>6, <2>7, StatusSteps
  <1>5. Inv /\ [Next]_vars => [Ledger!LedgerNext]_(Ledger!ledgerVars)
    BY <1>4
  <1> QED BY <1>1, <1>2, <1>3, <1>5, PTL DEF Spec, RefinesLedger, Ledger!LedgerSpec


-----------------------------------------------------------------------------
(* The outcomes follow the manifest.                                       *)

\* Rows that a count adds after the first m: those of the batch, moved by m.
Moved(m, B) == {m + k : k \in B}

\* The rows up to the n-th, and what adding those of a batch to a count gives.
Upto(n) == 1 .. n
AddsUp(m, A, B) == Cardinality(A \cup Moved(m, B)) = Cardinality(A) + Cardinality(B)

LEMMA CountAppended ==
  ASSUME NEW m \in Nat, NEW n \in Nat, NEW A \in SUBSET Upto(m), NEW B \in SUBSET Upto(n)
  PROVE  AddsUp(m, A, B)
  <1> DEFINE C == Moved(m, B)
             f == [k \in B |-> m + k]
  <1>1. IsFiniteSet(A) /\ IsFiniteSet(B)
    <2>1. IsFiniteSet(1 .. m) /\ IsFiniteSet(1 .. n)
      BY FS_Interval
    <2> QED BY <2>1, FS_Subset DEF Upto
  <1>2. \A k \in B : k \in Nat /\ k >= 1
    BY DEF Upto
  <1>3. f \in Bijection(B, C)
    <2>1. f \in [B -> C]
      BY DEF Moved
    <2>2. ASSUME NEW j \in B, NEW k \in B, f[j] = f[k] PROVE j = k
      <3>1. m + j = m + k
        BY <2>2
      <3> QED BY <1>2, <3>1
    <2>3. \A c \in C : \E k \in B : f[k] = c
      BY DEF Moved
    <2> QED BY <2>1, <2>2, <2>3 DEF Bijection, Injection, Surjection, IsInjective
  <1>4. IsFiniteSet(C) /\ Cardinality(C) = Cardinality(B)
    BY <1>1, <1>3, FS_Bijection DEF ExistsBijection
  <1>5. A \cap C = {}
    BY <1>2 DEF Moved, Upto
  <1>6. Cardinality(A \cap C) = 0
    BY <1>5, FS_EmptySet
  <1>7. Cardinality(A \cup C) = Cardinality(A) + Cardinality(C) - Cardinality(A \cap C)
    BY <1>1, <1>4, FS_Union
  <1>8. Cardinality(A) \in Nat /\ Cardinality(B) \in Nat
    BY <1>1, FS_CardinalityType
  <1> QED BY <1>4, <1>6, <1>7, <1>8 DEF AddsUp

\* The rows of an execution that were decided, and those that were evaluated.
Decided(rows) == {i \in DOMAIN rows : rows[i].outcome = "decision"}
NotPrefiltered(rows) == {i \in DOMAIN rows : rows[i].outcome /= "prefiltered"}

\* The rows stand for the first ids of the manifest.
FirstOf(rows, manifest) ==
  Len(rows) <= Len(manifest) /\ \A i \in DOMAIN rows : manifest[i] = rows[i].object

\* The ids follow the first n ids of the manifest.
Follow(ids, n, manifest) ==
  /\ n + Len(ids) <= Len(manifest)
  /\ \A k \in 1 .. Len(ids) : manifest[n + k] = ids[k]

\* A row has a verdict exactly if it was to be evaluated.
VerdictsOK(b) ==
  \A k \in 1 .. Len(b.ids) : b.verdict[k] = "prefiltered" <=> k \notin b.toEvaluate

\* The cursor and the counters in the row say what was committed, and the rows
\* committed are the first of the manifest.
RowsOK(e) ==
  /\ progress[e].rows = Len(log[e]) /\ FirstOf(log[e], blob[e])
  /\ progress[e].created = Cardinality(Decided(log[e]))
  /\ progress[e].evaluated = Cardinality(NotPrefiltered(log[e]))

\* The coordinator's cursors are the row's, and its batch is what comes next.
NextBatchOK(e) ==
  /\ pc[e] /= "idle" => cursor[e] = progress[e]
  /\ pc[e] \in WithBatch => Follow(batch[e].ids, Len(log[e]), blob[e])
  /\ pc[e] = "commit" => VerdictsOK(batch[e])

LogInv == \A e \in Executions : RowsOK(e) /\ NextBatchOK(e)

LEMMA LengthOfSum ==
  ASSUME NEW S, NEW s \in Seq(S), NEW t \in Seq(S)
  PROVE  Len(s \o t) = Len(s) + Len(t)
  OBVIOUS

\* A row of the log after a commit is an old one or one of the batch's.
LEMMA RowsAfter ==
  ASSUME NEW m \in Nat, NEW n \in Nat, NEW i \in 1 .. m + n, i \notin 1 .. m
  PROVE  \E k \in 1 .. n : i = m + k
  <1>1. i - m \in 1 .. n /\ i = m + (i - m)
    <2>1. i \in Nat /\ 1 <= i /\ i <= m + n
      BY IntervalOfSum
    <2>2. i > m
      BY <2>1
    <2> QED BY <2>1, <2>2
  <1> QED BY <1>1

\* Committing a batch that comes next keeps the row's counts true.
LEMMA CountsCommitted ==
  ASSUME TypeInv, NEW e \in Executions, pc[e] = "commit", ApplyBatch(e),
         CursorOK(e), RowsOK(e), NextBatchOK(e)
  PROVE  RowsOK(e)'
  <1> DEFINE m == Len(log[e])
             n == Len(batch[e].ids)
             ids == batch[e].ids
             todo == batch[e].toEvaluate
             new == log'[e]
             old == log[e]
  <1>1. /\ m \in Nat /\ n \in Nat /\ todo \subseteq 1 .. n
        /\ DOMAIN old = 1 .. m /\ DOMAIN new = 1 .. m + n
        /\ \A i \in 1 .. m : new[i] = old[i]
    BY AppendedLog DEF TypeInv, BatchInv
  <1>a. ASSUME NEW k \in 1 .. n
        PROVE  new[m + k].object = ids[k] /\ new[m + k].outcome = Outcome(e, k)
    <2>1. \A l \in 1 .. n : new[m + l] = [object |-> ids[l], outcome |-> Outcome(e, l)]
      BY AppendedLog
    <2> HIDE DEF m, n, new, ids
    <2>2. new[m + k] = [object |-> ids[k], outcome |-> Outcome(e, k)]
      BY <1>1, <2>1
    <2> QED BY <2>2
  <1>2. Len(new) = m + n
    <2>1. new = old \o BatchLog(e)
      BY OwnFunctions DEF ApplyBatch
    <2>2. old \in Seq(Entry) /\ BatchLog(e) \in Seq(Entry) /\ Len(BatchLog(e)) = n
      BY BatchIsTyped, OwnFunctions, <1>1 DEF BatchLog
    <2>3. m \in Nat /\ n \in Nat /\ Len(old) = m
      BY <1>1
    <2>4. Len(old \o BatchLog(e)) = Len(old) + Len(BatchLog(e))
      BY <2>2, LengthOfSum
    <2> HIDE DEF m, n, old, new
    <2> QED BY <2>1, <2>2, <2>3, <2>4
  <1>3. /\ progress'[e] = Advanced(e, progress[e].planned) /\ blob' = blob
        /\ progress[e] = cursor[e] /\ progress[e].rows = m
    BY OwnFunctions DEF ApplyBatch, RowsOK, NextBatchOK
  <1>4. /\ progress'[e].rows = m + n
        /\ progress'[e].created =
             Cardinality(Decided(old)) + Cardinality({k \in 1 .. n : Outcome(e, k) = "decision"})
        /\ progress'[e].evaluated = Cardinality(NotPrefiltered(old)) + Cardinality(todo)
    BY <1>3 DEF Advanced, BatchCreated, RowsOK
  <1>5. Follow(ids, m, blob[e]) /\ FirstOf(old, blob[e])
    BY DEF RowsOK, NextBatchOK, WithBatch
  <1>6. ASSUME NEW k \in 1 .. n PROVE Outcome(e, k) /= "prefiltered" <=> k \in todo
    BY DEF Outcome, NextBatchOK, VerdictsOK
  <1> HIDE DEF m, n, ids, todo, new, old
  <1>7. ASSUME NEW i \in DOMAIN new PROVE i \in 1 .. m \/ \E k \in 1 .. n : i = m + k
    <2>1. m \in Nat /\ n \in Nat /\ i \in 1 .. m + n
      BY <1>1
    <2>2. CASE i \notin 1 .. m
      BY <2>1, <2>2, RowsAfter
    <2> QED BY <2>2
  <1>8. FirstOf(new, blob[e])
    <2>1. m + n <= Len(blob[e]) /\ n = Len(ids)
      BY <1>5 DEF Follow, n, ids
    <2>2. ASSUME NEW i \in DOMAIN new PROVE blob[e][i] = new[i].object
      <3>1. CASE i \in 1 .. m
        BY <1>1, <1>5, <3>1 DEF FirstOf
      <3>2. ASSUME NEW k \in 1 .. n, i = m + k PROVE blob[e][i] = new[i].object
        <4>1. blob[e][m + k] = ids[k]
          BY <1>5, <2>1 DEF Follow
        <4> QED BY <1>a, <3>2, <4>1
      <3> QED BY <1>7, <3>1, <3>2
    <2> QED BY <1>2, <2>1, <2>2 DEF FirstOf
  <1>9. Cardinality(Decided(new)) =
          Cardinality(Decided(old)) + Cardinality({k \in 1 .. n : Outcome(e, k) = "decision"})
    <2> DEFINE kept == Decided(old)
               made == {k \in 1 .. n : Outcome(e, k) = "decision"}
    <2>1. kept \subseteq 1 .. m /\ made \subseteq 1 .. n
      BY <1>1 DEF Decided
    <2>2. ASSUME NEW i \in Decided(new) PROVE i \in kept \/ \E k \in made : i = m + k
      <3>1. i \in DOMAIN new /\ new[i].outcome = "decision"
        BY DEF Decided
      <3>2. CASE i \in 1 .. m
        BY <1>1, <3>1, <3>2 DEF Decided
      <3>3. ASSUME NEW k \in 1 .. n, i = m + k PROVE k \in made
        BY <1>a, <3>1, <3>3
      <3> QED BY <1>7, <3>1, <3>2, <3>3
    <2>3. ASSUME NEW i \in kept PROVE i \in Decided(new)
      <3>1. i \in 1 .. m /\ i \in 1 .. m + n /\ old[i].outcome = "decision"
        BY <1>1 DEF Decided
      <3> QED BY <1>1, <3>1 DEF Decided
    <2>4. ASSUME NEW k \in made PROVE m + k \in Decided(new)
      <3>1. k \in 1 .. n /\ m + k \in 1 .. m + n
        BY <1>1
      <3>2. new[m + k].outcome = "decision"
        BY <1>a, <3>1
      <3> QED BY <1>1, <3>1, <3>2 DEF Decided
    <2>5. Decided(new) = kept \cup Moved(m, made)
      <3> HIDE DEF kept, made
      <3> QED BY <2>2, <2>3, <2>4 DEF Moved
    <2>6. Cardinality(kept \cup Moved(m, made)) = Cardinality(kept) + Cardinality(made)
      <3> HIDE DEF kept, made
      <3>1. kept \in SUBSET Upto(m) /\ made \in SUBSET Upto(n)
        BY <2>1 DEF Upto
      <3>2. AddsUp(m, kept, made)
        BY <1>1, <3>1, CountAppended
      <3> QED BY <3>2 DEF AddsUp
    <2> QED BY <2>5, <2>6
  <1>10. Cardinality(NotPrefiltered(new)) =
          Cardinality(NotPrefiltered(old)) + Cardinality(todo)
    <2> DEFINE kept == NotPrefiltered(old)
    <2>1. kept \subseteq 1 .. m /\ todo \subseteq 1 .. n
      BY <1>1 DEF NotPrefiltered
    <2>2. ASSUME NEW i \in NotPrefiltered(new) PROVE i \in kept \/ \E k \in todo : i = m + k
      <3>1. i \in DOMAIN new /\ new[i].outcome /= "prefiltered"
        BY DEF NotPrefiltered
      <3>2. CASE i \in 1 .. m
        BY <1>1, <3>1, <3>2 DEF NotPrefiltered
      <3>3. ASSUME NEW k \in 1 .. n, i = m + k PROVE k \in todo
        BY <1>a, <1>6, <3>1, <3>3
      <3> QED BY <1>7, <3>1, <3>2, <3>3
    <2>3. ASSUME NEW i \in kept PROVE i \in NotPrefiltered(new)
      <3>1. i \in 1 .. m /\ i \in 1 .. m + n /\ old[i].outcome /= "prefiltered"
        BY <1>1 DEF NotPrefiltered
      <3> QED BY <1>1, <3>1 DEF NotPrefiltered
    <2>4. ASSUME NEW k \in todo PROVE m + k \in NotPrefiltered(new)
      <3>1. k \in 1 .. n /\ m + k \in 1 .. m + n
        BY <1>1
      <3>2. new[m + k].outcome /= "prefiltered"
        BY <1>a, <1>6, <3>1
      <3> QED BY <1>1, <3>1, <3>2 DEF NotPrefiltered
    <2>5. NotPrefiltered(new) = kept \cup Moved(m, todo)
      <3> HIDE DEF kept
      <3> QED BY <2>2, <2>3, <2>4 DEF Moved
    <2>6. Cardinality(kept \cup Moved(m, todo)) = Cardinality(kept) + Cardinality(todo)
      <3> HIDE DEF kept
      <3>1. kept \in SUBSET Upto(m) /\ todo \in SUBSET Upto(n)
        BY <2>1 DEF Upto
      <3>2. AddsUp(m, kept, todo)
        BY <1>1, <3>1, CountAppended
      <3> QED BY <3>2 DEF AddsUp
    <2> QED BY <2>5, <2>6
  <1> QED BY <1>2, <1>3, <1>4, <1>8, <1>9, <1>10 DEF RowsOK, new, old

LEMMA LogInvStep ==
  ASSUME MaxReruns = 0, MaxAmbiguous = 0, TypeInv, LifeInv, WorkInv, ManifestInv, LogInv,
         [Next]_vars
  PROVE  LogInv'
  <1>1. ASSUME NEW e \in Executions, SetupJob(e) \/ CoordinatorJob(e) \/ Clock(e)
        PROVE  RowsOK(e)'
    <2>0. /\ StartOK(e) /\ CursorOK(e) /\ RowsOK(e) /\ NextBatchOK(e)
          /\ progress[e] \in Progress
      BY OwnFunctions DEF ManifestInv, LogInv
    <2>1. CASE StreamManifest(e) \/ StreamFails(e)
      <3>1. /\ log[e] = <<>> /\ log' = log /\ progress' = progress
            /\ blob' \in [Executions -> Seq(Objects)]
        <4>1. TypeInv'
          BY TypeInvStep
        <4>2. blob' \in [Executions -> Seq(Objects)]
          BY <4>1 DEF TypeInv, TypeOK, DataOK
        <4> QED BY <2>0, <2>1, <4>2 DEF StreamManifest, StreamFails, StartOK, rowVars
      <3>2. Len(blob'[e]) >= 0 /\ DOMAIN log[e] = {} /\ Len(log[e]) = 0
        BY <3>1
      <3>3. FirstOf(log[e], blob'[e])
        BY <3>1, <3>2 DEF FirstOf
      <3> QED BY <2>0, <3>1, <3>3 DEF RowsOK
    <2>2. CASE CommitSetup(e)
      <3>1. /\ log' = log /\ blob' = blob
            /\ progress'[e] = [progress[e] EXCEPT !.planned = Len(blob[e])]
        BY <2>2, OwnFunctions DEF CommitSetup, dataVars
      <3> QED BY <2>0, <3>1 DEF RowsOK, Progress
    <2>3. CASE CommitBatch(e)
      BY <2>0, <2>3, CountsCommitted DEF CommitBatch
    <2>4. CASE CommitAmbiguous(e)
      BY <2>4 DEF CommitAmbiguous, TypeInv, TypeOK, FaultsOK
    <2>5. CASE /\ ~StreamManifest(e) /\ ~StreamFails(e) /\ ~CommitSetup(e)
               /\ ~CommitBatch(e) /\ ~CommitAmbiguous(e)
      <3>1. CASE SetupJob(e)
        BY <2>0, <2>5, <3>1 DEF SetupJob, StartSetup, StartSetupTooLate, SetupFails,
           CompleteSetup, SetupRerun, rowVars, dataVars, RowsOK
      <3>2. CASE CoordinatorJob(e)
        BY <2>0, <2>5, <3>2 DEF CoordinatorJob, StartRun, FinishLate, MarkFailed,
           LoadInvariants, Snooze, ExitNotProcessing, LoopDone, ReadBatch,
           FilterAlreadyScored, EvaluateBatch, BatchFails, FinishSuccess, CompleteRun,
           RunFails, SetStatus, rowVars, dataVars, RowsOK
      <3>3. CASE Clock(e)
        BY <2>0, <3>3 DEF Clock, InitiationTimeout, DeadlinePasses, SliceTimeout, rowVars,
           dataVars, RowsOK
      <3> QED BY <1>1, <3>1, <3>2, <3>3
    <2> QED BY <2>1, <2>2, <2>3, <2>4, <2>5
  <1>2. ASSUME NEW e \in Executions, SetupJob(e) \/ CoordinatorJob(e) \/ Clock(e)
        PROVE  NextBatchOK(e)'
    <2>0. /\ StartOK(e) /\ CursorOK(e) /\ RowsOK(e) /\ NextBatchOK(e)
          /\ pc[e] \in Labels
          /\ pc[e] /= "idle" => job[e].state = "running"
          /\ Len(log[e]) = cursor[e].offset \/ pc[e] = "idle"
      BY OwnFunctions DEF ManifestInv, LogInv, WorkInv, CursorOK, RowsOK, NextBatchOK
    <2>1. CASE StartSetup(e)
      BY <2>0, <2>1, OwnFunctions DEF StartSetup, rowVars, dataVars, localVars,
         NextBatchOK, WithBatch
    <2>2. CASE StartSetupTooLate(e)
      BY <2>0, <2>2, OwnFunctions DEF StartSetupTooLate, dataVars, localVars, NextBatchOK,
         WithBatch
    <2>3. CASE StreamManifest(e)
      BY <2>0, <2>3, OwnFunctions DEF StreamManifest, rowVars, localVars, StartOK,
         NextBatchOK, WithBatch
    <2>4. CASE StreamFails(e)
      BY <2>0, <2>4, OwnFunctions DEF StreamFails, rowVars, localVars, StartOK,
         NextBatchOK, WithBatch
    <2>5. CASE SetupFails(e)
      BY <2>0, <2>5, OwnFunctions DEF SetupFails, rowVars, dataVars, localVars,
         NextBatchOK, WithBatch
    <2>6. CASE CommitSetup(e)
      BY <2>0, <2>6, OwnFunctions DEF CommitSetup, localVars, StartOK, NextBatchOK,
         WithBatch
    <2>7. CASE CompleteSetup(e)
      BY <2>0, <2>7, OwnFunctions DEF CompleteSetup, rowVars, dataVars, localVars,
         NextBatchOK, WithBatch
    <2>8. CASE SetupRerun(e)
      BY <2>8 DEF SetupRerun, TypeInv, TypeOK, FaultsOK
    <2>9. CASE StartRun(e)
      BY <2>0, <2>9, OwnFunctions DEF StartRun, rowVars, dataVars, NextBatchOK, WithBatch
    <2>10. CASE FinishLate(e)
      BY <2>0, <2>10, OwnFunctions DEF FinishLate, SetStatus, Goto, dataVars, NextBatchOK,
         WithBatch
    <2>11. CASE MarkFailed(e)
      BY <2>0, <2>11, OwnFunctions DEF MarkFailed, SetStatus, EndRun, rowVars, dataVars,
         NextBatchOK, WithBatch
    <2>12. CASE LoadInvariants(e)
      BY <2>0, <2>12, OwnFunctions DEF LoadInvariants, Goto, rowVars, dataVars,
         NextBatchOK, WithBatch
    <2>13. CASE Snooze(e)
      BY <2>0, <2>13, OwnFunctions DEF Snooze, EndRun, rowVars, dataVars, NextBatchOK,
         WithBatch
    <2>14. CASE ExitNotProcessing(e)
      BY <2>0, <2>14, OwnFunctions DEF ExitNotProcessing, Goto, rowVars, dataVars,
         NextBatchOK, WithBatch
    <2>15. CASE LoopDone(e)
      BY <2>0, <2>15, OwnFunctions DEF LoopDone, Goto, rowVars, dataVars, ContinueLoop,
         NextBatchOK, WithBatch
    <2>16. CASE ReadBatch(e)
      <3>1. /\ progress' = progress /\ blob' = blob /\ log' = log /\ cursor' = cursor
            /\ pc[e] = "loop" /\ pc'[e] = "filter" /\ ReadManifestBatch(e) /= <<>>
            /\ batch'[e].ids = ReadManifestBatch(e)
        BY <2>16, OwnFunctions DEF ReadBatch, ContinueLoop, BatchType, rowVars, dataVars
      <3>2. ReadFrom(e) = Len(log[e])
        BY <2>0, <3>1 DEF ReadFrom, CursorOK
      <3>3. Follow(ReadManifestBatch(e), Len(log[e]), blob[e])
        BY <3>1, <3>2, RowsRead DEF Follow
      <3> QED BY <2>0, <3>1, <3>3 DEF NextBatchOK, WithBatch
    <2>17. CASE FilterAlreadyScored(e)
      <3>1. /\ progress' = progress /\ blob' = blob /\ log' = log /\ cursor' = cursor
            /\ pc[e] = "filter" /\ pc'[e] = "evaluate" /\ batch'[e].ids = batch[e].ids
        BY <2>17, OwnFunctions DEF FilterAlreadyScored, BatchType, rowVars, dataVars
      <3> QED BY <2>0, <3>1 DEF NextBatchOK, WithBatch
    <2>18. CASE EvaluateBatch(e)
      <3>1. PICK v \in [batch[e].toEvaluate -> Verdicts] :
              batch' = [batch EXCEPT ![e].verdict =
                          [i \in 1 .. Len(batch[e].ids) |->
                             IF i \in batch[e].toEvaluate THEN v[i] ELSE "prefiltered"]]
        BY <2>18 DEF EvaluateBatch
      <3>2. /\ batch'[e].ids = batch[e].ids /\ batch'[e].toEvaluate = batch[e].toEvaluate
            /\ \A i \in 1 .. Len(batch[e].ids) : batch'[e].verdict[i] =
                 IF i \in batch[e].toEvaluate THEN v[i] ELSE "prefiltered"
        BY <3>1, OwnFunctions DEF BatchType
      <3>3. /\ progress' = progress /\ blob' = blob /\ log' = log /\ cursor' = cursor
            /\ pc[e] = "evaluate" /\ pc'[e] = "commit"
        BY <2>18, OwnFunctions DEF EvaluateBatch, rowVars, dataVars
      <3>4. VerdictsOK(batch'[e])
        BY <3>2 DEF VerdictsOK, Verdicts
      <3> QED BY <2>0, <3>2, <3>3, <3>4 DEF NextBatchOK, WithBatch
    <2>19. CASE BatchFails(e)
      BY <2>0, <2>19, OwnFunctions DEF BatchFails, RetryBatch, ResetManifestReader,
         rowVars, dataVars, ContinueLoop, NextBatchOK, WithBatch
    <2>20. CASE CommitBatch(e)
      <3>1. /\ pc[e] = "commit" /\ pc'[e] = "loop"
            /\ progress'[e] = Advanced(e, progress[e].planned)
            /\ cursor'[e] = Advanced(e, cursor[e].planned)
        BY <2>20, OwnFunctions DEF CommitBatch, ApplyBatch
      <3>2. cursor'[e] = progress'[e]
        BY <2>0, <3>1 DEF NextBatchOK
      <3> QED BY <3>1, <3>2 DEF NextBatchOK, WithBatch
    <2>21. CASE CommitAmbiguous(e)
      BY <2>21 DEF CommitAmbiguous, TypeInv, TypeOK, FaultsOK
    <2>22. CASE FinishSuccess(e)
      BY <2>0, <2>22, OwnFunctions DEF FinishSuccess, SetStatus, Goto, dataVars,
         NextBatchOK, WithBatch
    <2>23. CASE CompleteRun(e)
      BY <2>0, <2>23, OwnFunctions DEF CompleteRun, EndRun, rowVars, dataVars,
         NextBatchOK, WithBatch
    <2>24. CASE RunFails(e)
      BY <2>0, <2>24, OwnFunctions DEF RunFails, EndRun, rowVars, dataVars, NextBatchOK,
         WithBatch
    <2>25. CASE InitiationTimeout(e)
      BY <2>0, <2>25, OwnFunctions DEF InitiationTimeout, dataVars, localVars,
         NextBatchOK, WithBatch
    <2>26. CASE DeadlinePasses(e)
      BY <2>0, <2>26, OwnFunctions DEF DeadlinePasses, dataVars, localVars, NextBatchOK,
         WithBatch
    <2>27. CASE SliceTimeout(e)
      BY <2>0, <2>27, OwnFunctions DEF SliceTimeout, rowVars, dataVars, NextBatchOK,
         WithBatch
    <2> QED BY <1>2, <2>1, <2>2, <2>3, <2>4, <2>5, <2>6, <2>7, <2>8, <2>9, <2>10, <2>11,
               <2>12, <2>13, <2>14, <2>15, <2>16, <2>17, <2>18, <2>19, <2>20, <2>21,
               <2>22, <2>23, <2>24, <2>25, <2>26, <2>27
         DEF SetupJob, CoordinatorJob, Clock
  <1>3. ASSUME NEW e \in Executions, SetupJob(e) \/ CoordinatorJob(e) \/ Clock(e),
               NEW f \in Executions \ {e}
        PROVE  RowsOK(f)' /\ NextBatchOK(f)'
    BY <1>3, OthersAlone DEF Own, LogInv, RowsOK, NextBatchOK
  <1>4. ASSUME NEW e \in Executions, SetupJob(e) \/ CoordinatorJob(e) \/ Clock(e)
        PROVE  LogInv'
    BY <1>1, <1>2, <1>3, <1>4 DEF LogInv
  <1>5. ASSUME Create PROVE LogInv'
    BY <1>5 DEF Create, CheckNoneActive, GiveUpCreating, CreateScheduledExecution, LogInv,
       RowsOK, NextBatchOK, rowVars, localVars, dataVars
  <1>6. CASE UNCHANGED vars
    BY <1>6 DEF vars, rowVars, localVars, dataVars, LogInv, RowsOK, NextBatchOK
  <1> QED BY <1>4, <1>5, <1>6 DEF Next

\* An execution's outcomes are those of the first rows of its manifest, in order,
\* each row once, and its cursor and counters in the row say exactly how many,
\* through every crash, retry, snooze, timeout and failed batch; success means all.
THEOREM ManifestFollowed ==
  ASSUME MaxReruns = 0, MaxAmbiguous = 0
  PROVE  Spec => []LogFollowsManifest
  <1> DEFINE Inv == DedupInv /\ WorkInv /\ ManifestInv /\ LogInv
  <1>1. Init => Inv
    <2> SUFFICES ASSUME Init PROVE LogInv
      BY DedupInvInit, LifeFacts
    <2>1. ASSUME NEW e \in Executions PROVE RowsOK(e)
      <3>1. log[e] = <<>> /\ blob[e] = <<>> /\ progress[e] = NoProgress
        BY DEF Init
      <3>2. Len(log[e]) = 0 /\ FirstOf(log[e], blob[e])
        BY <3>1 DEF FirstOf
      <3>3. Decided(log[e]) = {} /\ NotPrefiltered(log[e]) = {}
        BY <3>1 DEF Decided, NotPrefiltered
      <3>4. Cardinality(Decided(log[e])) = 0 /\ Cardinality(NotPrefiltered(log[e])) = 0
        BY <3>3, FS_EmptySet
      <3> QED BY <3>1, <3>2, <3>4 DEF RowsOK, NoProgress
    <2>2. ASSUME NEW e \in Executions PROVE NextBatchOK(e)
      BY DEF Init, NextBatchOK, WithBatch
    <2> QED BY <2>1, <2>2 DEF LogInv
  <1>2. Inv /\ [Next]_vars => Inv'
    BY DedupInvStep, LifeFacts, LogInvStep DEF DedupInv
  <1>3. ASSUME Inv PROVE LogFollowsManifest
    <2> SUFFICES ASSUME NEW e \in Executions
                 PROVE  /\ progress[e].rows = Len(log[e]) /\ progress[e].offset = Len(log[e])
                        /\ \A i \in DOMAIN log[e] :
                             i \in DOMAIN blob[e] /\ blob[e][i] = log[e][i].object
                        /\ progress[e].created = Cardinality(Decided(log[e]))
                        /\ progress[e].evaluated = Cardinality(NotPrefiltered(log[e]))
                        /\ status[e] = "success" => Len(log[e]) = Len(blob[e])
      BY DEF LogFollowsManifest, Decided, NotPrefiltered
    <2>1. /\ CursorOK(e) /\ EndOK(e) /\ RowsOK(e) /\ TypeInv
      BY <1>3 DEF ManifestInv, LogInv, DedupInv
    <2>2. /\ Len(log[e]) \in Nat /\ Len(blob[e]) \in Nat
          /\ DOMAIN log[e] = 1 .. Len(log[e]) /\ DOMAIN blob[e] = 1 .. Len(blob[e])
      BY <2>1, OwnFunctions
    <2>3. \A i \in DOMAIN log[e] : i \in DOMAIN blob[e] /\ blob[e][i] = log[e][i].object
      BY <2>1, <2>2 DEF RowsOK, FirstOf
    <2>4. status[e] = "success" => Len(log[e]) >= Len(blob[e])
      BY <2>1, <2>2 DEF CursorOK, EndOK, RowsOK, AllRowsProcessed
    <2>5. Len(log[e]) <= Len(blob[e])
      BY <2>1 DEF RowsOK, FirstOf
    <2> QED BY <2>1, <2>2, <2>3, <2>4, <2>5 DEF RowsOK, CursorOK
  <1> QED BY <1>1, <1>2, <1>3, PTL DEF Spec


=============================================================================
