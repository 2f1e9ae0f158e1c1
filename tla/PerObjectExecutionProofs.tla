---------------------- MODULE PerObjectExecutionProofs ----------------------
(***************************************************************************)
(* Proofs about PerObjectExecution, for any set of objects and any bounds  *)
(* on attempts and reruns.                                                 *)
(***************************************************************************)
EXTENDS PerObjectExecution, FiniteSetTheorems, TLAPS

-----------------------------------------------------------------------------
(* Type correctness.                                                       *)

\* The attempts that the states of the jobs leave; needed because a run takes an
\* attempt and a poll gives one back.
AttemptsInv ==
  /\ setup.state = "queued" => setup.attempts < MaxSetupAttempts
  /\ setup.state /= "queued" => setup.attempts > 0
  /\ \A r \in Rows :
       decisionJob[r].state = "queued" => decisionJob[r].attempts < MaxDecisionAttempts
  /\ statusJob.state = "queued" => statusJob.attempts < MaxStatusAttempts
  /\ statusJob.state = "running" => statusJob.attempts > 0
  /\ monitor.pc /= "idle" => statusJob.state = "running"

TypeInv == TypeOK /\ AttemptsInv

\* The numbers of attempts are positive.
LEMMA Maxima ==
  /\ MaxSetupAttempts \in Nat /\ MaxSetupAttempts > 0
  /\ MaxDecisionAttempts \in Nat /\ MaxDecisionAttempts > 0
  /\ MaxStatusAttempts \in Nat /\ MaxStatusAttempts > 0
  /\ MaxReruns \in Nat
  BY BoundsAssumption

\* There are finitely many rows: they correspond to pairs.
LEMMA RowsFinite == IsFiniteSet(Rows) /\ Cardinality(Rows) \in Nat
  <1> DEFINE Pairs == Objects \X (1 .. MaxSetupAttempts)
             ToRow == [p \in Pairs |-> [object |-> p[1], attempt |-> p[2]]]
  <1>1. IsFiniteSet(Pairs)
    <2>1. IsFiniteSet(1 .. MaxSetupAttempts)
      BY Maxima, FS_Interval
    <2>2. IsFiniteSet(Objects)
      BY BoundsAssumption
    <2> QED BY <2>1, <2>2, FS_Product
  <1>2. ToRow \in Surjection(Pairs, Rows)
    <2>1. ToRow \in [Pairs -> Rows]
      BY DEF Rows
    <2>2. ASSUME NEW r \in Rows PROVE \E p \in Pairs : ToRow[p] = r
      <3>1. <<r.object, r.attempt>> \in Pairs
        BY DEF Rows
      <3>2. ToRow[<<r.object, r.attempt>>] = r
        BY <3>1 DEF Rows
      <3> QED BY <3>1, <3>2
    <2> QED BY <2>1, <2>2 DEF Surjection
  <1>3. IsFiniteSet(Rows)
    <2> HIDE DEF Pairs, ToRow
    <2> QED BY <1>1, <1>2, FS_Surjection
  <1> QED BY <1>3, FS_CardinalityType

\* Counts are within the number of rows (CountCompletedDecisionsByStatus).
LEMMA CountsTyped == NoCounts \in CountType /\ \A rows : CountsOf(rows) \in CountType
  <1>1. ASSUME NEW rows PROVE CountsOf(rows) \in CountType
    <2> DEFINE C == {r \in Rows : rows[r] = "created"}
               M == {r \in Rows : rows[r] = "mismatch"}
    <2>1. /\ IsFiniteSet(C) /\ Cardinality(C) <= Cardinality(Rows)
          /\ IsFiniteSet(M) /\ IsFiniteSet(C \cup M)
          /\ Cardinality(C \cup M) <= Cardinality(Rows)
      <3>1. C \in SUBSET Rows /\ M \in SUBSET Rows /\ C \cup M \in SUBSET Rows
        OBVIOUS
      <3> HIDE DEF C, M
      <3> QED BY <3>1, RowsFinite, FS_Subset
    <2>2. /\ Cardinality(C) \in Nat /\ Cardinality(M) \in Nat
          /\ Cardinality(C \cup M) \in Nat
      BY <2>1, FS_CardinalityType
    <2>3. Cardinality(C \cup M) = Cardinality(C) + Cardinality(M)
      <3>1. C \cap M = {}
        OBVIOUS
      <3>2. Cardinality(C \cap M) = 0
        BY <3>1, FS_EmptySet
      <3> HIDE DEF C, M
      <3>3. Cardinality(C \cup M) = Cardinality(C) + Cardinality(M) - Cardinality(C \cap M)
        BY <2>1, FS_Union
      <3> QED BY <3>2, <3>3, <2>2
    <2>4. Cardinality(C) \in 0 .. Cardinality(Rows)
          /\ Cardinality(C) + Cardinality(M) \in 0 .. Cardinality(Rows)
      BY <2>1, <2>2, <2>3, RowsFinite
    <2> QED BY <2>4 DEF CountsOf, CountType
  <1>2. NoCounts \in CountType
    BY RowsFinite DEF NoCounts, CountType
  <1> QED BY <1>1, <1>2

\* The planned count is within the number of objects.
LEMMA PlannedTyped ==
  /\ 0 \in 0 .. Cardinality(Objects)
  /\ \A ids \in SUBSET Objects : Cardinality(ids) \in 0 .. Cardinality(Objects)
  <1>1. IsFiniteSet(Objects) /\ Cardinality(Objects) \in Nat
    BY BoundsAssumption, FS_CardinalityType
  <1>2. ASSUME NEW ids \in SUBSET Objects
        PROVE  Cardinality(ids) \in 0 .. Cardinality(Objects)
    <2>1. IsFiniteSet(ids) /\ Cardinality(ids) <= Cardinality(Objects)
      BY <1>1, FS_Subset
    <2>2. Cardinality(ids) \in Nat
      BY <2>1, FS_CardinalityType
    <2> QED BY <1>1, <2>1, <2>2
  <1> QED BY <1>1, <1>2

\* The values that workers and the monitor start from are well typed.
LEMMA IdleTyped ==
  /\ IdleWorker \in WorkerType /\ IdleMonitor \in MonitorType
  /\ IdleWorker.pc = "idle" /\ IdleMonitor.pc = "idle"
  /\ [IdleWorker EXCEPT !.pc = "committed"] \in WorkerType
  BY CountsTyped, PlannedTyped DEF IdleWorker, IdleMonitor, WorkerType, MonitorType

\* River's bookkeeping keeps jobs well typed.
LEMMA JobValues ==
  ASSUME NEW S, NEW max \in Nat, max > 0, NEW j \in JobType(S, max)
  PROVE  /\ j.attempts \in Nat /\ j.attempts <= max /\ j.state \in S
         /\ \A s \in S : j.attempts < max =>
              /\ Started(j, s) \in JobType(S, max)
              /\ Started(j, s).attempts = j.attempts + 1
              /\ Started(j, s).state = s
         /\ {"queued", "discarded"} \subseteq S => AfterError(j, max) \in JobType(S, max)
         /\ AfterError(j, max).state \in {"queued", "discarded"}
         /\ AfterError(j, max).attempts = j.attempts
         /\ AfterError(j, max).state = "queued" => j.attempts < max
         /\ "completed" \in S => Ended(j) \in JobType(S, max)
         /\ Ended(j).state = "completed" /\ Ended(j).attempts = j.attempts
         /\ "queued" \in S => NewJob \in JobType(S, max)
         /\ NewJob.state = "queued" /\ NewJob.attempts = 0
         /\ "none" \in S => NoJob \in JobType(S, max)
         /\ NoJob.state = "none" /\ NoJob.attempts = 0
         /\ \A s \in S : /\ [j EXCEPT !.state = s] \in JobType(S, max)
                         /\ [j EXCEPT !.state = s].state = s
                         /\ [j EXCEPT !.state = s].attempts = j.attempts
  BY DEF JobType, Started, AfterError, Ended, NewJob, NoJob

\* The states of the setup job.
SetupStates == {"queued", "listing", "listed", "inserting", "handled", "completed",
                "discarded"}

\* What the job lemmas say of the three kinds of jobs in a well typed state.
LEMMA JobFacts ==
  ASSUME TypeInv
  PROVE  /\ setup \in JobType(SetupStates, MaxSetupAttempts)
         /\ \A r \in Rows : decisionJob[r] \in JobType(RiverStates, MaxDecisionAttempts)
         /\ statusJob \in JobType(RiverStates, MaxStatusAttempts)
  BY DEF TypeInv, TypeOK, JobsOK, SetupStates

\* The setup job keeps the types.
LEMMA SetupKeepsTypes ==
  ASSUME TypeInv, SetupJob
  PROVE  TypeInv'
  <1> USE JobFacts, Maxima DEF TypeInv, executionVars, rowVars
  <1>1. CASE StartSetup
    <2>1. /\ setup' \in JobType(SetupStates, MaxSetupAttempts)
          /\ setup'.state = "queued" => setup'.attempts < MaxSetupAttempts
          /\ setup'.state /= "queued" => setup'.attempts > 0
      BY <1>1, JobValues DEF StartSetup, SetupStates, AttemptsInv
    <2>2. ExecutionOK' /\ RowsOK' /\ LocalOK'
      BY <1>1 DEF StartSetup, TypeOK, ExecutionOK, RowsOK, LocalOK, Terminal
    <2>3. JobsOK' /\ AttemptsInv'
      BY <1>1, <2>1 DEF StartSetup, TypeOK, JobsOK, AttemptsInv, SetupStates
    <2> QED BY <2>2, <2>3 DEF TypeOK
  <1>2. CASE StartSetupTooLate
    <2>1. /\ setup' \in JobType(SetupStates, MaxSetupAttempts)
          /\ setup'.state = "queued" => setup'.attempts < MaxSetupAttempts
          /\ setup'.state /= "queued" => setup'.attempts > 0
      BY <1>2, JobValues DEF StartSetupTooLate, SetupStates, AttemptsInv
    <2>2. ExecutionOK' /\ RowsOK' /\ LocalOK'
      BY <1>2 DEF StartSetupTooLate, TypeOK, ExecutionOK, RowsOK, LocalOK, Terminal
    <2>3. JobsOK' /\ AttemptsInv'
      BY <1>2, <2>1 DEF StartSetupTooLate, TypeOK, JobsOK, AttemptsInv, SetupStates
    <2> QED BY <2>2, <2>3 DEF TypeOK
  <1>3. CASE ListObjects
    <2>1. /\ setup' \in JobType(SetupStates, MaxSetupAttempts)
          /\ setup'.state = "queued" => setup'.attempts < MaxSetupAttempts
          /\ setup'.state /= "queued" => setup'.attempts > 0
      BY <1>3 DEF ListObjects, Ended, JobType, SetupStates, AttemptsInv
    <2>2. ExecutionOK' /\ RowsOK' /\ LocalOK'
      BY <1>3, PlannedTyped DEF ListObjects, Listable, TypeOK, ExecutionOK, RowsOK,
         LocalOK, Terminal
    <2>3. JobsOK' /\ AttemptsInv'
      BY <1>3, <2>1 DEF ListObjects, TypeOK, JobsOK, AttemptsInv, SetupStates
    <2> QED BY <2>2, <2>3 DEF TypeOK
  <1>4. CASE SetProcessing
    <2>1. /\ setup' \in JobType(SetupStates, MaxSetupAttempts)
          /\ setup'.state = "queued" => setup'.attempts < MaxSetupAttempts
          /\ setup'.state /= "queued" => setup'.attempts > 0
      BY <1>4 DEF SetProcessing, Ended, JobType, SetupStates, AttemptsInv
    <2>2. ExecutionOK' /\ RowsOK' /\ LocalOK'
      BY <1>4 DEF SetProcessing, TypeOK, ExecutionOK, RowsOK, LocalOK, Terminal
    <2>3. JobsOK' /\ AttemptsInv'
      BY <1>4, <2>1 DEF SetProcessing, TypeOK, JobsOK, AttemptsInv, SetupStates
    <2> QED BY <2>2, <2>3 DEF TypeOK
  <1>5. CASE InsertDecisionsToCreate
    <2>1. /\ setup' \in JobType(SetupStates, MaxSetupAttempts)
          /\ setup'.state = "queued" => setup'.attempts < MaxSetupAttempts
          /\ setup'.state /= "queued" => setup'.attempts > 0
      BY <1>5 DEF InsertDecisionsToCreate, Ended, JobType, SetupStates, AttemptsInv
    <2>2. /\ statusJob' \in JobType(RiverStates, MaxStatusAttempts)
          /\ statusJob' = statusJob \/ (statusJob' = NewJob /\ monitor.pc = "idle")
      <3>1. CASE statusJob.state \in {"queued", "running", "completed"}
        <4>1. statusJob' = statusJob
          BY <1>5, <3>1 DEF InsertDecisionsToCreate, EnqueueUnique
        <4> QED BY <4>1
      <3>2. CASE statusJob.state \notin {"queued", "running", "completed"}
        <4>1. statusJob' = NewJob /\ monitor.pc = "idle"
          BY <1>5, <3>2 DEF InsertDecisionsToCreate, EnqueueUnique, AttemptsInv
        <4> QED BY <4>1 DEF NewJob, JobType, RiverStates
      <3> QED BY <3>1, <3>2
    <2>3. \A r \in Rows : decisionJob'[r] \in JobType(RiverStates, MaxDecisionAttempts)
          /\ (decisionJob'[r] = decisionJob[r] \/ decisionJob'[r] = NewJob)
      <3>1. NewJob \in JobType(RiverStates, MaxDecisionAttempts)
        BY Maxima DEF NewJob, JobType, RiverStates
      <3>2. ASSUME NEW r \in Rows
            PROVE  decisionJob'[r] = decisionJob[r] \/ decisionJob'[r] = NewJob
        BY <1>5 DEF InsertDecisionsToCreate
      <3> QED BY <3>1, <3>2
    <2>4. decisionJob' \in [Rows -> JobType(RiverStates, MaxDecisionAttempts)]
      BY <1>5, <2>3 DEF InsertDecisionsToCreate
    <2>5. ExecutionOK' /\ RowsOK' /\ LocalOK'
      BY <1>5 DEF InsertDecisionsToCreate, TypeOK, ExecutionOK, RowsOK, LocalOK, Done
    <2>6. JobsOK'
      BY <1>5, <2>1, <2>2, <2>4 DEF InsertDecisionsToCreate, TypeOK, JobsOK, SetupStates
    <2>7. AttemptsInv'
      BY <1>5, <2>1, <2>2, <2>3 DEF InsertDecisionsToCreate, AttemptsInv, NewJob
    <2> QED BY <2>5, <2>6, <2>7 DEF TypeOK
  <1>6. CASE SetupFails
    <2>1. /\ setup' \in JobType(SetupStates, MaxSetupAttempts)
          /\ setup'.state = "queued" => setup'.attempts < MaxSetupAttempts
          /\ setup'.state /= "queued" => setup'.attempts > 0
      BY <1>6, JobValues DEF SetupFails, SetupStates, AttemptsInv
    <2>2. ExecutionOK' /\ RowsOK' /\ LocalOK'
      BY <1>6 DEF SetupFails, TypeOK, ExecutionOK, RowsOK, LocalOK, Terminal
    <2>3. JobsOK' /\ AttemptsInv'
      BY <1>6, <2>1 DEF SetupFails, TypeOK, JobsOK, AttemptsInv, SetupStates
    <2> QED BY <2>2, <2>3 DEF TypeOK
  <1>7. CASE CompleteSetup
    <2>1. /\ setup' \in JobType(SetupStates, MaxSetupAttempts)
          /\ setup'.state = "queued" => setup'.attempts < MaxSetupAttempts
          /\ setup'.state /= "queued" => setup'.attempts > 0
      BY <1>7 DEF CompleteSetup, Ended, JobType, SetupStates, AttemptsInv
    <2>2. ExecutionOK' /\ RowsOK' /\ LocalOK'
      BY <1>7 DEF CompleteSetup, TypeOK, ExecutionOK, RowsOK, LocalOK, Terminal
    <2>3. JobsOK' /\ AttemptsInv'
      BY <1>7, <2>1 DEF CompleteSetup, TypeOK, JobsOK, AttemptsInv, SetupStates
    <2> QED BY <2>2, <2>3 DEF TypeOK
  <1>8. CASE SetupRerun
    <2>1. /\ setup' \in JobType(SetupStates, MaxSetupAttempts)
          /\ setup'.state = "queued" => setup'.attempts < MaxSetupAttempts
          /\ setup'.state /= "queued" => setup'.attempts > 0
      BY <1>8, JobValues DEF SetupRerun, SetupStates, AttemptsInv
    <2>2. ExecutionOK' /\ RowsOK' /\ LocalOK'
      BY <1>8 DEF SetupRerun, TypeOK, ExecutionOK, RowsOK, LocalOK, Terminal
    <2>3. JobsOK' /\ AttemptsInv'
      BY <1>8, <2>1 DEF SetupRerun, TypeOK, JobsOK, AttemptsInv, SetupStates
    <2> QED BY <2>2, <2>3 DEF TypeOK
  <1> QED BY <1>1, <1>2, <1>3, <1>4, <1>5, <1>6, <1>7, <1>8 DEF SetupJob

\* A decision job keeps the types.
LEMMA DecisionKeepsTypes ==
  ASSUME TypeInv, NEW r \in Rows, DecisionJob(r)
  PROVE  TypeInv'
  <1> USE JobFacts, Maxima DEF TypeInv, executionVars, rowVars
  <1> DEFINE Worker(q) == worker'[q] \in WorkerType
             Job(q) == /\ decisionJob'[q] \in JobType(RiverStates, MaxDecisionAttempts)
                       /\ decisionJob'[q].state = "queued" =>
                            decisionJob'[q].attempts < MaxDecisionAttempts
  <1>1. CASE StartDecision(r)
    <2>1. worker' \in [Rows -> WorkerType]
      BY <1>1 DEF StartDecision, TypeOK, LocalOK, WorkerType
    <2>2. /\ decisionJob' \in [Rows -> JobType(RiverStates, MaxDecisionAttempts)]
          /\ \A q \in Rows : decisionJob'[q].state = "queued" =>
               decisionJob'[q].attempts < MaxDecisionAttempts
      <3>1. /\ Started(decisionJob[r], "running") \in JobType(RiverStates, MaxDecisionAttempts)
            /\ Started(decisionJob[r], "running").state = "queued" =>
                 Started(decisionJob[r], "running").attempts < MaxDecisionAttempts
        BY <1>1, JobValues DEF StartDecision, RiverStates, AttemptsInv
      <3> QED BY <1>1, <3>1 DEF StartDecision, TypeOK, JobsOK, AttemptsInv
    <2>3. ExecutionOK' /\ RowsOK'
      BY <1>1 DEF StartDecision, NewStatus, TypeOK, ExecutionOK, RowsOK, LocalOK,
         WorkerType, Done
    <2>4. JobsOK' /\ LocalOK' /\ AttemptsInv'
      BY <1>1, <2>1, <2>2 DEF StartDecision, TypeOK, JobsOK, LocalOK, AttemptsInv
    <2> QED BY <2>3, <2>4 DEF TypeOK
  <1>2. CASE EvaluateObject(r)
    <2>1. worker' \in [Rows -> WorkerType]
      <3>1. PICK v \in {"missing", "untriggered", "triggered", "stopped"} :
              worker' = [worker EXCEPT ![r].pc = "evaluated", ![r].verdict = v]
        BY <1>2 DEF EvaluateObject
      <3> QED BY <3>1 DEF TypeOK, LocalOK, WorkerType
    <2>2. /\ decisionJob' \in [Rows -> JobType(RiverStates, MaxDecisionAttempts)]
          /\ \A q \in Rows : decisionJob'[q].state = "queued" =>
               decisionJob'[q].attempts < MaxDecisionAttempts
      BY <1>2 DEF EvaluateObject, TypeOK, JobsOK, AttemptsInv
    <2>3. ExecutionOK' /\ RowsOK'
      BY <1>2 DEF EvaluateObject, NewStatus, TypeOK, ExecutionOK, RowsOK, LocalOK,
         WorkerType, Done
    <2>4. JobsOK' /\ LocalOK' /\ AttemptsInv'
      BY <1>2, <2>1, <2>2 DEF EvaluateObject, TypeOK, JobsOK, LocalOK, AttemptsInv
    <2> QED BY <2>3, <2>4 DEF TypeOK
  <1>3. CASE SampleCounts(r)
    <2>1. worker' \in [Rows -> WorkerType]
      BY <1>3, CountsTyped DEF SampleCounts, TypeOK, LocalOK, WorkerType
    <2>2. /\ decisionJob' \in [Rows -> JobType(RiverStates, MaxDecisionAttempts)]
          /\ \A q \in Rows : decisionJob'[q].state = "queued" =>
               decisionJob'[q].attempts < MaxDecisionAttempts
      BY <1>3 DEF SampleCounts, TypeOK, JobsOK, AttemptsInv
    <2>3. ExecutionOK' /\ RowsOK'
      BY <1>3 DEF SampleCounts, NewStatus, TypeOK, ExecutionOK, RowsOK, LocalOK,
         WorkerType, Done
    <2>4. JobsOK' /\ LocalOK' /\ AttemptsInv'
      BY <1>3, <2>1, <2>2 DEF SampleCounts, TypeOK, JobsOK, LocalOK, AttemptsInv
    <2> QED BY <2>3, <2>4 DEF TypeOK
  <1>4. CASE CommitDecision(r)
    <2>1. worker' \in [Rows -> WorkerType]
      BY <1>4, IdleTyped DEF CommitDecision, TypeOK, LocalOK, WorkerType
    <2>2. /\ decisionJob' \in [Rows -> JobType(RiverStates, MaxDecisionAttempts)]
          /\ \A q \in Rows : decisionJob'[q].state = "queued" =>
               decisionJob'[q].attempts < MaxDecisionAttempts
      BY <1>4 DEF CommitDecision, TypeOK, JobsOK, AttemptsInv
    <2>3. ExecutionOK' /\ RowsOK'
      BY <1>4 DEF CommitDecision, NewStatus, TypeOK, ExecutionOK, RowsOK, LocalOK,
         WorkerType, Done
    <2>4. JobsOK' /\ LocalOK' /\ AttemptsInv'
      BY <1>4, <2>1, <2>2 DEF CommitDecision, TypeOK, JobsOK, LocalOK, AttemptsInv
    <2> QED BY <2>3, <2>4 DEF TypeOK
  <1>5. CASE CompleteDecision(r)
    <2>1. worker' \in [Rows -> WorkerType]
      BY <1>5, IdleTyped DEF CompleteDecision, TypeOK, LocalOK, WorkerType
    <2>2. /\ decisionJob' \in [Rows -> JobType(RiverStates, MaxDecisionAttempts)]
          /\ \A q \in Rows : decisionJob'[q].state = "queued" =>
               decisionJob'[q].attempts < MaxDecisionAttempts
      <3>1. /\ Ended(decisionJob[r]) \in JobType(RiverStates, MaxDecisionAttempts)
            /\ Ended(decisionJob[r]).state = "queued" =>
                 Ended(decisionJob[r]).attempts < MaxDecisionAttempts
        BY <1>5, JobValues DEF CompleteDecision, RiverStates, AttemptsInv
      <3> QED BY <1>5, <3>1 DEF CompleteDecision, TypeOK, JobsOK, AttemptsInv
    <2>3. ExecutionOK' /\ RowsOK'
      BY <1>5 DEF CompleteDecision, NewStatus, TypeOK, ExecutionOK, RowsOK, LocalOK,
         WorkerType, Done
    <2>4. JobsOK' /\ LocalOK' /\ AttemptsInv'
      BY <1>5, <2>1, <2>2 DEF CompleteDecision, TypeOK, JobsOK, LocalOK, AttemptsInv
    <2> QED BY <2>3, <2>4 DEF TypeOK
  <1>6. CASE DecisionFails(r)
    <2>1. worker' \in [Rows -> WorkerType]
      BY <1>6, IdleTyped DEF DecisionFails, TypeOK, LocalOK, WorkerType
    <2>2. /\ decisionJob' \in [Rows -> JobType(RiverStates, MaxDecisionAttempts)]
          /\ \A q \in Rows : decisionJob'[q].state = "queued" =>
               decisionJob'[q].attempts < MaxDecisionAttempts
      <3>1. /\ AfterError(decisionJob[r], MaxDecisionAttempts) \in JobType(RiverStates, MaxDecisionAttempts)
            /\ AfterError(decisionJob[r], MaxDecisionAttempts).state = "queued" =>
                 AfterError(decisionJob[r], MaxDecisionAttempts).attempts < MaxDecisionAttempts
        BY <1>6, JobValues DEF DecisionFails, RiverStates, AttemptsInv
      <3> QED BY <1>6, <3>1 DEF DecisionFails, TypeOK, JobsOK, AttemptsInv
    <2>3. ExecutionOK' /\ RowsOK'
      BY <1>6 DEF DecisionFails, NewStatus, TypeOK, ExecutionOK, RowsOK, LocalOK,
         WorkerType, Done
    <2>4. JobsOK' /\ LocalOK' /\ AttemptsInv'
      BY <1>6, <2>1, <2>2 DEF DecisionFails, TypeOK, JobsOK, LocalOK, AttemptsInv
    <2> QED BY <2>3, <2>4 DEF TypeOK
  <1> QED BY <1>1, <1>2, <1>3, <1>4, <1>5, <1>6 DEF DecisionJob

\* The status job and the timers keep the types.
LEMMA StatusKeepsTypes ==
  ASSUME TypeInv, StatusJob \/ InitiationTimeout \/ MonitoringTimeout
  PROVE  TypeInv'
  <1> USE JobFacts, Maxima DEF TypeInv, executionVars, rowVars
  <1>1. CASE StartStatus
    <2>1. monitor' \in MonitorType
      BY <1>1 DEF StartStatus, TypeOK, ExecutionOK, LocalOK, MonitorType
    <2>2. /\ statusJob' \in JobType(RiverStates, MaxStatusAttempts)
          /\ statusJob'.state = "queued" => statusJob'.attempts < MaxStatusAttempts
          /\ statusJob'.state = "running" => statusJob'.attempts > 0
          /\ monitor'.pc /= "idle" => statusJob'.state = "running"
      BY <1>1, IdleTyped, JobValues DEF StartStatus, RiverStates, AttemptsInv, TypeOK,
         LocalOK, MonitorType
    <2>3. ExecutionOK' /\ RowsOK'
      BY <1>1 DEF StartStatus, FinalStatus, Terminal, TypeOK, ExecutionOK, RowsOK,
         LocalOK, MonitorType
    <2>4. JobsOK' /\ LocalOK' /\ AttemptsInv'
      BY <1>1, <2>1, <2>2 DEF StartStatus, TypeOK, JobsOK, LocalOK, AttemptsInv
    <2> QED BY <2>3, <2>4 DEF TypeOK
  <1>2. CASE Poll
    <2>1. monitor' \in MonitorType
      BY <1>2, IdleTyped DEF Poll, TypeOK, ExecutionOK, LocalOK, MonitorType
    <2>2. /\ statusJob' \in JobType(RiverStates, MaxStatusAttempts)
          /\ statusJob'.state = "queued" => statusJob'.attempts < MaxStatusAttempts
          /\ statusJob'.state = "running" => statusJob'.attempts > 0
          /\ monitor'.pc /= "idle" => statusJob'.state = "running"
      BY <1>2, IdleTyped DEF Poll, RiverStates, AttemptsInv, JobType
    <2>3. ExecutionOK' /\ RowsOK'
      BY <1>2 DEF Poll, FinalStatus, Terminal, TypeOK, ExecutionOK, RowsOK, LocalOK,
         MonitorType
    <2>4. JobsOK' /\ LocalOK' /\ AttemptsInv'
      BY <1>2, <2>1, <2>2 DEF Poll, TypeOK, JobsOK, LocalOK, AttemptsInv
    <2> QED BY <2>3, <2>4 DEF TypeOK
  <1>3. CASE StopPolling
    <2>1. monitor' \in MonitorType
      BY <1>3 DEF StopPolling, TypeOK, ExecutionOK, LocalOK, MonitorType
    <2>2. /\ statusJob' \in JobType(RiverStates, MaxStatusAttempts)
          /\ statusJob'.state = "queued" => statusJob'.attempts < MaxStatusAttempts
          /\ statusJob'.state = "running" => statusJob'.attempts > 0
          /\ monitor'.pc /= "idle" => statusJob'.state = "running"
      BY <1>3, IdleTyped, JobValues DEF StopPolling, RiverStates, AttemptsInv, TypeOK,
         LocalOK, MonitorType
    <2>3. ExecutionOK' /\ RowsOK'
      BY <1>3 DEF StopPolling, FinalStatus, Terminal, TypeOK, ExecutionOK, RowsOK,
         LocalOK, MonitorType
    <2>4. JobsOK' /\ LocalOK' /\ AttemptsInv'
      BY <1>3, <2>1, <2>2 DEF StopPolling, TypeOK, JobsOK, LocalOK, AttemptsInv
    <2> QED BY <2>3, <2>4 DEF TypeOK
  <1>4. CASE CountRows
    <2>1. monitor' \in MonitorType
      BY <1>4, CountsTyped DEF CountRows, TypeOK, ExecutionOK, LocalOK, MonitorType
    <2>2. /\ statusJob' \in JobType(RiverStates, MaxStatusAttempts)
          /\ statusJob'.state = "queued" => statusJob'.attempts < MaxStatusAttempts
          /\ statusJob'.state = "running" => statusJob'.attempts > 0
          /\ monitor'.pc /= "idle" => statusJob'.state = "running"
      BY <1>4, IdleTyped, JobValues DEF CountRows, RiverStates, AttemptsInv, TypeOK,
         LocalOK, MonitorType
    <2>3. ExecutionOK' /\ RowsOK'
      BY <1>4 DEF CountRows, FinalStatus, Terminal, TypeOK, ExecutionOK, RowsOK, LocalOK,
         MonitorType
    <2>4. JobsOK' /\ LocalOK' /\ AttemptsInv'
      BY <1>4, <2>1, <2>2 DEF CountRows, TypeOK, JobsOK, LocalOK, AttemptsInv
    <2> QED BY <2>3, <2>4 DEF TypeOK
  <1>5. CASE WriteFinalStatus
    <2>1. monitor' \in MonitorType
      BY <1>5 DEF WriteFinalStatus, TypeOK, ExecutionOK, LocalOK, MonitorType
    <2>2. /\ statusJob' \in JobType(RiverStates, MaxStatusAttempts)
          /\ statusJob'.state = "queued" => statusJob'.attempts < MaxStatusAttempts
          /\ statusJob'.state = "running" => statusJob'.attempts > 0
          /\ monitor'.pc /= "idle" => statusJob'.state = "running"
      BY <1>5, IdleTyped, JobValues DEF WriteFinalStatus, RiverStates, AttemptsInv,
         TypeOK, LocalOK, MonitorType
    <2>3. ExecutionOK' /\ RowsOK'
      BY <1>5 DEF WriteFinalStatus, FinalStatus, Terminal, TypeOK, ExecutionOK, RowsOK,
         LocalOK, MonitorType
    <2>4. JobsOK' /\ LocalOK' /\ AttemptsInv'
      BY <1>5, <2>1, <2>2 DEF WriteFinalStatus, TypeOK, JobsOK, LocalOK, AttemptsInv
    <2> QED BY <2>3, <2>4 DEF TypeOK
  <1>6. CASE CompleteStatus
    <2>1. monitor' \in MonitorType
      BY <1>6, IdleTyped DEF CompleteStatus, TypeOK, ExecutionOK, LocalOK, MonitorType
    <2>2. /\ statusJob' \in JobType(RiverStates, MaxStatusAttempts)
          /\ statusJob'.state = "queued" => statusJob'.attempts < MaxStatusAttempts
          /\ statusJob'.state = "running" => statusJob'.attempts > 0
          /\ monitor'.pc /= "idle" => statusJob'.state = "running"
      BY <1>6, IdleTyped, JobValues DEF CompleteStatus, RiverStates, AttemptsInv, TypeOK,
         LocalOK, MonitorType
    <2>3. ExecutionOK' /\ RowsOK'
      BY <1>6 DEF CompleteStatus, FinalStatus, Terminal, TypeOK, ExecutionOK, RowsOK,
         LocalOK, MonitorType
    <2>4. JobsOK' /\ LocalOK' /\ AttemptsInv'
      BY <1>6, <2>1, <2>2 DEF CompleteStatus, TypeOK, JobsOK, LocalOK, AttemptsInv
    <2> QED BY <2>3, <2>4 DEF TypeOK
  <1>7. CASE StatusFails
    <2>1. monitor' \in MonitorType
      BY <1>7, IdleTyped DEF StatusFails, TypeOK, ExecutionOK, LocalOK, MonitorType
    <2>2. /\ statusJob' \in JobType(RiverStates, MaxStatusAttempts)
          /\ statusJob'.state = "queued" => statusJob'.attempts < MaxStatusAttempts
          /\ statusJob'.state = "running" => statusJob'.attempts > 0
          /\ monitor'.pc /= "idle" => statusJob'.state = "running"
      BY <1>7, IdleTyped, JobValues DEF StatusFails, RiverStates, AttemptsInv, TypeOK,
         LocalOK, MonitorType
    <2>3. ExecutionOK' /\ RowsOK'
      BY <1>7 DEF StatusFails, FinalStatus, Terminal, TypeOK, ExecutionOK, RowsOK,
         LocalOK, MonitorType
    <2>4. JobsOK' /\ LocalOK' /\ AttemptsInv'
      BY <1>7, <2>1, <2>2 DEF StatusFails, TypeOK, JobsOK, LocalOK, AttemptsInv
    <2> QED BY <2>3, <2>4 DEF TypeOK
  <1>8. CASE InitiationTimeout
    <2>1. monitor' \in MonitorType
      BY <1>8 DEF InitiationTimeout, TypeOK, ExecutionOK, LocalOK, MonitorType
    <2>2. /\ statusJob' \in JobType(RiverStates, MaxStatusAttempts)
          /\ statusJob'.state = "queued" => statusJob'.attempts < MaxStatusAttempts
          /\ statusJob'.state = "running" => statusJob'.attempts > 0
          /\ monitor'.pc /= "idle" => statusJob'.state = "running"
      BY <1>8, IdleTyped, JobValues DEF InitiationTimeout, RiverStates, AttemptsInv,
         TypeOK, LocalOK, MonitorType
    <2>3. ExecutionOK' /\ RowsOK'
      BY <1>8 DEF InitiationTimeout, FinalStatus, Terminal, TypeOK, ExecutionOK, RowsOK,
         LocalOK, MonitorType
    <2>4. JobsOK' /\ LocalOK' /\ AttemptsInv'
      BY <1>8, <2>1, <2>2 DEF InitiationTimeout, TypeOK, JobsOK, LocalOK, AttemptsInv
    <2> QED BY <2>3, <2>4 DEF TypeOK
  <1>9. CASE MonitoringTimeout
    <2>1. monitor' \in MonitorType
      BY <1>9 DEF MonitoringTimeout, TypeOK, ExecutionOK, LocalOK, MonitorType
    <2>2. /\ statusJob' \in JobType(RiverStates, MaxStatusAttempts)
          /\ statusJob'.state = "queued" => statusJob'.attempts < MaxStatusAttempts
          /\ statusJob'.state = "running" => statusJob'.attempts > 0
          /\ monitor'.pc /= "idle" => statusJob'.state = "running"
      BY <1>9, IdleTyped, JobValues DEF MonitoringTimeout, RiverStates, AttemptsInv,
         TypeOK, LocalOK, MonitorType
    <2>3. ExecutionOK' /\ RowsOK'
      BY <1>9 DEF MonitoringTimeout, FinalStatus, Terminal, TypeOK, ExecutionOK, RowsOK,
         LocalOK, MonitorType
    <2>4. JobsOK' /\ LocalOK' /\ AttemptsInv'
      BY <1>9, <2>1, <2>2 DEF MonitoringTimeout, TypeOK, JobsOK, LocalOK, AttemptsInv
    <2> QED BY <2>3, <2>4 DEF TypeOK
  <1> QED BY <1>1, <1>2, <1>3, <1>4, <1>5, <1>6, <1>7, <1>8, <1>9 DEF StatusJob

\* Every reachable state is well typed, and no job runs more often than its
\* attempts allow.
LEMMA TypeInductive == Spec => []TypeInv
  <1>1. Init => TypeInv
    <2> SUFFICES ASSUME Init PROVE TypeInv
      OBVIOUS
    <2>1. ExecutionOK /\ RowsOK /\ LocalOK
      BY CountsTyped, PlannedTyped, IdleTyped DEF Init, ExecutionOK, RowsOK, LocalOK
    <2>2. JobsOK /\ AttemptsInv
      BY Maxima, IdleTyped DEF Init, JobsOK, AttemptsInv, JobType, RiverStates, NewJob,
         NoJob
    <2> QED BY <2>1, <2>2 DEF TypeInv, TypeOK
  <1>2. TypeInv /\ [Next]_vars => TypeInv'
    <2> SUFFICES ASSUME TypeInv, [Next]_vars PROVE TypeInv'
      OBVIOUS
    <2>1. CASE SetupJob
      BY <2>1, SetupKeepsTypes
    <2>2. CASE \E r \in Rows : DecisionJob(r)
      BY <2>2, DecisionKeepsTypes
    <2>3. CASE StatusJob \/ InitiationTimeout \/ MonitoringTimeout
      BY <2>3, StatusKeepsTypes
    <2>4. CASE UNCHANGED vars
      BY <2>4 DEF vars, executionVars, rowVars, TypeInv, TypeOK, ExecutionOK, RowsOK,
                  JobsOK, LocalOK, AttemptsInv
    <2> QED BY <2>1, <2>2, <2>3, <2>4 DEF Next
  <1> QED BY <1>1, <1>2, PTL DEF Spec

\* The execution, its rows, jobs and workers are well formed in every reachable
\* state.
THEOREM TypeCorrect == Spec => []TypeOK
  <1>1. TypeInv => TypeOK
    BY DEF TypeInv
  <1> QED BY <1>1, TypeInductive, PTL

-----------------------------------------------------------------------------
(* One decision for each row.                                              *)

\* Only the setup attempt at work, and later ones, may still store rows.
FreshRows == \A r \in Rows :
  (IF setup.state \in {"listing", "listed", "inserting"}
     THEN r.attempt >= setup.attempts ELSE r.attempt > setup.attempts)
    => row[r] = "absent"

\* A row has a job, and a worker at work holds a row that is not done: what
\* handleDecision's early return and its lock on the row are for.
WorkersHoldRows == \A r \in Rows :
  /\ row[r] = "absent" => decisionJob[r] = NoJob
  /\ worker[r].pc /= "idle" => decisionJob[r].state = "running"
  /\ worker[r].pc \in {"locked", "evaluated", "counted"} => row[r] = "pending"

RowInv == FreshRows /\ WorkersHoldRows /\ DecisionPerRow

\* The setup job stores rows that were absent, and touches no other.
LEMMA SetupKeepsRows ==
  ASSUME TypeInv, RowInv, SetupJob
  PROVE  RowInv'
  <1> USE DEF RowInv, executionVars, rowVars
  <1>0. /\ setup.attempts \in Nat
        /\ \A r \in Rows : r.attempt \in Nat
        /\ row \in [Rows -> {"absent", "pending"} \cup Done]
        /\ "state" \in DOMAIN setup /\ setup = [state |-> setup.state, attempts |-> setup.attempts]
    BY Maxima DEF TypeInv, TypeOK, JobsOK, RowsOK, JobType, Rows
  <1>5. CASE InsertDecisionsToCreate
    <2>1. ASSUME NEW r \in NewRows
          PROVE  row[r] = "absent" /\ decisionJob[r] = NoJob /\ worker[r].pc = "idle"
      <3>1. r \in Rows /\ row[r] = "absent"
        BY <1>0, <1>5 DEF NewRows, InsertDecisionsToCreate, FreshRows
      <3> QED BY <3>1 DEF WorkersHoldRows, NoJob
    <2>2. ASSUME NEW r \in Rows
          PROVE  /\ r \in NewRows => row'[r] = "pending"
                 /\ r \notin NewRows => row'[r] = row[r] /\ decisionJob'[r] = decisionJob[r]
      BY <1>5 DEF InsertDecisionsToCreate
    <2>3. setup'.state = "handled" /\ setup'.attempts = setup.attempts
      BY <1>0, <1>5 DEF InsertDecisionsToCreate
    <2>4. FreshRows'
      <3> SUFFICES ASSUME NEW r \in Rows, r.attempt > setup.attempts
                   PROVE  row'[r] = "absent"
        BY <2>3 DEF FreshRows
      <3>1. r \notin NewRows
        BY <1>0 DEF NewRows
      <3> QED BY <1>0, <1>5, <2>2, <3>1 DEF FreshRows, InsertDecisionsToCreate
    <2>5. WorkersHoldRows'
      <3> SUFFICES ASSUME NEW r \in Rows
                   PROVE  /\ row'[r] = "absent" => decisionJob'[r] = NoJob
                          /\ worker'[r].pc /= "idle" => decisionJob'[r].state = "running"
                          /\ worker'[r].pc \in {"locked", "evaluated", "counted"} =>
                               row'[r] = "pending"
        BY DEF WorkersHoldRows
      <3>1. worker' = worker
        BY <1>5 DEF InsertDecisionsToCreate
      <3> QED BY <2>1, <2>2, <3>1 DEF WorkersHoldRows
    <2>6. DecisionPerRow'
      BY <1>5, <2>1, <2>2 DEF InsertDecisionsToCreate, DecisionPerRow
    <2> QED BY <2>4, <2>5, <2>6
  <1>1. CASE StartSetup
    <2>1. UNCHANGED <<row, decisions, decisionJob, worker>>
      BY <1>1 DEF StartSetup
    <2>2. FreshRows'
      BY <1>0, <1>1, <2>1 DEF StartSetup, FreshRows, Started, AfterError, Ended
    <2> QED BY <2>1, <2>2 DEF WorkersHoldRows, DecisionPerRow
  <1>2. CASE StartSetupTooLate
    <2>1. UNCHANGED <<row, decisions, decisionJob, worker>>
      BY <1>2 DEF StartSetupTooLate
    <2>2. FreshRows'
      BY <1>0, <1>2, <2>1 DEF StartSetupTooLate, FreshRows, Started, AfterError, Ended
    <2> QED BY <2>1, <2>2 DEF WorkersHoldRows, DecisionPerRow
  <1>3. CASE ListObjects
    <2>1. UNCHANGED <<row, decisions, decisionJob, worker>>
      BY <1>3 DEF ListObjects
    <2>2. FreshRows'
      BY <1>0, <1>3, <2>1 DEF ListObjects, FreshRows, Started, AfterError, Ended
    <2> QED BY <2>1, <2>2 DEF WorkersHoldRows, DecisionPerRow
  <1>4. CASE SetProcessing
    <2>1. UNCHANGED <<row, decisions, decisionJob, worker>>
      BY <1>4 DEF SetProcessing
    <2>2. FreshRows'
      BY <1>0, <1>4, <2>1 DEF SetProcessing, FreshRows, Started, AfterError, Ended
    <2> QED BY <2>1, <2>2 DEF WorkersHoldRows, DecisionPerRow
  <1>6. CASE SetupFails
    <2>1. UNCHANGED <<row, decisions, decisionJob, worker>>
      BY <1>6 DEF SetupFails
    <2>2. FreshRows'
      BY <1>0, <1>6, <2>1 DEF SetupFails, FreshRows, Started, AfterError, Ended
    <2> QED BY <2>1, <2>2 DEF WorkersHoldRows, DecisionPerRow
  <1>7. CASE CompleteSetup
    <2>1. UNCHANGED <<row, decisions, decisionJob, worker>>
      BY <1>7 DEF CompleteSetup
    <2>2. FreshRows'
      BY <1>0, <1>7, <2>1 DEF CompleteSetup, FreshRows, Started, AfterError, Ended
    <2> QED BY <2>1, <2>2 DEF WorkersHoldRows, DecisionPerRow
  <1>8. CASE SetupRerun
    <2>1. UNCHANGED <<row, decisions, decisionJob, worker>>
      BY <1>8 DEF SetupRerun
    <2>2. FreshRows'
      BY <1>0, <1>8, <2>1 DEF SetupRerun, FreshRows, Started, AfterError, Ended
    <2> QED BY <2>1, <2>2 DEF WorkersHoldRows, DecisionPerRow
  <1> QED BY <1>1, <1>2, <1>3, <1>4, <1>5, <1>6, <1>7, <1>8 DEF SetupJob

\* A decision job changes its own row, once, from pending.
LEMMA DecisionKeepsRows ==
  ASSUME TypeInv, RowInv, NEW r \in Rows, DecisionJob(r)
  PROVE  RowInv'
  <1> USE DEF RowInv, executionVars, rowVars
  <1>0. /\ row \in [Rows -> {"absent", "pending"} \cup Done]
        /\ decisions \in [Rows -> Nat]
        /\ decisionJob \in [Rows -> JobType(RiverStates, MaxDecisionAttempts)]
        /\ worker \in [Rows -> WorkerType]
    BY DEF TypeInv, TypeOK, RowsOK, JobsOK, LocalOK
  <1>1. CASE StartDecision(r)
    <2>1. UNCHANGED <<row, decisions, setup>>
      BY <1>1 DEF StartDecision
    <2>2. row[r] /= "absent"
      BY <1>1 DEF StartDecision, WorkersHoldRows, NoJob
    <2>3. WorkersHoldRows'
      BY <1>0, <1>1, <2>1, <2>2
         DEF StartDecision, AlreadyDone, Done, Started, WorkersHoldRows, WorkerType
    <2> QED BY <2>1, <2>3 DEF FreshRows, DecisionPerRow
  <1>2. CASE EvaluateObject(r)
    <2>1. UNCHANGED <<row, decisions, setup>>
      BY <1>2 DEF EvaluateObject
    <2>2. PICK v \in {"missing", "untriggered", "triggered", "stopped"} :
            worker' = [worker EXCEPT ![r].pc = "evaluated", ![r].verdict = v]
      BY <1>2 DEF EvaluateObject
    <2>3. WorkersHoldRows'
      BY <1>0, <1>2, <2>1, <2>2 DEF EvaluateObject, WorkersHoldRows, WorkerType
    <2> QED BY <2>1, <2>3 DEF FreshRows, DecisionPerRow
  <1>3. CASE SampleCounts(r)
    <2>1. UNCHANGED <<row, decisions, setup>>
      BY <1>3 DEF SampleCounts
    <2>3. WorkersHoldRows'
      BY <1>0, <1>3, <2>1 DEF SampleCounts, WorkersHoldRows, WorkerType
    <2> QED BY <2>1, <2>3 DEF FreshRows, DecisionPerRow
  <1>4. CASE CommitDecision(r)
    <2>1. row[r] = "pending" /\ decisions[r] = 0 /\ decisionJob[r].state = "running"
      BY <1>4 DEF CommitDecision, WorkersHoldRows, DecisionPerRow
    <2>2. NewStatus(r) \in {"created", "mismatch"}
      BY DEF NewStatus
    <2>3. FreshRows'
      BY <1>0, <1>4, <2>1 DEF CommitDecision, FreshRows
    <2>4. WorkersHoldRows'
      BY <1>0, <1>4, <2>1, <2>2 DEF CommitDecision, WorkersHoldRows, IdleWorker
    <2>5. DecisionPerRow'
      BY <1>0, <1>4, <2>1, <2>2 DEF CommitDecision, DecisionPerRow
    <2> QED BY <2>3, <2>4, <2>5
  <1>5. CASE CompleteDecision(r)
    <2>1. UNCHANGED <<row, decisions, setup>>
      BY <1>5 DEF CompleteDecision
    <2>2. decisionJob[r].state = "running" /\ row[r] /= "absent"
      BY <1>5 DEF CompleteDecision, WorkersHoldRows, NoJob
    <2>3. WorkersHoldRows'
      BY <1>0, <1>5, <2>1, <2>2 DEF CompleteDecision, WorkersHoldRows, IdleWorker
    <2> QED BY <2>1, <2>3 DEF FreshRows, DecisionPerRow
  <1>6. CASE DecisionFails(r)
    <2>1. UNCHANGED <<row, decisions, setup>>
      BY <1>6 DEF DecisionFails
    <2>2. row[r] /= "absent"
      BY <1>6 DEF DecisionFails, WorkersHoldRows, NoJob
    <2>3. WorkersHoldRows'
      BY <1>0, <1>6, <2>1, <2>2 DEF DecisionFails, WorkersHoldRows, IdleWorker
    <2> QED BY <2>1, <2>3 DEF FreshRows, DecisionPerRow
  <1> QED BY <1>1, <1>2, <1>3, <1>4, <1>5, <1>6 DEF DecisionJob

\* The other jobs and the timers leave the rows alone.
LEMMA OthersKeepRows ==
  ASSUME RowInv, StatusJob \/ InitiationTimeout \/ MonitoringTimeout \/ UNCHANGED vars
  PROVE  RowInv'
  <1>1. UNCHANGED <<row, decisions, setup, decisionJob, worker>>
    BY DEF StatusJob, InitiationTimeout, MonitoringTimeout, vars, executionVars, rowVars,
           StartStatus, Poll, StopPolling, CountRows, WriteFinalStatus, CompleteStatus,
           StatusFails
  <1> QED BY <1>1 DEF RowInv, FreshRows, WorkersHoldRows, DecisionPerRow

LEMMA RowsInductive == Spec => []RowInv
  <1>1. Init => RowInv
    BY DEF Init, RowInv, FreshRows, WorkersHoldRows, DecisionPerRow, IdleWorker
  <1>2. TypeInv /\ RowInv /\ [Next]_vars => RowInv'
    <2> SUFFICES ASSUME TypeInv, RowInv, [Next]_vars PROVE RowInv'
      OBVIOUS
    <2>1. CASE SetupJob
      BY <2>1, SetupKeepsRows
    <2>2. CASE \E r \in Rows : DecisionJob(r)
      BY <2>2, DecisionKeepsRows
    <2>3. CASE StatusJob \/ InitiationTimeout \/ MonitoringTimeout \/ UNCHANGED vars
      BY <2>3, OthersKeepRows
    <2> QED BY <2>1, <2>2, <2>3 DEF Next
  <1> QED BY <1>1, <1>2, TypeInductive, PTL DEF Spec

\* A row of decisions_to_create that is created has one decision and any other
\* row has none, through every retry of its job, and every rerun of the setup.
THEOREM OneDecisionPerRow == Spec => []DecisionPerRow
  <1>1. RowInv => DecisionPerRow
    BY DEF RowInv
  <1> QED BY <1>1, RowsInductive, PTL

-----------------------------------------------------------------------------
(* One decision for each object, if the setup is not run again.            *)

\* As long as the setup was not run again after its commit, the rows are all stored by
\* one attempt, the last.
OneInsertion == reruns = 0 =>
  /\ setup.state \notin {"handled", "completed"} => \A r \in Rows : row[r] = "absent"
  /\ \A r, s \in Rows : row[r] /= "absent" /\ row[s] /= "absent" => r.attempt = s.attempt

\* An object has at most one decision in an execution whose setup job is not run
\* again after its transaction committed.
THEOREM OneDecisionPerObject == Spec => []DecisionPerObject
  <1>1. Init => OneInsertion
    BY DEF Init, OneInsertion
  <1>2. TypeInv /\ RowInv /\ OneInsertion /\ [Next]_vars => OneInsertion'
    <2> SUFFICES ASSUME TypeInv, RowInv, OneInsertion, [Next]_vars
                 PROVE  OneInsertion'
      OBVIOUS
    <2> USE DEF executionVars, rowVars
    <2>0. /\ setup = [state |-> setup.state, attempts |-> setup.attempts]
          /\ row \in [Rows -> {"absent", "pending"} \cup Done]
          /\ reruns \in Nat
      BY Maxima DEF TypeInv, TypeOK, JobsOK, RowsOK, JobType
    <2>1. CASE InsertDecisionsToCreate
      <3>1. reruns = 0 => \A r \in Rows : row[r] = "absent"
        BY <2>1 DEF InsertDecisionsToCreate, OneInsertion
      <3>2. reruns = 0 => \A r \in Rows : row'[r] /= "absent" => r \in NewRows
        BY <2>1, <3>1 DEF InsertDecisionsToCreate
      <3>3. setup'.state = "handled" /\ reruns' = reruns
        BY <2>0, <2>1 DEF InsertDecisionsToCreate
      <3> QED BY <3>2, <3>3 DEF OneInsertion, NewRows
    <2>2. CASE SetupJob /\ ~InsertDecisionsToCreate
      <3>1. CASE SetupRerun
        BY <2>0, <3>1 DEF SetupRerun, OneInsertion
      <3> SUFFICES ASSUME ~SetupRerun PROVE OneInsertion'
        BY <3>1
      <3>2. row' = row /\ reruns' = reruns
        BY <2>2 DEF SetupJob, StartSetup, StartSetupTooLate, ListObjects,
             SetProcessing, SetupFails, CompleteSetup
      <3>3. setup'.state \notin {"handled", "completed"} =>
              setup.state \notin {"handled", "completed"}
        BY <2>0, <2>2 DEF SetupJob, StartSetup, StartSetupTooLate, ListObjects,
             SetProcessing, SetupFails, CompleteSetup, Ended
      <3> QED BY <3>2, <3>3 DEF OneInsertion
    <2>3. CASE \E r \in Rows : DecisionJob(r)
      <3>1. PICK r \in Rows : DecisionJob(r)
        BY <2>3
      <3>2. setup' = setup /\ reruns' = reruns
        BY <3>1 DEF DecisionJob, StartDecision, EvaluateObject, SampleCounts,
             CommitDecision, CompleteDecision, DecisionFails
      <3>3. \A q \in Rows : row[q] = "absent" => row'[q] = "absent"
        <4>1. CASE CommitDecision(r)
          <5>1. row[r] = "pending"
            BY <4>1 DEF CommitDecision, RowInv, WorkersHoldRows
          <5> QED BY <2>0, <4>1, <5>1 DEF CommitDecision
        <4>2. CASE ~CommitDecision(r)
          BY <3>1, <4>2 DEF DecisionJob, StartDecision, EvaluateObject, SampleCounts,
             CompleteDecision, DecisionFails
        <4> QED BY <4>1, <4>2
      <3> QED BY <3>2, <3>3 DEF OneInsertion
    <2>4. CASE StatusJob \/ InitiationTimeout \/ MonitoringTimeout \/ UNCHANGED vars
      <3>1. row' = row /\ setup' = setup /\ reruns' = reruns
        BY <2>4 DEF StatusJob, InitiationTimeout, MonitoringTimeout, vars, StartStatus,
             Poll, StopPolling, CountRows, WriteFinalStatus, CompleteStatus, StatusFails
      <3> QED BY <3>1 DEF OneInsertion
    <2> QED BY <2>1, <2>2, <2>3, <2>4 DEF Next
  <1>3. TypeInv /\ RowInv /\ OneInsertion => DecisionPerObject
    <2> SUFFICES ASSUME TypeInv, RowInv, OneInsertion, reruns = 0, NEW r \in Rows, NEW s \in Rows,
                        decisions[r] > 0, decisions[s] > 0, r.object = s.object
                 PROVE  r = s
      BY DEF DecisionPerObject
    <2>1. row[r] = "created" /\ row[s] = "created"
      BY DEF RowInv, DecisionPerRow
    <2>2. r.attempt = s.attempt
      BY <2>1 DEF OneInsertion
    <2> QED BY <2>2 DEF Rows
  <1> QED BY <1>1, <1>2, <1>3, TypeInductive, RowsInductive, PTL DEF Spec

-----------------------------------------------------------------------------
(* The end of the execution and its counts.                                *)

\* The rows that are stored, and those whose job is done.
Stored(rows) == {r \in Rows : rows[r] /= "absent"}
DoneRows(rows) == {r \in Rows : rows[r] \in Done}

\* Unless the setup ran again, the rows and the status job are stored at once, and
\* the rows are those that were planned; until then nothing is counted or ended.
StoreInv ==
  /\ statusJob.state = "none" =>
       (\A r \in Rows : row[r] = "absent") /\ counts = NoCounts /\ monitor.pc = "idle"
  /\ setup.state \notin {"handled", "completed"} =>
       statusJob.state = "none" /\ status \notin Terminal
  /\ setup.state \in {"listed", "inserting"} => planned = Cardinality(listed)
  /\ statusJob.state /= "none" => planned = Cardinality(Stored(row))

\* The status job counts rows that can no longer change, if it did not give up;
\* if it did, it has counted too few.
MonitorInv ==
  /\ monitor.pc /= "idle" => monitor.planned = planned
  /\ monitor.pc = "write" => monitor.counts.evaluated <= Cardinality(DoneRows(row))
  /\ monitor.pc \in {"count", "write"} /\ "monitoring" \notin expired => NothingLeft
  /\ monitor.pc = "write" /\ "monitoring" \notin expired => monitor.counts = CountsOf(row)

\* What an end of the execution says of its rows.
EndInv ==
  /\ status \in Terminal /\ "monitoring" \notin expired =>
       NothingLeft /\ counts = CountsOf(row)
  /\ status = "success" => NothingLeft /\ Cardinality(DoneRows(row)) = planned

FinalInv == reruns = 0 => StoreInv /\ MonitorInv /\ EndInv

\* The count of evaluated objects is that of the rows that are done.
LEMMA EvaluatedAreDone ==
  ASSUME NEW rows
  PROVE  /\ IsFiniteSet(DoneRows(rows)) /\ IsFiniteSet(Stored(rows))
         /\ Cardinality(DoneRows(rows)) \in Nat /\ Cardinality(Stored(rows)) \in Nat
         /\ CountsOf(rows).evaluated = Cardinality(DoneRows(rows))
  <1> DEFINE C == {r \in Rows : rows[r] = "created"}
             M == {r \in Rows : rows[r] = "mismatch"}
  <1>1. /\ C \in SUBSET Rows /\ M \in SUBSET Rows
        /\ DoneRows(rows) \in SUBSET Rows /\ Stored(rows) \in SUBSET Rows
    BY DEF DoneRows, Stored
  <1>2. C \cap M = {} /\ DoneRows(rows) = C \cup M
    BY DEF DoneRows, Done
  <1>3. CountsOf(rows).evaluated = Cardinality(C) + Cardinality(M)
    BY DEF CountsOf
  <1> HIDE DEF C, M
  <1>4. /\ IsFiniteSet(C) /\ IsFiniteSet(M)
        /\ IsFiniteSet(DoneRows(rows)) /\ IsFiniteSet(Stored(rows))
    BY <1>1, RowsFinite, FS_Subset
  <1>5. Cardinality(C \cap M) = 0
    BY <1>2, FS_EmptySet
  <1>6. Cardinality(C \cup M) = Cardinality(C) + Cardinality(M) - Cardinality(C \cap M)
    BY <1>4, FS_Union
  <1>7. /\ Cardinality(C) \in Nat /\ Cardinality(M) \in Nat
        /\ Cardinality(DoneRows(rows)) \in Nat /\ Cardinality(Stored(rows)) \in Nat
    BY <1>4, FS_CardinalityType
  <1> QED BY <1>2, <1>3, <1>4, <1>5, <1>6, <1>7

\* Nothing is counted where nothing is stored.
LEMMA NoneCounted ==
  ASSUME NEW rows, \A r \in Rows : rows[r] = "absent"
  PROVE  CountsOf(rows) = NoCounts
  <1>1. /\ {r \in Rows : rows[r] = "created"} = {}
        /\ {r \in Rows : rows[r] = "mismatch"} = {}
    OBVIOUS
  <1>2. Cardinality({}) = 0
    BY FS_EmptySet
  <1> QED BY <1>1, <1>2 DEF CountsOf, NoCounts

\* Every stored row is done if as many are done as are stored.
LEMMA AllDone ==
  ASSUME NEW rows \in [Rows -> {"absent", "pending"} \cup Done],
         Cardinality(DoneRows(rows)) = Cardinality(Stored(rows))
  PROVE  \A r \in Rows : rows[r] /= "pending"
  <1>1. DoneRows(rows) \subseteq Stored(rows)
    BY DEF DoneRows, Stored, Done
  <1>2. DoneRows(rows) = Stored(rows)
    BY <1>1, EvaluatedAreDone, FS_Subset
  <1> QED BY <1>2 DEF DoneRows, Stored, Done

LEMMA DoneAreStored ==
  ASSUME NEW rows \in [Rows -> {"absent", "pending"} \cup Done]
  PROVE  Cardinality(DoneRows(rows)) <= Cardinality(Stored(rows))
  <1>1. DoneRows(rows) \subseteq Stored(rows)
    BY DEF DoneRows, Stored, Done
  <1> QED BY <1>1, EvaluatedAreDone, FS_Subset

\* The rows that the setup stores are as many as the objects it listed.
LEMMA OneRowEach ==
  ASSUME TypeInv, setup.state = "inserting"
  PROVE  Cardinality(NewRows) = Cardinality(listed)
  <1> DEFINE f == [o \in listed |-> [object |-> o, attempt |-> setup.attempts]]
  <1>1. setup.attempts \in 1 .. MaxSetupAttempts /\ listed \in SUBSET Objects
    BY Maxima DEF TypeInv, TypeOK, JobsOK, LocalOK, JobType, AttemptsInv
  <1>2. f \in Bijection(listed, NewRows)
    <2>1. f \in [listed -> NewRows]
      BY <1>1 DEF NewRows, Rows
    <2>2. \A o, p \in listed : f[o] = f[p] => o = p
      OBVIOUS
    <2>3. ASSUME NEW r \in NewRows PROVE \E o \in listed : f[o] = r
      <3>1. r.object \in listed /\ r = [object |-> r.object, attempt |-> setup.attempts]
        BY DEF NewRows, Rows
      <3> QED BY <3>1
    <2> QED BY <2>1, <2>2, <2>3 DEF Bijection, Injection, Surjection, IsInjective
  <1>3. IsFiniteSet(listed)
    BY <1>1, BoundsAssumption, FS_Subset
  <1> QED BY <1>2, <1>3, FS_Bijection DEF ExistsBijection

\* A row that becomes done was stored, and is one more.
LEMMA OneMoreDone ==
  ASSUME NEW rows \in [Rows -> {"absent", "pending"} \cup Done], NEW r \in Rows,
         rows[r] = "pending", NEW s \in Done, NEW next, next = [rows EXCEPT ![r] = s]
  PROVE  /\ Stored(next) = Stored(rows)
         /\ Cardinality(DoneRows(rows)) <= Cardinality(DoneRows(next))
  <1>1. Stored(next) = Stored(rows)
    BY DEF Stored, Done
  <1>2. DoneRows(rows) \subseteq DoneRows(next)
    BY DEF DoneRows, Done
  <1> QED BY <1>1, <1>2, EvaluatedAreDone, FS_Subset


\* What the invariant gives as long as the setup has not run again.
LEMMA OrderlyFacts ==
  ASSUME TypeInv, RowInv, FinalInv, Next, reruns' = 0
  PROVE  /\ StoreInv /\ MonitorInv /\ EndInv /\ reruns = 0 /\ ~SetupRerun
         /\ row \in [Rows -> {"absent", "pending"} \cup Done]
         /\ setup = [state |-> setup.state, attempts |-> setup.attempts]
         /\ statusJob = [state |-> statusJob.state, attempts |-> statusJob.attempts]
         /\ monitor = [pc |-> monitor.pc, planned |-> monitor.planned,
                       counts |-> monitor.counts]
         /\ monitor.pc /= "idle" => statusJob.state = "running"
         /\ monitor.counts.evaluated \in Nat /\ planned \in Nat
  <1>1. reruns \in Nat /\ (SetupRerun => reruns' = reruns + 1)
    BY Maxima DEF TypeInv, TypeOK, JobsOK, SetupRerun
  <1>2. reruns' = reruns \/ SetupRerun
    BY DEF Next, SetupJob, StatusJob, DecisionJob, StartSetup, StartSetupTooLate,
       ListObjects, SetProcessing, InsertDecisionsToCreate, SetupFails, CompleteSetup,
       StartStatus, Poll, StopPolling, CountRows, WriteFinalStatus, CompleteStatus,
       StatusFails, StartDecision, EvaluateObject, SampleCounts, CommitDecision,
       CompleteDecision, DecisionFails, InitiationTimeout, MonitoringTimeout
  <1>3. reruns = 0 /\ ~SetupRerun
    BY <1>1, <1>2
  <1>4. monitor \in MonitorType /\ monitor.counts.evaluated \in Nat
    BY RowsFinite DEF TypeInv, TypeOK, LocalOK, MonitorType, CountType
  <1>5. planned \in Nat
    BY BoundsAssumption, FS_CardinalityType DEF TypeInv, TypeOK, ExecutionOK
  <1> QED BY <1>3, <1>4, <1>5 DEF FinalInv, TypeInv, TypeOK, RowsOK, JobsOK, JobType,
             AttemptsInv,
             MonitorType

LEMMA FinalInvStep ==
  ASSUME TypeInv, RowInv, FinalInv, Next, reruns' = 0
  PROVE  StoreInv' /\ MonitorInv' /\ EndInv'
  <1> USE DEF executionVars, rowVars
  <1>0. /\ StoreInv /\ MonitorInv /\ EndInv /\ reruns = 0 /\ ~SetupRerun
        /\ row \in [Rows -> {"absent", "pending"} \cup Done]
        /\ setup = [state |-> setup.state, attempts |-> setup.attempts]
        /\ statusJob = [state |-> statusJob.state, attempts |-> statusJob.attempts]
        /\ monitor = [pc |-> monitor.pc, planned |-> monitor.planned,
                      counts |-> monitor.counts]
        /\ monitor.pc /= "idle" => statusJob.state = "running"
        /\ monitor.counts.evaluated \in Nat /\ planned \in Nat
    BY OrderlyFacts
  <1>1. CASE StartSetup
    BY <1>0, <1>1 DEF StartSetup, Started, StoreInv, MonitorInv, EndInv, NothingLeft,
       Terminal
  <1>2. CASE StartSetupTooLate
    <2>1. /\ statusJob.state = "none" /\ monitor.pc = "idle" /\ status \notin Terminal
          /\ counts = NoCounts /\ \A r \in Rows : row[r] = "absent"
      BY <1>0, <1>2 DEF StartSetupTooLate, StoreInv
    <2>2. /\ status' = "failure" \/ status' = status
          /\ setup'.state \in {"handled", "completed"} \/ status' = status
          /\ setup'.state \notin {"listed", "inserting"}
          /\ UNCHANGED <<planned, counts, row, statusJob, monitor, listed>>
      BY <1>0, <1>2 DEF StartSetupTooLate, Started, AfterError
    <2>3. counts = CountsOf(row) /\ NothingLeft
      BY <2>1, NoneCounted DEF NothingLeft
    <2>4. StoreInv' /\ MonitorInv'
      BY <1>0, <2>1, <2>2 DEF StoreInv, MonitorInv
    <2>5. EndInv'
      BY <2>1, <2>2, <2>3 DEF EndInv, NothingLeft, Terminal
    <2> QED BY <2>4, <2>5
  <1>3. CASE ListObjects
    <2>1. /\ statusJob.state = "none" /\ monitor.pc = "idle" /\ status \notin Terminal
          /\ counts = NoCounts /\ \A r \in Rows : row[r] = "absent"
      BY <1>0, <1>3 DEF ListObjects, StoreInv
    <2>2. /\ UNCHANGED <<status, counts, row, statusJob, monitor>>
          /\ setup'.state = "listed" /\ planned' = Cardinality(listed')
      BY <1>0, <1>3 DEF ListObjects
    <2>3. StoreInv' /\ MonitorInv'
      BY <2>1, <2>2 DEF StoreInv, MonitorInv
    <2>4. EndInv'
      BY <2>1, <2>2 DEF EndInv, Terminal
    <2> QED BY <2>3, <2>4
  <1>4. CASE SetProcessing
    BY <1>0, <1>4 DEF SetProcessing, StoreInv, MonitorInv, EndInv, NothingLeft, Terminal
  <1>5. CASE InsertDecisionsToCreate
    <2>1. /\ statusJob.state = "none" /\ monitor.pc = "idle" /\ status \notin Terminal
          /\ planned = Cardinality(listed) /\ \A r \in Rows : row[r] = "absent"
      BY <1>0, <1>5 DEF InsertDecisionsToCreate, StoreInv
    <2>2. /\ statusJob'.state = "queued" /\ setup'.state = "handled"
          /\ UNCHANGED <<status, planned, counts, monitor>>
      BY <1>0, <1>5, <2>1 DEF InsertDecisionsToCreate, EnqueueUnique, NewJob
    <2>3. Cardinality(NewRows) = planned
      BY <1>5, <2>1, OneRowEach DEF InsertDecisionsToCreate
    <2>4. Stored(row') = NewRows
      <3>1. \A r \in Rows : row'[r] /= "absent" <=> r \in NewRows
        BY <1>5, <2>1 DEF InsertDecisionsToCreate
      <3> QED BY <3>1 DEF Stored, NewRows
    <2>5. StoreInv'
      BY <2>1, <2>2, <2>3, <2>4 DEF StoreInv
    <2>6. MonitorInv' /\ EndInv'
      BY <2>1, <2>2 DEF MonitorInv, EndInv, Terminal
    <2> QED BY <2>5, <2>6
  <1>6. CASE SetupFails
    BY <1>0, <1>6 DEF SetupFails, AfterError, StoreInv, MonitorInv, EndInv, NothingLeft,
       Terminal
  <1>7. CASE CompleteSetup
    BY <1>0, <1>7 DEF CompleteSetup, Ended, StoreInv, MonitorInv, EndInv, NothingLeft,
       Terminal
  <1>8. CASE StartStatus
    <2>1. /\ UNCHANGED <<status, planned, counts, expired, row, setup, listed>>
          /\ statusJob.state = "queued" /\ statusJob'.state = "running"
          /\ monitor'.pc \in {"list", "exit"} /\ monitor'.planned = planned
      BY <1>0, <1>8 DEF StartStatus, Started
    <2>2. StoreInv'
      BY <1>0, <2>1 DEF StoreInv
    <2> QED BY <1>0, <2>1, <2>2 DEF MonitorInv, EndInv, NothingLeft
  <1>9. CASE Poll
    BY <1>0, <1>9 DEF Poll, IdleMonitor, StoreInv, MonitorInv, EndInv, NothingLeft, Terminal
  <1>10. CASE StopPolling
    BY <1>0, <1>10 DEF StopPolling, StoreInv, MonitorInv, EndInv, NothingLeft, Terminal
  <1>11. CASE CountRows
    <2>1. /\ UNCHANGED <<status, planned, counts, expired, row, setup, statusJob, listed>>
          /\ monitor.pc = "count" /\ monitor'.pc = "write"
          /\ monitor'.counts = CountsOf(row) /\ monitor'.planned = monitor.planned
      BY <1>0, <1>11 DEF CountRows
    <2>2. monitor'.counts.evaluated <= Cardinality(DoneRows(row))
      BY <2>1, EvaluatedAreDone
    <2>3. MonitorInv'
      BY <1>0, <2>1, <2>2 DEF MonitorInv, NothingLeft
    <2> QED BY <1>0, <2>1, <2>3 DEF StoreInv, EndInv, NothingLeft
  <1>12. CASE WriteFinalStatus
    <2>1. /\ UNCHANGED <<planned, expired, row, setup, statusJob, listed>>
          /\ monitor.pc = "write" /\ monitor'.pc = "exit"
          /\ monitor'.planned = monitor.planned /\ counts' = monitor.counts
          /\ status' = FinalStatus(monitor.counts, monitor.planned)
          /\ statusJob.state = "running"
      BY <1>0, <1>12 DEF WriteFinalStatus
    <2>2. setup.state \in {"handled", "completed"} /\ planned = Cardinality(Stored(row))
      BY <1>0, <2>1 DEF StoreInv
    <2>3. StoreInv' /\ MonitorInv'
      BY <1>0, <2>1, <2>2 DEF StoreInv, MonitorInv
    <2>4. "monitoring" \notin expired => NothingLeft /\ monitor.counts = CountsOf(row)
      BY <1>0, <2>1 DEF MonitorInv
    <2>5. ASSUME status' = "success"
          PROVE  NothingLeft /\ Cardinality(DoneRows(row)) = planned
      <3>1. monitor.counts.evaluated = planned
        BY <1>0, <2>1, <2>5 DEF FinalStatus, MonitorInv
      <3>2. /\ Cardinality(DoneRows(row)) \in Nat
            /\ planned <= Cardinality(DoneRows(row))
            /\ Cardinality(DoneRows(row)) <= planned
        BY <1>0, <2>1, <2>2, <3>1, DoneAreStored, EvaluatedAreDone DEF MonitorInv
      <3>3. Cardinality(DoneRows(row)) = planned
        BY <1>0, <3>2
      <3> QED BY <1>0, <2>2, <3>3, AllDone DEF NothingLeft
    <2>6. EndInv'
      BY <2>1, <2>4, <2>5 DEF EndInv, NothingLeft
    <2> QED BY <2>3, <2>6
  <1>13. CASE CompleteStatus
    BY <1>0, <1>13 DEF CompleteStatus, Ended, IdleMonitor, StoreInv, MonitorInv, EndInv,
       NothingLeft, Terminal
  <1>14. CASE StatusFails
    BY <1>0, <1>14 DEF StatusFails, AfterError, IdleMonitor, StoreInv, MonitorInv, EndInv,
       NothingLeft, Terminal
  <1>15. ASSUME NEW r \in Rows, StartDecision(r) PROVE StoreInv' /\ MonitorInv' /\ EndInv'
    BY <1>0, <1>15 DEF StartDecision, StoreInv, MonitorInv, EndInv, NothingLeft, Terminal
  <1>16. ASSUME NEW r \in Rows, EvaluateObject(r) PROVE StoreInv' /\ MonitorInv' /\ EndInv'
    BY <1>0, <1>16 DEF EvaluateObject, StoreInv, MonitorInv, EndInv, NothingLeft, Terminal
  <1>17. ASSUME NEW r \in Rows, SampleCounts(r) PROVE StoreInv' /\ MonitorInv' /\ EndInv'
    BY <1>0, <1>17 DEF SampleCounts, StoreInv, MonitorInv, EndInv, NothingLeft, Terminal
  <1>18. ASSUME NEW r \in Rows, CommitDecision(r) PROVE StoreInv' /\ MonitorInv' /\ EndInv'
    <2>1. row[r] = "pending" /\ ~NothingLeft
      BY <1>18 DEF CommitDecision, RowInv, WorkersHoldRows, NothingLeft
    <2>2. /\ row' = [row EXCEPT ![r] = NewStatus(r)] /\ NewStatus(r) \in Done
          /\ UNCHANGED <<planned, expired, setup, statusJob, listed, monitor>>
          /\ status' = "processing" \/ (status' = status /\ counts' = counts)
      BY <1>18 DEF CommitDecision, NewStatus, Done
    <2>3. /\ Stored(row') = Stored(row)
          /\ Cardinality(DoneRows(row)) <= Cardinality(DoneRows(row'))
      BY <1>0, <2>1, <2>2, OneMoreDone
    <2>4. statusJob.state /= "none" /\ setup.state \in {"handled", "completed"}
      BY <1>0, <2>1 DEF StoreInv
    <2>5. StoreInv'
      BY <1>0, <2>2, <2>3, <2>4 DEF StoreInv
    <2>6. Cardinality(DoneRows(row)) \in Nat /\ Cardinality(DoneRows(row')) \in Nat
      BY EvaluatedAreDone
    <2>7. MonitorInv'
      BY <1>0, <2>1, <2>2, <2>3, <2>6 DEF MonitorInv
    <2>8. EndInv'
      BY <1>0, <2>1, <2>2 DEF EndInv, Terminal
    <2> QED BY <2>5, <2>7, <2>8
  <1>19. ASSUME NEW r \in Rows, CompleteDecision(r) PROVE StoreInv' /\ MonitorInv' /\ EndInv'
    BY <1>0, <1>19 DEF CompleteDecision, StoreInv, MonitorInv, EndInv, NothingLeft, Terminal
  <1>20. ASSUME NEW r \in Rows, DecisionFails(r) PROVE StoreInv' /\ MonitorInv' /\ EndInv'
    BY <1>0, <1>20 DEF DecisionFails, StoreInv, MonitorInv, EndInv, NothingLeft, Terminal
  <1>21. CASE InitiationTimeout
    BY <1>0, <1>21 DEF InitiationTimeout, StoreInv, MonitorInv, EndInv, NothingLeft,
       Terminal
  <1>22. CASE MonitoringTimeout
    BY <1>0, <1>22 DEF MonitoringTimeout, StoreInv, MonitorInv, EndInv, NothingLeft,
       Terminal
  <1> QED BY <1>0, <1>1, <1>2, <1>3, <1>4, <1>5, <1>6, <1>7, <1>8, <1>9, <1>10, <1>11,
             <1>12, <1>13, <1>14, <1>15, <1>16, <1>17, <1>18, <1>19, <1>20, <1>21,
             <1>22 DEF Next, SetupJob, StatusJob, DecisionJob

\* An execution that has ended has the counts of its rows, although its jobs wrote
\* counts that missed each other's rows, unless the monitoring gave up; and one that
\* succeeded has evaluated every planned object even then.  (The setup is not run
\* again after its commit.)
THEOREM CountsAreFinal == Spec => []FinalCounts
  <1>1. Init => FinalInv
    <2> SUFFICES ASSUME Init PROVE StoreInv /\ MonitorInv /\ EndInv
      BY DEF FinalInv
    <2> QED BY DEF Init, StoreInv, MonitorInv, EndInv, NoJob, NewJob, IdleMonitor, Terminal
  <1>2. TypeInv /\ RowInv /\ FinalInv /\ [Next]_vars => FinalInv'
    <2>1. CASE UNCHANGED vars
      BY <2>1 DEF vars, executionVars, rowVars, FinalInv, StoreInv, MonitorInv, EndInv,
         NothingLeft
    <2>2. CASE Next
      BY <2>2, FinalInvStep DEF FinalInv
    <2> QED BY <2>1, <2>2
  <1>3. FinalInv => FinalCounts
    <2>1. /\ DoneRows(row) = {r \in Rows : row[r] \in Done}
      BY DEF DoneRows
    <2> QED BY <2>1 DEF FinalInv, EndInv, FinalCounts, Orderly, Terminal
  <1> QED BY <1>1, <1>2, <1>3, TypeInductive, RowsInductive, PTL DEF Spec

=============================================================================
