--------------------------- MODULE WebhookProofs ---------------------------
(***************************************************************************)
(* Proofs about WebhookDelivery: attempts of jobs, that whoever listens    *)
(* gets a delivery, that jobs of one delivery do not overlap, and that a   *)
(* delivery is given up only after all its requests.  And proofs about     *)
(* WebhookSecrets, which shares no state with it: types, and that a        *)
(* permanent secret remains until a call revokes what another has counted. *)
(***************************************************************************)
EXTENDS WebhookDelivery, WebhookSecrets, FiniteSetTheorems, TLAPS

-----------------------------------------------------------------------------
(* Types.                                                                  *)

JobStates == {"none", "queued", "running", "sending", "accepted", "refused", "handled",
              "completed", "discarded"}

Job == [state : JobStates, runs : 0 .. MaxJobAttempts, seen : Nat]

\* A job that waits has an attempt left.
Startable(j) == j.state = "queued" => j.runs < MaxJobAttempts

Row == {NoDelivery} \cup [status : {"pending", "success", "failed"}, attempts : Nat]

\* Types of rows and jobs; River runs no job more often than its attempts allow.
TypeOK ==
  /\ event \in [Events -> {"none", "stored", "dropped", "expired"}]
  /\ webhook \in [Webhooks -> {"absent", "listening", "deaf", "deleted"}]
  /\ delivery \in [Deliveries -> Row]
  /\ dispatch \in [Events -> Job]
  /\ targets \in [Events -> SUBSET Webhooks]
  /\ job \in [Deliveries -> [Slots -> Job]]
  /\ sends \in [Deliveries -> Nat]
  /\ reruns \in Nat
  /\ \A e \in Events : Startable(dispatch[e])
  /\ \A d \in Deliveries, k \in Slots : Startable(job[d][k])

\* What River does with a job that failed.
LEMMA AfterErrorType ==
  ASSUME NEW j \in Job
  PROVE  /\ AfterError(j) \in Job /\ Startable(AfterError(j))
         /\ AfterError(j).state \in {"queued", "discarded"}
  BY BoundsAssumption DEF AfterError, Job, JobStates, Startable

\* What River does with a job that it starts.
LEMMA StartedType ==
  ASSUME NEW j \in Job, j.state = "queued", Startable(j), NEW s \in JobStates \ {"queued"}
  PROVE  Started(j, s) \in Job /\ Startable(Started(j, s)) /\ Started(j, s).state = s
  BY BoundsAssumption DEF Started, Job, JobStates, Startable

LEMMA NewJobType == NewJob \in Job /\ Startable(NewJob) /\ NoJob \in Job /\ Startable(NoJob)
  BY BoundsAssumption DEF NewJob, NoJob, Job, JobStates, Startable

LEMMA InitType == Init => TypeOK
<1> SUFFICES ASSUME Init PROVE TypeOK
  OBVIOUS
<1> QED BY NewJobType DEF Init, TypeOK, Row

\* One step of a job, with the slot that may be filled, changes the jobs to this.
LEMMA JobsType ==
  ASSUME TypeOK, NEW d \in Deliveries, NEW k \in Slots, NEW j \in Job, Startable(j),
         job' = [job EXCEPT ![d][k] = j]
  PROVE  /\ job' \in [Deliveries -> [Slots -> Job]]
         /\ \A x \in Deliveries, n \in Slots : Startable(job'[x][n])
         /\ job'[d][k] = j
         /\ \A n \in Slots \ {k} : job'[d][n] = job[d][n]
         /\ \A x \in Deliveries \ {d} : job'[x] = job[x]
  BY DEF TypeOK

\* A job keeps everything but its state.
LEMMA StateType ==
  ASSUME NEW j \in Job, NEW s \in JobStates \ {"queued"}
  PROVE  LET h == [j EXCEPT !.state = s]
         IN  h \in Job /\ Startable(h) /\ h.state = s /\ h.seen = j.seen
  BY DEF Job, JobStates, Startable

\* An update keeps a row a row, and changes no other and none that is absent.
LEMMA WriteType ==
  ASSUME TypeOK, NEW d \in Deliveries, NEW row, WriteDelivery(d, row),
         delivery[d] /= NoDelivery => row \in Row \ {NoDelivery}
  PROVE  /\ delivery' \in [Deliveries -> Row]
         /\ delivery'[d] = NoDelivery <=> delivery[d] = NoDelivery
         /\ (delivery[d] /= NoDelivery /\ delivery'[d] = row) \/ delivery'[d] = delivery[d]
         /\ \A x \in Deliveries \ {d} : delivery'[x] = delivery[x]
  BY DEF TypeOK, WriteDelivery

-----------------------------------------------------------------------------
(* The steps of a delivery job.                                            *)

\* What a step writes besides jobs.
Writes(d) ==
  /\ UNCHANGED <<event, webhook, dispatch, targets>>
  /\ delivery' \in [Deliveries -> Row] /\ sends' \in [Deliveries -> Nat]
  /\ reruns' \in Nat /\ reruns' >= reruns
  /\ delivery'[d] = NoDelivery <=> delivery[d] = NoDelivery
  /\ \A x \in Deliveries \ {d} : delivery'[x] = delivery[x] /\ sends'[x] = sends[x]

Working == {"queued", "sending", "accepted", "refused"}

\* The job moves on alone, and starts to work only when it runs again ...
Moves(d, k) ==
  /\ job[d][k].state /= "none" /\ job'[d][k].state /= "none"
  /\ job'[d][k].state \in Working => job[d][k].state \in Working \/ reruns' > reruns
  /\ \A n \in Slots \ {k} : job'[d][n] = job[d][n]

\* ... or hands the work to the next job of the delivery.
HandsOver(d, k) ==
  /\ job[d][k].state = "refused" /\ job'[d][k].state = "handled"
  /\ \E n \in Slots \ {k} :
       /\ job[d][n] = NoJob /\ job'[d][n] = NewJob
       /\ \A i \in Slots \ {k, n} : job'[d][i] = job[d][i]

Effect(d, k) ==
  /\ Writes(d)
  /\ job' \in [Deliveries -> [Slots -> Job]]
  /\ \A x \in Deliveries, n \in Slots : Startable(job'[x][n])
  /\ \A x \in Deliveries \ {d} : job'[x] = job[x]
  /\ Moves(d, k) \/ HandsOver(d, k)

\* No more attempts are counted than requests were sent, in the row and in the jobs.
Count(d) ==
  /\ delivery[d].status = "failed" => sends[d] >= MaxAttempts
  /\ delivery[d].attempts <= sends[d]
  /\ \A k \in Slots :
       /\ job[d][k].state = "sending" => job[d][k].seen <= sends[d]
       /\ job[d][k].state \in {"accepted", "refused"} => job[d][k].seen + 1 <= sends[d]

\* A step in which one job moves on to j.
LEMMA MoveStep ==
  ASSUME TypeOK, NEW d \in Deliveries, NEW k \in Slots, NEW j \in Job, Startable(j),
         job' = [job EXCEPT ![d][k] = j], Writes(d),
         job[d][k].state /= "none", j.state /= "none",
         j.state \in Working => job[d][k].state \in Working \/ reruns' > reruns
  PROVE  /\ Effect(d, k)
         /\ job'[d][k] = j /\ \A n \in Slots \ {k} : job'[d][n] = job[d][n]
<1>1. /\ job' \in [Deliveries -> [Slots -> Job]]
      /\ \A x \in Deliveries, n \in Slots : Startable(job'[x][n])
      /\ job'[d][k] = j
      /\ \A n \in Slots \ {k} : job'[d][n] = job[d][n]
      /\ \A x \in Deliveries \ {d} : job'[x] = job[x]
  BY JobsType
<1>2. Moves(d, k)
  BY <1>1 DEF Moves
<1> QED BY <1>1, <1>2 DEF Effect

LEMMA StartDeliveryStep ==
  ASSUME TypeOK, NEW d \in Deliveries, NEW k \in Slots, StartDelivery(d, k)
  PROVE  Effect(d, k) /\ (Count(d) => Count(d)')
<1> DEFINE j == Started(job[d][k], "sending")
           h == [j EXCEPT !.seen = delivery[d].attempts]
<1>1. j \in Job /\ Startable(j) /\ j.state = "sending"
  BY StartedType DEF TypeOK, JobStates, StartDelivery
<1>2. delivery[d].attempts \in Nat
  BY DEF TypeOK, Row, NoDelivery
<1>3. h \in Job /\ Startable(h) /\ h.state = "sending" /\ h.seen = delivery[d].attempts
  <2> HIDE DEF j
  <2> QED BY <1>1, <1>2 DEF Job, Startable
<1>4. job' = [job EXCEPT ![d][k] = h]
  BY DEF StartDelivery, SetJob
<1> HIDE DEF h
<1>5. Writes(d)
  BY DEF StartDelivery, JobLocal, Writes, TypeOK
<1>6. Effect(d, k) /\ job'[d][k] = h /\ \A n \in Slots \ {k} : job'[d][n] = job[d][n]
  BY <1>3, <1>4, <1>5, MoveStep DEF StartDelivery, Working
<1>7. Count(d) => Count(d)'
  BY <1>3, <1>6 DEF Count, StartDelivery
<1> QED BY <1>6, <1>7

\* A step after which the job neither sends nor knows of an answer counts nothing.
LEMMA RestStep ==
  ASSUME TypeOK, NEW d \in Deliveries, NEW k \in Slots, NEW j \in Job, Startable(j),
         job' = [job EXCEPT ![d][k] = j], UNCHANGED JobLocal, UNCHANGED delivery, UNCHANGED sends,
         reruns' \in Nat, reruns' >= reruns,
         job[d][k].state /= "none", j.state \in {"queued", "discarded", "handled", "completed"},
         j.state = "queued" => job[d][k].state \in Working \/ reruns' > reruns
  PROVE  Effect(d, k) /\ (Count(d) => Count(d)')
<1>1. Writes(d)
  BY DEF JobLocal, Writes, TypeOK
<1>2. Effect(d, k) /\ job'[d][k] = j /\ \A n \in Slots \ {k} : job'[d][n] = job[d][n]
  BY <1>1, MoveStep DEF Working
<1>3. Count(d) => Count(d)'
  BY <1>2 DEF Count
<1> QED BY <1>2, <1>3

LEMMA QuietSteps ==
  ASSUME TypeOK, NEW d \in Deliveries, NEW k \in Slots,
         \/ SkipDelivery(d, k) \/ LoadFails(d, k) \/ DeliveryFails(d, k)
         \/ CompleteDelivery(d, k) \/ DeliveryRerun(d, k)
  PROVE  Effect(d, k) /\ (Count(d) => Count(d)')
<1>0. job[d][k] \in Job /\ Startable(job[d][k]) /\ reruns \in Nat
  BY DEF TypeOK
<1>1. CASE SkipDelivery(d, k)
  <2> DEFINE h == Started(job[d][k], "handled")
  <2>1. h \in Job /\ Startable(h) /\ h.state = "handled"
    BY <1>0, <1>1, StartedType DEF SkipDelivery, JobStates
  <2>2. job' = [job EXCEPT ![d][k] = h] /\ job[d][k].state = "queued"
        /\ UNCHANGED JobLocal /\ UNCHANGED delivery /\ UNCHANGED sends
        /\ reruns' \in Nat /\ reruns' >= reruns
    BY <1>0, <1>1 DEF SkipDelivery, SetJob
  <2> HIDE DEF h
  <2> QED BY <1>0, <2>1, <2>2, RestStep
<1>2. CASE LoadFails(d, k)
  <2> DEFINE j == Started(job[d][k], "sending")
             h == AfterError(j)
  <2>1. j \in Job
    BY <1>0, <1>2, StartedType DEF LoadFails, JobStates
  <2>2. h \in Job /\ Startable(h) /\ h.state \in {"queued", "discarded"}
    BY <2>1, AfterErrorType
  <2>3. job' = [job EXCEPT ![d][k] = h] /\ job[d][k].state = "queued"
        /\ UNCHANGED JobLocal /\ UNCHANGED delivery /\ UNCHANGED sends
        /\ reruns' \in Nat /\ reruns' >= reruns
    BY <1>0, <1>2 DEF LoadFails, SetJob
  <2> HIDE DEF h
  <2> QED BY <1>0, <2>2, <2>3, RestStep DEF Working
<1>3. CASE DeliveryFails(d, k) \/ DeliveryRerun(d, k)
  <2> DEFINE h == AfterError(job[d][k])
  <2>1. h \in Job /\ Startable(h) /\ h.state \in {"queued", "discarded"}
    BY <1>0, AfterErrorType
  <2>2. job' = [job EXCEPT ![d][k] = h] /\ UNCHANGED JobLocal /\ UNCHANGED delivery /\ UNCHANGED sends
    BY <1>3 DEF DeliveryFails, DeliveryRerun, SetJob
  <2>3. /\ reruns' \in Nat /\ reruns' >= reruns
        /\ job[d][k].state \in {"sending", "accepted", "refused"} \/ reruns' > reruns
        /\ job[d][k].state /= "none"
    BY <1>0, <1>3 DEF DeliveryFails, DeliveryRerun
  <2> HIDE DEF h
  <2> QED BY <2>1, <2>2, <2>3, RestStep DEF Working
<1>4. CASE CompleteDelivery(d, k)
  <2> DEFINE h == [job[d][k] EXCEPT !.state = "completed", !.seen = 0]
  <2>1. \A j \in Job : LET c == [j EXCEPT !.state = "completed", !.seen = 0]
                       IN  c \in Job /\ Startable(c) /\ c.state = "completed"
    BY DEF Job, JobStates, Startable
  <2>2. h \in Job /\ Startable(h) /\ h.state = "completed"
    BY <1>0, <2>1
  <2>3. job' = [job EXCEPT ![d][k] = h] /\ job[d][k].state = "handled"
        /\ UNCHANGED JobLocal /\ UNCHANGED delivery /\ UNCHANGED sends
        /\ reruns' \in Nat /\ reruns' >= reruns
    BY <1>0, <1>4 DEF CompleteDelivery, SetJob
  <2> HIDE DEF h
  <2> QED BY <1>0, <2>2, <2>3, RestStep
<1> QED BY <1>1, <1>2, <1>3, <1>4

LEMMA SendWebhookStep ==
  ASSUME TypeOK, NEW d \in Deliveries, NEW k \in Slots, SendWebhook(d, k)
  PROVE  Effect(d, k) /\ (Count(d) => Count(d)')
<1>0. job[d][k] \in Job /\ job[d][k].seen \in Nat /\ sends[d] \in Nat
  BY DEF TypeOK, Job
<1>1. PICK s \in {"accepted", "refused"} : SetJob(d, k, [job[d][k] EXCEPT !.state = s])
  BY DEF SendWebhook
<1> DEFINE h == [job[d][k] EXCEPT !.state = s]
<1>2. h \in Job /\ Startable(h) /\ h.state = s /\ h.seen = job[d][k].seen
  BY <1>0, StateType DEF JobStates
<1>3. job' = [job EXCEPT ![d][k] = h]
  BY <1>1 DEF SetJob
<1> HIDE DEF h
<1>4. Writes(d) /\ sends'[d] = sends[d] + 1 /\ delivery' = delivery
  BY DEF SendWebhook, JobLocal, Writes, TypeOK
<1>5. Effect(d, k) /\ job'[d][k] = h /\ \A n \in Slots \ {k} : job'[d][n] = job[d][n]
  BY <1>2, <1>3, <1>4, MoveStep DEF SendWebhook, Working
<1>6. Count(d) => Count(d)'
  <2> SUFFICES ASSUME Count(d) PROVE Count(d)'
    OBVIOUS
  <2>1. job[d][k].state = "sending"
    BY DEF SendWebhook
  <2>2. \A n \in Slots : job[d][n].seen \in Nat
    BY DEF TypeOK, Job
  <2>3. delivery[d].attempts \in Nat /\ MaxAttempts \in Nat
    BY BoundsAssumption DEF TypeOK, Row, NoDelivery
  <2> QED BY <1>0, <1>2, <1>4, <1>5, <2>1, <2>2, <2>3 DEF Count
<1> QED BY <1>5, <1>6

\* A job handled is a job that moves on.
LEMMA HandleType ==
  ASSUME TypeOK, NEW d \in Deliveries, NEW k \in Slots
  PROVE  \E h \in Job : /\ Startable(h) /\ h.state = "handled"
                        /\ Handle(d, k) = [job[d] EXCEPT ![k] = h]
<1> DEFINE h == [job[d][k] EXCEPT !.state = "handled"]
<1>0. job[d][k] \in Job /\ "handled" \in JobStates \ {"queued"}
  BY DEF TypeOK, JobStates
<1>1. h \in Job /\ Startable(h) /\ h.state = "handled"
  BY <1>0, StateType
<1>2. Handle(d, k) = [job[d] EXCEPT ![k] = h]
  BY DEF Handle
<1> HIDE DEF h
<1> QED BY <1>1, <1>2

LEMMA StatusType ==
  ASSUME NEW r \in Row \ {NoDelivery}, NEW s \in {"success", "failed"}
  PROVE  LET x == [r EXCEPT !.status = s]
         IN  x \in Row \ {NoDelivery} /\ x.status = s /\ x.attempts = r.attempts
  BY DEF Row, NoDelivery

LEMMA AttemptsType ==
  ASSUME NEW r \in Row \ {NoDelivery}, NEW n \in Nat
  PROVE  LET x == [r EXCEPT !.attempts = n]
         IN  x \in Row \ {NoDelivery} /\ x.attempts = n /\ x.status = r.status
  BY DEF Row, NoDelivery

\* The job is handled, and the row written with it.
LEMMA RecordSteps ==
  ASSUME TypeOK, NEW d \in Deliveries, NEW k \in Slots, RecordSuccess(d, k) \/ RecordFailed(d, k)
  PROVE  Effect(d, k) /\ (Count(d) => Count(d)')
<1>1. PICK s \in {"success", "failed"} :
        /\ WriteDelivery(d, [delivery[d] EXCEPT !.status = s])
        /\ s = "failed" => Exhausted(job[d][k].seen + 1) /\ job[d][k].state = "refused"
        /\ job[d][k].state \in {"accepted", "refused"}
        /\ job' = [job EXCEPT ![d] = Handle(d, k)]
        /\ UNCHANGED JobLocal /\ UNCHANGED sends /\ UNCHANGED reruns
  BY Zenon DEF RecordSuccess, RecordFailed
<1> DEFINE row == [delivery[d] EXCEPT !.status = s]
<1>2. delivery[d] /= NoDelivery =>
        row \in Row \ {NoDelivery} /\ row.status = s /\ row.attempts = delivery[d].attempts
  <2> SUFFICES ASSUME delivery[d] /= NoDelivery
               PROVE  row \in Row \ {NoDelivery} /\ row.status = s /\ row.attempts = delivery[d].attempts
    OBVIOUS
  <2>1. delivery[d] \in Row \ {NoDelivery}
    BY DEF TypeOK
  <2> QED BY <2>1, StatusType
<1>3. /\ WriteDelivery(d, row)
      /\ UNCHANGED JobLocal /\ UNCHANGED sends /\ UNCHANGED reruns
  BY <1>1
<1>4. /\ s = "failed" => Exhausted(job[d][k].seen + 1) /\ job[d][k].state = "refused"
      /\ job[d][k].state \in {"accepted", "refused"}
      /\ job' = [job EXCEPT ![d] = Handle(d, k)]
  BY <1>1
<1> HIDE DEF row
<1>5. PICK h \in Job : /\ Startable(h) /\ h.state = "handled"
                       /\ Handle(d, k) = [job[d] EXCEPT ![k] = h]
  BY HandleType
<1>6. job' = [job EXCEPT ![d][k] = h]
  BY <1>4, <1>5 DEF TypeOK
<1>7. /\ delivery' \in [Deliveries -> Row]
      /\ delivery'[d] = NoDelivery <=> delivery[d] = NoDelivery
      /\ (delivery[d] /= NoDelivery /\ delivery'[d] = row) \/ delivery'[d] = delivery[d]
      /\ \A x \in Deliveries \ {d} : delivery'[x] = delivery[x]
  BY <1>2, <1>3, WriteType
<1>8. Writes(d)
  <2>1. UNCHANGED <<event, webhook, dispatch, targets>>
    BY <1>3 DEF JobLocal
  <2>2. sends' \in [Deliveries -> Nat] /\ reruns' \in Nat /\ reruns' >= reruns
    BY <1>3 DEF TypeOK
  <2> QED BY <1>3, <1>7, <2>1, <2>2 DEF Writes
<1>9. Effect(d, k) /\ job'[d][k] = h /\ \A n \in Slots \ {k} : job'[d][n] = job[d][n]
  BY <1>4, <1>5, <1>6, <1>8, MoveStep DEF Working
<1>10. ASSUME Count(d) PROVE Count(d)'
  <2>1. job[d][k].seen \in Nat /\ sends[d] \in Nat /\ MaxAttempts \in Nat
    BY BoundsAssumption DEF TypeOK, Job
  <2>2. s = "failed" => sends[d] >= MaxAttempts
    BY <1>4, <1>10, <2>1 DEF Count, Exhausted
  <2>3. sends'[d] = sends[d]
    BY <1>3
  <2> QED BY <1>2, <1>5, <1>7, <1>9, <1>10, <2>2, <2>3 DEF Count
<1> QED BY <1>9, <1>10

LEMMA ScheduleRetryStep ==
  ASSUME TypeOK, NEW d \in Deliveries, NEW k \in Slots, ScheduleRetry(d, k)
  PROVE  Effect(d, k) /\ (Count(d) => Count(d)')
<1> DEFINE seen == job[d][k].seen
           row == [delivery[d] EXCEPT !.attempts = seen + 1]
           h == [job[d][k] EXCEPT !.state = "handled"]
<1>0. job[d] \in [Slots -> Job] /\ seen \in Nat /\ sends[d] \in Nat
  BY DEF TypeOK, Job
<1>1. ASSUME delivery[d] /= NoDelivery
      PROVE  row \in Row \ {NoDelivery} /\ row.attempts = seen + 1 /\ row.status = delivery[d].status
  <2>1. seen + 1 \in Nat
    BY <1>0
  <2>2. delivery[d] \in Row \ {NoDelivery}
    BY <1>1 DEF TypeOK
  <2> HIDE DEF seen
  <2> QED BY <2>1, <2>2, AttemptsType
<1>2. WriteDelivery(d, row) /\ job[d][k].state = "refused"
      /\ UNCHANGED JobLocal /\ UNCHANGED sends /\ UNCHANGED reruns
  BY DEF ScheduleRetry
<1>3. h \in Job /\ Startable(h) /\ h.state = "handled"
  BY <1>0, StateType DEF JobStates
<1>4. PICK n \in Slots : job[d][n] = NoJob /\ job' = [job EXCEPT ![d] = [Handle(d, k) EXCEPT ![n] = NewJob]]
  BY DEF ScheduleRetry
<1>5. Handle(d, k) = [job[d] EXCEPT ![k] = h]
  BY DEF Handle
<1> HIDE DEF row, h, seen
<1>6. n /= k
  BY <1>2, <1>4 DEF NoJob
<1>7. job' = [job EXCEPT ![d] = [[job[d] EXCEPT ![k] = h] EXCEPT ![n] = NewJob]]
  BY <1>4, <1>5
<1>8. /\ job' \in [Deliveries -> [Slots -> Job]]
      /\ \A x \in Deliveries, i \in Slots : Startable(job'[x][i])
      /\ job'[d][k] = h /\ job'[d][n] = NewJob
      /\ \A i \in Slots \ {k, n} : job'[d][i] = job[d][i]
      /\ \A x \in Deliveries \ {d} : job'[x] = job[x]
  BY <1>3, <1>6, <1>7, NewJobType DEF TypeOK
<1>9. /\ delivery' \in [Deliveries -> Row]
      /\ delivery'[d] = NoDelivery <=> delivery[d] = NoDelivery
      /\ (delivery[d] /= NoDelivery /\ delivery'[d] = row) \/ delivery'[d] = delivery[d]
      /\ \A x \in Deliveries \ {d} : delivery'[x] = delivery[x]
  BY <1>1, <1>2, WriteType
<1>10. Writes(d)
  BY <1>2, <1>9 DEF Writes, JobLocal, TypeOK
<1>11. HandsOver(d, k)
  BY <1>2, <1>3, <1>4, <1>6, <1>8 DEF HandsOver
<1>12. ASSUME Count(d) PROVE Count(d)'
  <2>1. seen + 1 <= sends[d]
    BY <1>2, <1>12 DEF Count, seen
  <2>2. NewJob.state = "queued"
    BY DEF NewJob
  <2>3. sends'[d] = sends[d]
    BY <1>2
  <2> QED BY <1>1, <1>3, <1>8, <1>9, <1>12, <2>1, <2>2, <2>3 DEF Count
<1> QED BY <1>8, <1>10, <1>11, <1>12 DEF Effect

\* Whatever a delivery job does has an effect like these.
LEMMA DeliverStep ==
  ASSUME TypeOK, NEW d \in Deliveries, NEW k \in Slots, Deliver(d, k)
  PROVE  Effect(d, k) /\ (Count(d) => Count(d)')
<1>1. CASE StartDelivery(d, k)
  BY <1>1, StartDeliveryStep
<1>2. CASE SendWebhook(d, k)
  BY <1>2, SendWebhookStep
<1>3. CASE RecordSuccess(d, k) \/ RecordFailed(d, k)
  BY <1>3, RecordSteps
<1>4. CASE ScheduleRetry(d, k)
  BY <1>4, ScheduleRetryStep
<1>5. CASE \/ SkipDelivery(d, k) \/ LoadFails(d, k) \/ DeliveryFails(d, k)
           \/ CompleteDelivery(d, k) \/ DeliveryRerun(d, k)
  BY <1>5, QuietSteps
<1> QED BY <1>1, <1>2, <1>3, <1>4, <1>5 DEF Deliver

-----------------------------------------------------------------------------
(* The inductive invariant.                                                *)

\* A delivery that was never created, of an event that is there, has had no job.
Fresh(d) ==
  event[d[1]] \in {"none", "stored"} /\ delivery[d] = NoDelivery => \A k \in Slots : job[d][k] = NoJob

\* Unless a job ran again, the jobs of a delivery work one at a time.
Alone(d) == reruns = 0 => \A i, n \in Slots :
  job[d][i].state \in Working /\ job[d][n].state \in Working => i = n

\* The dispatch job is enqueued with the event.
Dispatched(e) == event[e] = "none" => dispatch[e] = NoJob

\* A dispatch job that runs has listed a webhook that always listens, so the event stays,
\* and once the job is done the webhook has its delivery.
Served(e, w) == webhook[w] = "listening" =>
  /\ event[e] /= "dropped"
  /\ dispatch[e].state = "running" => w \in targets[e]
  /\ dispatch[e].state \in {"handled", "completed"} =>
       event[e] = "expired" \/ delivery[<<e, w>>] /= NoDelivery

Inv ==
  /\ TypeOK
  /\ \A d \in Deliveries : Fresh(d) /\ Alone(d) /\ Count(d)
  /\ \A e \in Events : Dispatched(e)
  /\ \A e \in Events, w \in Webhooks \ Touched : Served(e, w)

LEMMA InitInv == Init => Inv
<1> SUFFICES ASSUME Init PROVE Inv
  OBVIOUS
<1>1. TypeOK
  BY InitType
<1>2. ASSUME NEW d \in Deliveries PROVE Fresh(d) /\ Alone(d) /\ Count(d)
  <2>1. delivery[d] = NoDelivery /\ sends[d] = 0 /\ \A k \in Slots : job[d][k] = NoJob
    BY DEF Init
  <2> QED BY <2>1 DEF Fresh, Alone, Count, NoDelivery, NoJob, Working
<1>3. ASSUME NEW e \in Events, NEW w \in Webhooks \ Touched PROVE Served(e, w)
  BY DEF Init, Served, NoJob
<1>4. \A e \in Events : Dispatched(e)
  BY DEF Init, Dispatched
<1> QED BY <1>1, <1>2, <1>3, <1>4 DEF Inv

\* Delivery jobs.
LEMMA DeliverInv ==
  ASSUME Inv, NEW d \in Deliveries, NEW k \in Slots, Deliver(d, k)
  PROVE  Inv'
<1>1. Effect(d, k) /\ Count(d)'
  BY DeliverStep DEF Inv
<1>2. TypeOK'
  BY <1>1 DEF Effect, Writes, Inv, TypeOK
<1>3. ASSUME NEW x \in Deliveries, x /= d PROVE Fresh(x)' /\ Alone(x)' /\ Count(x)'
  <2>1. /\ delivery'[x] = delivery[x] /\ sends'[x] = sends[x] /\ job'[x] = job[x]
        /\ event' = event /\ (reruns' = 0 => reruns = 0)
    BY <1>1, <1>3 DEF Effect, Writes, Inv, TypeOK
  <2>2. Fresh(x) /\ Alone(x) /\ Count(x)
    BY DEF Inv
  <2> QED BY <2>1, <2>2 DEF Fresh, Alone, Count
<1>4. Fresh(d)'
  <2>1. job[d][k] /= NoJob
    BY <1>1 DEF Effect, Moves, HandsOver, NoJob
  <2> QED BY <1>1, <2>1 DEF Effect, Writes, Inv, Fresh
<1>5. Alone(d)'
  <2>1. Alone(d) /\ (reruns' = 0 => reruns = 0) /\ (reruns' = 0 => ~ reruns' > reruns)
    BY <1>1 DEF Effect, Writes, Inv, TypeOK
  <2>2. CASE Moves(d, k)
    BY <2>1, <2>2 DEF Moves, Alone
  <2>3. CASE HandsOver(d, k)
    BY <2>1, <2>3 DEF HandsOver, Alone, Working, NoJob
  <2> QED BY <1>1, <2>2, <2>3 DEF Effect
<1>6. ASSUME NEW e \in Events, NEW w \in Webhooks \ Touched PROVE Served(e, w)'
  <2>1. <<e, w>> \in Deliveries /\ Served(e, w)
    BY DEF Inv, Deliveries
  <2>2. delivery'[<<e, w>>] = NoDelivery <=> delivery[<<e, w>>] = NoDelivery
    BY <1>1, <2>1 DEF Effect, Writes
  <2>3. UNCHANGED <<event, webhook, dispatch, targets>>
    BY <1>1 DEF Effect, Writes
  <2> QED BY <2>1, <2>2, <2>3 DEF Served
<1>7. \A e \in Events : Dispatched(e)'
  BY <1>1 DEF Effect, Writes, Inv, Dispatched
<1> QED BY <1>1, <1>2, <1>3, <1>4, <1>5, <1>6, <1>7 DEF Inv

\* A step that leaves rows and jobs of deliveries alone, and no event that was gone back.
LEMMA SameDeliveries ==
  ASSUME Inv, UNCHANGED job, UNCHANGED sends, reruns' = 0 => reruns = 0,
         \A d \in Deliveries :
           event'[d[1]] \in {"none", "stored"} => event[d[1]] \in {"none", "stored"} /\ delivery'[d] = delivery[d],
         \A d \in Deliveries : delivery'[d] \in {delivery[d], NoDelivery}
  PROVE  \A d \in Deliveries : Fresh(d)' /\ Alone(d)' /\ Count(d)'
<1> SUFFICES ASSUME NEW d \in Deliveries PROVE Fresh(d)' /\ Alone(d)' /\ Count(d)'
  OBVIOUS
<1>1. Fresh(d) /\ Alone(d) /\ Count(d) /\ sends[d] \in Nat
  BY DEF Inv, TypeOK
<1>2. Fresh(d)' /\ Alone(d)'
  BY <1>1 DEF Fresh, Alone
<1>3. Count(d)'
  BY <1>1 DEF Count, NoDelivery
<1> QED BY <1>2, <1>3

\* A webhook that no user touches neither starts nor stops to listen.
LEMMA UsersInv ==
  ASSUME Inv, Users
  PROVE  Inv'
<1>1. CASE \E w \in Webhooks : RegisterWebhook(w) \/ UpdateWebhook(w) \/ DeleteWebhook(w)
  <2>1. PICK u \in Touched : \E x \in {"listening", "deaf", "deleted"} : webhook' = [webhook EXCEPT ![u] = x]
    BY <1>1 DEF RegisterWebhook, UpdateWebhook, DeleteWebhook
  <2>2. UNCHANGED <<event, delivery, dispatch, targets, job, sends, reruns>>
    BY <1>1 DEF RegisterWebhook, UpdateWebhook, DeleteWebhook
  <2>3. TypeOK'
    BY <2>1, <2>2 DEF Inv, TypeOK
  <2>4. \A d \in Deliveries : Fresh(d)' /\ Alone(d)' /\ Count(d)'
    BY <2>2, SameDeliveries
  <2>5. ASSUME NEW e \in Events, NEW w \in Webhooks \ Touched PROVE Served(e, w)'
    <3>1. webhook'[w] = webhook[w]
      BY <2>1 DEF Inv, TypeOK
    <3> QED BY <2>2, <3>1 DEF Inv, Served
  <2>6. \A e \in Events : Dispatched(e)'
    BY <2>2 DEF Inv, Dispatched
  <2> QED BY <2>3, <2>4, <2>5, <2>6 DEF Inv
<1>2. ASSUME NEW e \in Events, CreateWebhookEvent(e) PROVE Inv'
  <2>1. TypeOK'
    BY <1>2, NewJobType DEF CreateWebhookEvent, Inv, TypeOK
  <2>2. \A d \in Deliveries : Fresh(d)' /\ Alone(d)' /\ Count(d)'
    <3>1. \A d \in Deliveries : event'[d[1]] \in {"none", "stored"} => event[d[1]] \in {"none", "stored"}
      BY <1>2 DEF CreateWebhookEvent, Inv, TypeOK, Deliveries
    <3>2. UNCHANGED job /\ UNCHANGED sends /\ UNCHANGED delivery /\ UNCHANGED reruns
      BY <1>2 DEF CreateWebhookEvent
    <3> QED BY <3>1, <3>2, SameDeliveries
  <2>3. ASSUME NEW x \in Events, NEW w \in Webhooks \ Touched PROVE Served(x, w)'
    BY <1>2 DEF CreateWebhookEvent, Inv, TypeOK, Served, NewJob, Dispatched, NoJob
  <2>4. \A x \in Events : Dispatched(x)'
    BY <1>2 DEF CreateWebhookEvent, Inv, TypeOK, Dispatched
  <2> QED BY <2>1, <2>2, <2>3, <2>4 DEF Inv
<1>3. ASSUME NEW e \in Events, DeleteOldEvent(e) PROVE Inv'
  <2>1. /\ event[e] = "stored" /\ event' = [event EXCEPT ![e] = "expired"]
        /\ delivery' = [d \in Deliveries |-> IF d[1] = e THEN NoDelivery ELSE delivery[d]]
        /\ UNCHANGED <<webhook, dispatch, targets, job, sends, reruns>>
    BY <1>3 DEF DeleteOldEvent, RemoveEvent
  <2>2. TypeOK'
    BY <2>1 DEF Inv, TypeOK, Row
  <2>3. \A d \in Deliveries : Fresh(d)' /\ Alone(d)' /\ Count(d)'
    <3>1. \A d \in Deliveries : event'[d[1]] \in {"none", "stored"} =>
            event[d[1]] \in {"none", "stored"} /\ delivery'[d] = delivery[d]
      BY <2>1 DEF Inv, TypeOK, Deliveries
    <3>2. \A d \in Deliveries : delivery'[d] \in {delivery[d], NoDelivery}
      BY <2>1
    <3> QED BY <2>1, <3>1, <3>2, SameDeliveries
  <2>4. ASSUME NEW x \in Events, NEW w \in Webhooks \ Touched PROVE Served(x, w)'
    <3>1. Served(x, w) /\ <<x, w>> \in Deliveries /\ <<x, w>>[1] = x
      BY DEF Inv, Deliveries
    <3>2. x /= e => event'[x] = event[x] /\ delivery'[<<x, w>>] = delivery[<<x, w>>]
      BY <2>1, <3>1 DEF Inv, TypeOK
    <3>3. event'[e] = "expired"
      BY <2>1 DEF Inv, TypeOK
    <3> QED BY <2>1, <3>1, <3>2, <3>3 DEF Served
  <2>5. \A x \in Events : Dispatched(x)'
    BY <2>1 DEF Inv, TypeOK, Dispatched
  <2> QED BY <2>2, <2>3, <2>4, <2>5 DEF Inv
<1> QED BY <1>1, <1>2, <1>3 DEF Users

\* A step of a dispatch job that touches no row: its state afterwards, and what it lists.
LEMMA DispatchMoves ==
  ASSUME Inv, NEW e \in Events, NEW j \in Job, Startable(j), NEW ws \in SUBSET Webhooks,
         dispatch' = [dispatch EXCEPT ![e] = j], targets' = [targets EXCEPT ![e] = ws],
         UNCHANGED <<event, webhook, delivery, job, sends>>,
         reruns' \in Nat, reruns' >= reruns,
         dispatch[e] /= NoJob,
         j.state = "running" => ws = {w \in Webhooks : webhook[w] = "listening"},
         j.state \in {"handled", "completed"} =>
           dispatch[e].state \in {"handled", "completed"} \/ event[e] \notin {"none", "stored"}
  PROVE  Inv'
<1>1. TypeOK'
  BY DEF Inv, TypeOK
<1>2. \A d \in Deliveries : Fresh(d)' /\ Alone(d)' /\ Count(d)'
  <2>1. UNCHANGED job /\ UNCHANGED sends /\ UNCHANGED delivery /\ UNCHANGED event /\ reruns \in Nat
    BY DEF Inv, TypeOK
  <2> QED BY <2>1, SameDeliveries
<1>3. ASSUME NEW x \in Events, NEW w \in Webhooks \ Touched PROVE Served(x, w)'
  <2>1. Served(x, w) /\ event[x] \in {"none", "stored", "dropped", "expired"}
    BY DEF Inv, TypeOK
  <2>2. /\ x /= e => dispatch'[x] = dispatch[x] /\ targets'[x] = targets[x]
        /\ dispatch'[e] = j /\ targets'[e] = ws
    BY DEF Inv, TypeOK
  <2>3. UNCHANGED event /\ UNCHANGED webhook /\ UNCHANGED delivery
    OBVIOUS
  <2>4. event[e] /= "none"
    BY DEF Inv, Dispatched
  <2> QED BY <2>1, <2>2, <2>3, <2>4 DEF Served
<1>4. ASSUME NEW x \in Events PROVE Dispatched(x)'
  <2>1. event[e] /= "none"
    BY DEF Inv, Dispatched
  <2>2. x /= e => dispatch'[x] = dispatch[x]
    BY DEF Inv, TypeOK
  <2> QED BY <2>1, <2>2 DEF Inv, Dispatched
<1> QED BY <1>1, <1>2, <1>3, <1>4 DEF Inv

\* The same, for each such step.
LEMMA DispatchQuietInv ==
  ASSUME Inv, NEW e \in Events,
         \/ StartDispatch(e) \/ DispatchFails(e) \/ CompleteDispatch(e) \/ DispatchRerun(e)
  PROVE  Inv'
<1>0. dispatch[e] \in Job /\ Startable(dispatch[e]) /\ reruns \in Nat
      /\ targets \in [Events -> SUBSET Webhooks] /\ dispatch[e] /= NoJob
  BY DEF Inv, TypeOK, NoJob, StartDispatch, DispatchFails, CompleteDispatch, DispatchRerun
<1>00. event[e] /= "none"
  BY <1>0 DEF Inv, Dispatched
<1>1. CASE StartDispatch(e)
  <2>1. CASE event[e] = "stored"
    <3> DEFINE j == Started(dispatch[e], "running")
               ws == {w \in Webhooks : webhook[w] = "listening"}
    <3>1. j \in Job /\ Startable(j) /\ j.state = "running"
      BY <1>0, <1>1, StartedType DEF StartDispatch, JobStates
    <3>2. /\ dispatch' = [dispatch EXCEPT ![e] = j] /\ targets' = [targets EXCEPT ![e] = ws]
          /\ UNCHANGED <<event, webhook, delivery, job, sends>>
          /\ reruns' \in Nat /\ reruns' >= reruns
      BY <1>0, <1>1, <2>1 DEF StartDispatch
    <3>3. ws \in SUBSET Webhooks
      OBVIOUS
    <3> HIDE DEF j
    <3> QED BY <3>1, <3>2, <3>3, <1>0, DispatchMoves
  <2>2. CASE event[e] /= "stored"
    <3> DEFINE j == Started(dispatch[e], "handled")
    <3>1. j \in Job /\ Startable(j) /\ j.state = "handled"
      BY <1>0, <1>1, StartedType DEF StartDispatch, JobStates
    <3>2. /\ dispatch' = [dispatch EXCEPT ![e] = j] /\ targets' = [targets EXCEPT ![e] = targets[e]]
          /\ UNCHANGED <<event, webhook, delivery, job, sends>>
          /\ reruns' \in Nat /\ reruns' >= reruns
      BY <1>0, <1>1, <2>2 DEF StartDispatch
    <3>3. targets[e] \in SUBSET Webhooks
      BY <1>0
    <3> HIDE DEF j
    <3> QED BY <1>00, <2>2, <3>1, <3>2, <3>3, <1>0, DispatchMoves
  <2> QED BY <2>1, <2>2
<1>2. CASE DispatchFails(e) \/ DispatchRerun(e)
  <2> DEFINE j == AfterError(dispatch[e])
  <2>1. j \in Job /\ Startable(j) /\ j.state \in {"queued", "discarded"}
    BY <1>0, AfterErrorType
  <2>2. /\ dispatch' = [dispatch EXCEPT ![e] = j] /\ targets' = [targets EXCEPT ![e] = {}]
        /\ UNCHANGED <<event, webhook, delivery, job, sends>>
        /\ reruns' \in Nat /\ reruns' >= reruns
    BY <1>0, <1>2 DEF DispatchFails, DispatchRerun
  <2>3. {} \in SUBSET Webhooks
    OBVIOUS
  <2> HIDE DEF j
  <2> QED BY <2>1, <2>2, <2>3, <1>0, DispatchMoves
<1>3. CASE CompleteDispatch(e)
  <2> DEFINE j == [dispatch[e] EXCEPT !.state = "completed"]
  <2>0. "completed" \in JobStates \ {"queued"}
    BY DEF JobStates
  <2>1. j \in Job /\ Startable(j) /\ j.state = "completed"
    BY <1>0, <2>0, StateType
  <2>2. /\ dispatch' = [dispatch EXCEPT ![e] = j] /\ targets' = [targets EXCEPT ![e] = {}]
        /\ UNCHANGED <<event, webhook, delivery, job, sends>>
        /\ reruns' \in Nat /\ reruns' >= reruns
        /\ dispatch[e].state = "handled"
    BY <1>0, <1>3 DEF CompleteDispatch
  <2>3. {} \in SUBSET Webhooks
    OBVIOUS
  <2> HIDE DEF j
  <2> QED BY <2>1, <2>2, <2>3, <1>0, DispatchMoves
<1> QED BY <1>1, <1>2, <1>3

\* Dropping an event: no webhook listens always.
LEMMA DropEventInv ==
  ASSUME Inv, NEW e \in Events, DropEvent(e)
  PROVE  Inv'
<1> DEFINE j == [dispatch[e] EXCEPT !.state = "handled"]
<1>0. "handled" \in JobStates \ {"queued"} /\ dispatch[e] \in Job /\ event[e] /= "none"
  BY DEF JobStates, Inv, TypeOK, Dispatched, DropEvent, NoJob
<1>1. j \in Job /\ Startable(j) /\ j.state = "handled"
  BY <1>0, StateType
<1>2. /\ dispatch' = [dispatch EXCEPT ![e] = j] /\ targets[e] = {} /\ dispatch[e].state = "running"
      /\ UNCHANGED <<webhook, targets, job, sends, reruns>>
  BY DEF DropEvent
<1> HIDE DEF j
<1>3. \/ event' = [event EXCEPT ![e] = "dropped"]
         /\ delivery' = [d \in Deliveries |-> IF d[1] = e THEN NoDelivery ELSE delivery[d]]
      \/ event' = event /\ delivery' = delivery /\ event[e] /= "stored"
  BY DEF DropEvent, RemoveEvent
<1>4. TypeOK'
  BY <1>1, <1>2, <1>3 DEF Inv, TypeOK, Row
<1>5. \A d \in Deliveries : Fresh(d)' /\ Alone(d)' /\ Count(d)'
  <2>1. \A d \in Deliveries : event'[d[1]] \in {"none", "stored"} =>
          event[d[1]] \in {"none", "stored"} /\ delivery'[d] = delivery[d]
    BY <1>3 DEF Inv, TypeOK, Deliveries
  <2>2. \A d \in Deliveries : delivery'[d] \in {delivery[d], NoDelivery}
    BY <1>3
  <2>3. UNCHANGED job /\ UNCHANGED sends /\ reruns' = reruns
    BY <1>2
  <2> QED BY <2>1, <2>2, <2>3, SameDeliveries
<1>6. ASSUME NEW x \in Events, NEW w \in Webhooks \ Touched PROVE Served(x, w)'
  <2>1. Served(x, w) /\ Served(e, w) /\ <<x, w>> \in Deliveries /\ <<x, w>>[1] = x
    BY DEF Inv, Deliveries
  <2>2. webhook[w] /= "listening"
    BY <1>2, <2>1 DEF Served
  <2> QED BY <1>2, <2>2 DEF Served
<1>7. ASSUME NEW x \in Events PROVE Dispatched(x)'
  BY <1>0, <1>1, <1>2, <1>3 DEF Inv, TypeOK, Dispatched
<1> QED BY <1>4, <1>5, <1>6, <1>7 DEF Inv

\* Creating the deliveries: each missing one with its first job, which is its only one.
LEMMA CreateDeliveriesInv ==
  ASSUME Inv, NEW e \in Events, CreateDeliveries(e)
  PROVE  Inv'
<1> DEFINE j == [dispatch[e] EXCEPT !.state = "handled"]
           new == [status |-> "pending", attempts |-> 0]
<1>0. "handled" \in JobStates \ {"queued"} /\ dispatch[e] \in Job /\ 1 \in Slots
  BY BoundsAssumption DEF JobStates, Inv, TypeOK, Slots
<1>1. j \in Job /\ Startable(j) /\ j.state = "handled"
  BY <1>0, StateType
<1>2. new \in Row \ {NoDelivery} /\ new.status = "pending" /\ new.attempts = 0
  BY DEF Row, NoDelivery
<1>3. /\ dispatch' = [dispatch EXCEPT ![e] = j] /\ targets' = [targets EXCEPT ![e] = {}]
      /\ dispatch[e].state = "running" /\ event[e] = "stored"
      /\ UNCHANGED event /\ UNCHANGED webhook /\ UNCHANGED sends /\ UNCHANGED reruns
  BY DEF CreateDeliveries
<1>4. /\ delivery' = [d \in Deliveries |-> IF d \in Missing(e) THEN new ELSE delivery[d]]
      /\ job' = [d \in Deliveries |->
           IF d \in Missing(e) THEN [job[d] EXCEPT ![1] = NewJob] ELSE job[d]]
  BY DEF CreateDeliveries
<1> HIDE DEF j, new
<1>5. ASSUME NEW d \in Deliveries
      PROVE  \/ /\ d \in Missing(e) /\ delivery'[d] = new
                /\ job'[d][1] = NewJob /\ \A k \in Slots \ {1} : job'[d][k] = NoJob
                /\ job'[d] \in [Slots -> Job]
             \/ d \notin Missing(e) /\ delivery'[d] = delivery[d] /\ job'[d] = job[d]
  <2>1. CASE d \in Missing(e)
    <3>1. d[1] = e /\ delivery[d] = NoDelivery
      BY <2>1 DEF Missing
    <3>2. \A k \in Slots : job[d][k] = NoJob
      BY <1>3, <3>1 DEF Inv, Fresh
    <3>3. job[d] \in [Slots -> Job]
      BY DEF Inv, TypeOK
    <3>4. job'[d] = [job[d] EXCEPT ![1] = NewJob] /\ delivery'[d] = new
      BY <1>4, <2>1
    <3> QED BY <1>0, <2>1, <3>2, <3>3, <3>4, NewJobType
  <2>2. CASE d \notin Missing(e)
    BY <1>4, <2>2
  <2> QED BY <2>1, <2>2
<1>6. TypeOK'
  <2>1. delivery' \in [Deliveries -> Row]
    BY <1>2, <1>4 DEF Inv, TypeOK
  <2>2. job' \in [Deliveries -> [Slots -> Job]]
    BY <1>4, <1>5 DEF Inv, TypeOK
  <2>3. \A d \in Deliveries, k \in Slots : Startable(job'[d][k])
    BY <1>0, <1>5, NewJobType DEF Inv, TypeOK
  <2> QED BY <1>1, <1>3, <2>1, <2>2, <2>3 DEF Inv, TypeOK
<1>7. ASSUME NEW d \in Deliveries PROVE Fresh(d)' /\ Alone(d)' /\ Count(d)'
  <2>1. Fresh(d) /\ Alone(d) /\ Count(d) /\ sends[d] \in Nat
    BY DEF Inv, TypeOK
  <2>2. CASE d \in Missing(e)
    BY <1>2, <1>3, <1>5, <2>1, <2>2 DEF Fresh, Alone, Count, NewJob, NoJob, Working
  <2>3. CASE d \notin Missing(e)
    BY <1>3, <1>5, <2>1, <2>3 DEF Fresh, Alone, Count
  <2> QED BY <2>2, <2>3
<1>8. ASSUME NEW x \in Events, NEW w \in Webhooks \ Touched PROVE Served(x, w)'
  <2>1. Served(x, w) /\ <<x, w>> \in Deliveries /\ <<x, w>>[1] = x /\ <<x, w>>[2] = w
    BY DEF Inv, Deliveries
  <2>2. delivery[<<x, w>>] /= NoDelivery => delivery'[<<x, w>>] /= NoDelivery
    BY <1>2, <1>5, <2>1
  <2>3. CASE x = e
    <3>1. webhook[w] = "listening" => delivery'[<<e, w>>] /= NoDelivery
      BY <1>2, <1>3, <1>5, <2>1, <2>3 DEF Served, Missing
    <3>2. dispatch'[e].state = "handled"
      BY <1>1, <1>3 DEF Inv, TypeOK
    <3> QED BY <1>3, <2>1, <2>3, <3>1, <3>2 DEF Served
  <2>4. CASE x /= e
    <3>1. dispatch'[x] = dispatch[x] /\ targets'[x] = targets[x]
      BY <1>3, <2>4 DEF Inv, TypeOK
    <3> QED BY <1>3, <2>1, <2>2, <3>1 DEF Served
  <2> QED BY <2>3, <2>4
<1>9. ASSUME NEW x \in Events PROVE Dispatched(x)'
  BY <1>3 DEF Inv, TypeOK, Dispatched
<1> QED BY <1>6, <1>7, <1>8, <1>9 DEF Inv

-----------------------------------------------------------------------------
(* Theorems.                                                               *)

LEMMA NextInv == Inv /\ [Next]_vars => Inv'
<1> SUFFICES ASSUME Inv, [Next]_vars PROVE Inv'
  OBVIOUS
<1>1. CASE Users
  BY <1>1, UsersInv
<1>2. ASSUME NEW e \in Events, Dispatch(e) PROVE Inv'
  BY <1>2, DispatchQuietInv, DropEventInv, CreateDeliveriesInv DEF Dispatch
<1>3. ASSUME NEW d \in Deliveries, NEW k \in Slots, Deliver(d, k) PROVE Inv'
  BY <1>3, DeliverInv
<1>4. CASE UNCHANGED vars
  <2>1. TypeOK'
    BY <1>4 DEF vars, Inv, TypeOK
  <2>2. \A d \in Deliveries : Fresh(d)' /\ Alone(d)' /\ Count(d)'
    BY <1>4 DEF vars, Inv, Fresh, Alone, Count
  <2>3. \A e \in Events : Dispatched(e)' /\ \A w \in Webhooks \ Touched : Served(e, w)'
    BY <1>4 DEF vars, Inv, Dispatched, Served
  <2> QED BY <2>1, <2>2, <2>3 DEF Inv
<1> QED BY <1>1, <1>2, <1>3, <1>4 DEF Next

LEMMA AlwaysInv == Spec => []Inv
<1>1. Init => Inv
  BY InitInv
<1>2. Inv /\ [Next]_vars => Inv'
  BY NextInv
<1> QED BY <1>1, <1>2, PTL DEF Spec

\* Rows and jobs are of their types, and River never starts a job that has had all its
\* attempts (the retries of webhook jobs end).
THEOREM TypeCorrect == Spec => []TypeOK
<1>1. Inv => TypeOK
  BY DEF Inv
<1> QED BY <1>1, AlwaysInv, PTL

\* Whoever listens throughout has a delivery of every event that was dispatched, whatever
\* dispatch jobs fail, crash or run again and whatever users do to other webhooks.
THEOREM AllServed == Spec => []EveryoneServed
<1>1. Inv => EveryoneServed
  BY DEF Inv, Served, EveryoneServed
<1> QED BY <1>1, AlwaysInv, PTL

\* The requests of one delivery do not overlap, as long as no job that had written its last
\* row runs again.
THEOREM NeverTwoAtATime == Spec => []OneAtATime
<1>1. Inv => OneAtATime
  <2> SUFFICES ASSUME Inv, reruns = 0, NEW d \in Deliveries PROVE Cardinality(AtWork(d)) <= 1
    BY DEF OneAtATime
  <2>1. \A i, n \in AtWork(d) : i = n
    BY DEF Inv, Alone, AtWork, Working
  <2>2. CASE AtWork(d) = {}
    BY <2>2, FS_EmptySet
  <2>3. ASSUME NEW k \in AtWork(d) PROVE Cardinality(AtWork(d)) <= 1
    <3>1. AtWork(d) = {k}
      BY <2>1
    <3> QED BY <3>1, FS_Singleton
  <2> QED BY <2>2, <2>3
<1> QED BY <1>1, AlwaysInv, PTL

\* A delivery is given up only after the full number of requests, whatever jobs were run
\* again, lost their worker or were enqueued twice, and counts no request that was not sent.
THEOREM AllAttemptsMade == Spec => []GivenUpAfterAll
<1>1. Inv => GivenUpAfterAll
  BY DEF Inv, Count, GivenUpAfterAll
<1> QED BY <1>1, AlwaysInv, PTL

-----------------------------------------------------------------------------
(* The signing secrets: types.                                             *)

LEMMA SecretsInitTypeOK == SecretsInit => SecretsTypeOK
<1> SUFFICES ASSUME SecretsInit PROVE SecretsTypeOK
  OBVIOUS
<1>1. raced \in BOOLEAN
  BY DEF SecretsInit
<1>2. /\ secret \in [Secrets -> {"absent", "permanent", "expiring", "expired", "revoked"}]
      /\ rotator \in [Rotators -> [pc : {"idle", "found"}, found : SUBSET Secrets]]
      /\ revoker \in [Revokers ->
           [pc : {"idle", "read", "allowed"}, target : Secrets, permanent : BOOLEAN]]
  BY SecretsAssumption DEF SecretsInit, IdleRotator, IdleRevoker
<1> QED BY <1>1, <1>2 DEF SecretsTypeOK

LEMMA SecretsNextTypeOK == SecretsTypeOK /\ [SecretsNext]_secretsVars => SecretsTypeOK'
<1> SUFFICES ASSUME SecretsTypeOK, [SecretsNext]_secretsVars PROVE SecretsTypeOK'
  OBVIOUS
<1> USE SecretsAssumption DEF SecretsTypeOK
<1>1. ASSUME NEW s \in Secrets, SecretExpires(s) PROVE SecretsTypeOK'
  BY <1>1 DEF SecretExpires
<1>2. ASSUME NEW c \in Rotators, Rotate(c) PROVE SecretsTypeOK'
  <2>1. CASE FindExisting(c)
    BY <2>1 DEF FindExisting, Permanent
  <2>2. CASE RotationFails(c)
    BY <2>2 DEF RotationFails, IdleRotator
  <2>3. ASSUME NEW s \in Secrets, CommitSecret(c, s) PROVE SecretsTypeOK'
    BY <2>3 DEF CommitSecret, IdleRotator
  <2> QED BY <1>2, <2>1, <2>2, <2>3 DEF Rotate
<1>3. ASSUME NEW u \in Revokers, Revocation(u) PROVE SecretsTypeOK'
  <2>1. ASSUME NEW s \in Secrets, ReadSecret(u, s) PROVE SecretsTypeOK'
    BY <2>1 DEF ReadSecret
  <2>2. CASE CountPermanent(u)
    BY <2>2 DEF CountPermanent, IdleRevoker
  <2>3. CASE Revoke(u)
    BY <2>3 DEF Revoke, IdleRevoker
  <2>4. CASE RevocationFails(u)
    BY <2>4 DEF RevocationFails, IdleRevoker
  <2> QED BY <1>3, <2>1, <2>2, <2>3, <2>4 DEF Revocation
<1>4. CASE UNCHANGED secretsVars
  BY <1>4 DEF secretsVars
<1> QED BY <1>1, <1>2, <1>3, <1>4 DEF SecretsNext

\* Every call finds rows and reads flags of the declared kinds
\* (usecases/webhooks/usecase.go), for any number of calls.
THEOREM SecretsTypeCorrect == SecretsSpec => []SecretsTypeOK
  BY SecretsInitTypeOK, SecretsNextTypeOK, PTL DEF SecretsSpec

-----------------------------------------------------------------------------
(* A permanent secret remains.                                             *)

\* What a call that revokes knows: the secret it read exists, the flag it read can only
\* err on the safe side, and once it may go on there is another permanent secret, unless
\* another call has revoked what it had counted.
Knows(u) ==
  /\ revoker[u].pc /= "idle" => secret[revoker[u].target] /= "absent"
  /\ revoker[u].pc = "read" /\ ~revoker[u].permanent =>
       secret[revoker[u].target] /= "permanent"
  /\ revoker[u].pc = "allowed" => raced \/ Permanent \ {revoker[u].target} /= {}

\* The inductive invariant.
SafeInv == SecretsTypeOK /\ PermanentRemains /\ \A u \in Revokers : Knows(u)

\* Two or more permanent secrets leave one when any of them is taken away.
LEMMA AnotherRemains ==
  ASSUME NEW S, IsFiniteSet(S), NEW x, Cardinality(S) >= 2
  PROVE  S \ {x} /= {}
<1> SUFFICES ASSUME S \ {x} = {} PROVE FALSE
  OBVIOUS
<1>1. S \subseteq {x}
  OBVIOUS
<1>2. IsFiniteSet({x}) /\ Cardinality({x}) = 1
  BY FS_Singleton
<1>3. Cardinality(S) <= 1 /\ Cardinality(S) \in Nat
  BY <1>1, <1>2, FS_Subset, FS_CardinalityType
<1> QED BY <1>3

LEMMA PermanentFinite == IsFiniteSet(Permanent) /\ Cardinality(Permanent) \in Nat
  BY SecretsAssumption, FS_Subset, FS_CardinalityType DEF Permanent

LEMMA InitSafe == SecretsInit => SafeInv
<1> SUFFICES ASSUME SecretsInit PROVE SafeInv
  OBVIOUS
<1>1. PermanentRemains
  BY SecretsAssumption DEF SecretsInit, PermanentRemains, Permanent
<1>2. ASSUME NEW u \in Revokers PROVE Knows(u)
  BY DEF SecretsInit, Knows, IdleRevoker
<1> QED BY <1>1, <1>2, SecretsInitTypeOK DEF SafeInv

\* What a step that changes neither the permanent secrets nor any revoker,
\* and makes no secret absent, preserves.
LEMMA RotationSafe ==
  ASSUME SafeInv, NEW c \in Rotators, Rotate(c)
  PROVE  PermanentRemains' /\ \A u \in Revokers : Knows(u)'
<1> USE DEF SafeInv, SecretsTypeOK
<1>1. CASE FindExisting(c) \/ RotationFails(c)
  BY <1>1 DEF FindExisting, RotationFails, PermanentRemains, Permanent, Knows
<1>2. ASSUME NEW s \in Secrets, CommitSecret(c, s)
      PROVE  PermanentRemains' /\ \A u \in Revokers : Knows(u)'
  <2>1. s \in Permanent' /\ secret[s] = "absent"
    BY <1>2 DEF CommitSecret, Permanent
  <2>2. ASSUME NEW u \in Revokers PROVE Knows(u)'
    <3>1. revoker'[u] = revoker[u] /\ raced' = raced
      BY <1>2 DEF CommitSecret
    <3>2. revoker[u].pc /= "idle" => revoker[u].target /= s
      BY <2>1 DEF Knows
    <3>3. ASSUME revoker[u].pc /= "idle", NEW t, t = revoker[u].target
          PROVE  secret'[t] /= "absent" /\ (secret[t] /= "permanent" => secret'[t] /= "permanent")
      BY <1>2, <3>2, <3>3 DEF CommitSecret, Knows
    <3> QED BY <2>1, <3>1, <3>2, <3>3 DEF Knows
  <2> QED BY <2>1, <2>2 DEF PermanentRemains
<1> QED BY <1>1, <1>2 DEF Rotate

LEMMA ExpirySafe ==
  ASSUME SafeInv, NEW s \in Secrets, SecretExpires(s)
  PROVE  PermanentRemains' /\ \A u \in Revokers : Knows(u)'
<1> USE DEF SafeInv, SecretsTypeOK
<1>1. Permanent' = Permanent /\ revoker' = revoker /\ raced' = raced
  BY DEF SecretExpires, Permanent
<1>2. ASSUME NEW t \in Secrets
      PROVE  /\ secret[t] /= "absent" => secret'[t] /= "absent"
             /\ secret[t] /= "permanent" => secret'[t] /= "permanent"
  BY DEF SecretExpires
<1> QED BY <1>1, <1>2 DEF PermanentRemains, Knows

\* A call that does not revoke leaves what the other calls know, and so does one that
\* revokes what no other call counts on.
LEMMA RevocationSafe ==
  ASSUME SafeInv, NEW u \in Revokers, Revocation(u)
  PROVE  PermanentRemains' /\ \A v \in Revokers : Knows(v)'
<1> USE DEF SafeInv, SecretsTypeOK
<1>1. ASSUME secret' = secret, raced' = raced, Knows(u)',
             \A v \in Revokers \ {u} : revoker'[v] = revoker[v]
      PROVE  PermanentRemains' /\ \A v \in Revokers : Knows(v)'
  <2>1. Permanent' = Permanent
    BY <1>1 DEF Permanent
  <2> QED BY <1>1, <2>1 DEF PermanentRemains, Knows
<1>2. ASSUME NEW s \in Secrets, ReadSecret(u, s)
      PROVE  PermanentRemains' /\ \A v \in Revokers : Knows(v)'
  <2>1. /\ secret' = secret /\ raced' = raced
        /\ \A v \in Revokers \ {u} : revoker'[v] = revoker[v]
    BY <1>2 DEF ReadSecret
  <2>2. Knows(u)'
    BY <1>2 DEF ReadSecret, Knows
  <2> QED BY <1>1, <2>1, <2>2
<1>3. CASE CountPermanent(u)
  <2> DEFINE t == revoker[u].target
  <2>1. /\ secret' = secret /\ raced' = raced /\ revoker[u].pc = "read"
        /\ \A v \in Revokers \ {u} : revoker'[v] = revoker[v]
    BY <1>3 DEF CountPermanent
  <2>2. CASE Remaining(u) < 1
    <3>1. Knows(u)'
      BY <1>3, <2>2 DEF CountPermanent, IdleRevoker, Knows
    <3> QED BY <1>1, <2>1, <3>1
  <2>3. CASE ~(Remaining(u) < 1)
    <3>1. revoker'[u] = [revoker[u] EXCEPT !.pc = "allowed"]
      BY <1>3, <2>3 DEF CountPermanent
    <3>2. Permanent \ {t} /= {} \/ raced
      <4>1. CASE revoker[u].permanent
        <5>1. Cardinality(Permanent) >= 2
          BY <2>3, <4>1, PermanentFinite DEF Remaining
        <5> QED BY <5>1, PermanentFinite, AnotherRemains
      <4>2. CASE ~revoker[u].permanent
        <5>1. t \notin Permanent
          BY <2>1, <4>2 DEF Knows, Permanent
        <5> QED BY <5>1 DEF PermanentRemains
      <4> QED BY <4>1, <4>2
    <3>3. Permanent' = Permanent
      BY <2>1 DEF Permanent
    <3>4. Knows(u)'
      BY <2>1, <3>1, <3>2, <3>3 DEF Knows
    <3> QED BY <1>1, <2>1, <3>4
  <2> QED BY <2>2, <2>3
<1>4. CASE Revoke(u)
  <2>1. PICK t \in Secrets : t = revoker[u].target
    OBVIOUS
  <2>2. /\ revoker[u].pc = "allowed" /\ secret' = [secret EXCEPT ![t] = "revoked"]
        /\ revoker'[u] = IdleRevoker
        /\ \A v \in Revokers \ {u} : revoker'[v] = revoker[v]
        /\ raced' = (raced \/ (t \in Permanent
                                /\ \E v \in Revokers : WillRevoke(v, Permanent \ {t})))
    BY <1>4, <2>1 DEF Revoke
  <2>3. Permanent' = Permanent \ {t}
    BY <2>2 DEF Permanent
  <2>4. raced \/ Permanent \ {t} /= {}
    BY <2>1, <2>2 DEF Knows
  <2>5. ASSUME NEW v \in Revokers \ {u}, revoker[v].pc = "allowed", NEW w, w = revoker[v].target
        PROVE  raced' \/ Permanent' \ {w} /= {}
    <3>1. raced \/ Permanent \ {w} /= {}
      BY <2>5 DEF Knows
    <3>2. CASE t \in Permanent /\ w \in Permanent \ {t}
      BY <2>2, <2>5, <3>2 DEF WillRevoke
    <3>3. CASE t \notin Permanent
      BY <2>2, <2>3, <3>1, <3>3
    <3>4. CASE w \notin Permanent \ {t}
      BY <2>2, <2>3, <2>4, <3>4
    <3> QED BY <3>2, <3>3, <3>4
  <2>6. ASSUME NEW v \in Revokers \ {u} PROVE Knows(v)'
    <3>1. ASSUME NEW w \in Secrets, w = revoker[v].target
          PROVE  /\ secret[w] /= "absent" => secret'[w] /= "absent"
                 /\ secret[w] /= "permanent" => secret'[w] /= "permanent"
      BY <2>2
    <3>2. Knows(v) /\ revoker'[v] = revoker[v]
      BY <2>2
    <3> QED BY <2>5, <3>1, <3>2 DEF Knows
  <2>7. Knows(u)'
    BY <2>2 DEF Knows, IdleRevoker
  <2> QED BY <2>2, <2>3, <2>4, <2>6, <2>7 DEF PermanentRemains
<1>5. CASE RevocationFails(u)
  <2>1. /\ secret' = secret /\ raced' = raced
        /\ \A v \in Revokers \ {u} : revoker'[v] = revoker[v]
    BY <1>5 DEF RevocationFails
  <2>2. Knows(u)'
    BY <1>5 DEF RevocationFails, IdleRevoker, Knows
  <2> QED BY <1>1, <2>1, <2>2
<1> QED BY <1>2, <1>3, <1>4, <1>5 DEF Revocation

LEMMA NextSafe == SafeInv /\ [SecretsNext]_secretsVars => SafeInv'
<1> SUFFICES ASSUME SafeInv, [SecretsNext]_secretsVars PROVE SafeInv'
  OBVIOUS
<1>1. SecretsTypeOK'
  BY SecretsNextTypeOK DEF SafeInv
<1>2. PermanentRemains' /\ \A v \in Revokers : Knows(v)'
  <2>1. CASE UNCHANGED secretsVars
    BY <2>1 DEF secretsVars, SafeInv, PermanentRemains, Permanent, Knows
  <2>2. CASE SecretsNext
    BY <2>2, ExpirySafe, RotationSafe, RevocationSafe DEF SecretsNext
  <2> QED BY <2>1, <2>2
<1> QED BY <1>1, <1>2 DEF SafeInv

\* A webhook keeps a permanent secret through any number of rotations, revocations and
\* expiries, at any point of the statements of RevokeWebhookSecret, unless one of two
\* revocations that have both counted has revoked (usecases/webhooks/usecase.go:417-436).
THEOREM RevocationsKeepAPermanentSecret == SecretsSpec => []PermanentRemains
<1>1. SafeInv => PermanentRemains
  BY DEF SafeInv
<1> QED BY <1>1, InitSafe, NextSafe, PTL DEF SecretsSpec

=============================================================================
