-------------------------- MODULE WebhookDelivery --------------------------
(***************************************************************************)
(* Webhook events, from the transaction that creates one to the deliveries *)
(* of it.  A dispatch job fans an event out to the webhooks that listen to *)
(* it, one delivery and one delivery job each.  A delivery job sends one   *)
(* request; when the request fails it enqueues the next job for the same   *)
(* delivery, up to a number of attempts.                                   *)
(*                                                                         *)
(* Attempts are counted twice: by the delivery, one for each request whose *)
(* failure was recorded, and by River, one for each run of a job.          *)
(***************************************************************************)
EXTENDS Integers, FiniteSets

CONSTANTS
  Events,         \* webhook events the application may create
  Webhooks,       \* registered endpoints
  Touched,        \* the webhooks that users create, change or delete
  MaxAttempts,    \* DefaultMaxAttempts: requests for a delivery
  MaxJobAttempts, \* River MaxAttempts of dispatch and delivery jobs
  MaxJobs,        \* bound: delivery jobs for one delivery
  Retention,      \* may events reach the end of the retention period?
  MaxReruns       \* bound: jobs run again after their last write

ASSUME BoundsAssumption ==
  /\ Touched \subseteq Webhooks
  /\ MaxAttempts \in Nat \ {0} /\ MaxJobAttempts \in Nat \ {0}
  /\ MaxJobs \in Nat \ {0} /\ MaxReruns \in Nat /\ Retention \in BOOLEAN

VARIABLES
  \* Rows of webhook_events_v2, webhooks and webhook_deliveries.
  event, webhook, delivery,
  \* River's jobs; the webhooks that a running dispatch job has listed.
  dispatch, targets, job,
  \* Requests sent for each delivery, and jobs run again so far.
  sends, reruns

vars == <<event, webhook, delivery, dispatch, targets, job, sends, reruns>>

-----------------------------------------------------------------------------

Deliveries == Events \X Webhooks
Slots == 1 .. MaxJobs

NoDelivery == [status |-> "absent", attempts |-> 0]
Settled == {"success", "failed"}

NoJob == [state |-> "none", runs |-> 0, seen |-> 0]
NewJob == [state |-> "queued", runs |-> 0, seen |-> 0]

\* Webhooks that no user touches exist from the start; not all listen to the events.
Init ==
  /\ event = [e \in Events |-> "none"]
  /\ webhook \in [Webhooks -> {"absent", "listening", "deaf"}]
  /\ \A w \in Webhooks : w \in Touched <=> webhook[w] = "absent"
  /\ delivery = [d \in Deliveries |-> NoDelivery]
  /\ dispatch = [e \in Events |-> NoJob]
  /\ targets = [e \in Events |-> {}]
  /\ job = [d \in Deliveries |-> [k \in Slots |-> NoJob]]
  /\ sends = [d \in Deliveries |-> 0]
  /\ reruns = 0

\* River hands a job to a worker, and decides about one that returned an error or
\* lost its worker.
Started(j, state) == [state |-> state, runs |-> j.runs + 1, seen |-> 0]

AfterError(j) ==
  [state |-> IF j.runs < MaxJobAttempts THEN "queued" ELSE "discarded",
   runs |-> j.runs, seen |-> 0]

-----------------------------------------------------------------------------
(* Webhooks and events.                                                    *)

RegisterWebhook(w) ==
  /\ w \in Touched /\ webhook[w] = "absent"
  /\ webhook' = [webhook EXCEPT ![w] = "listening"]
  /\ UNCHANGED <<event, delivery, dispatch, targets, job, sends, reruns>>

\* UpdateWebhook changes the event types that a webhook listens to.
UpdateWebhook(w) ==
  /\ w \in Touched /\ webhook[w] \in {"listening", "deaf"}
  /\ webhook' = [webhook EXCEPT ![w] = IF webhook[w] = "deaf" THEN "listening" ELSE "deaf"]
  /\ UNCHANGED <<event, delivery, dispatch, targets, job, sends, reruns>>

\* DeleteWebhook marks the row; its deliveries stay.
DeleteWebhook(w) ==
  /\ w \in Touched /\ webhook[w] \in {"listening", "deaf"}
  /\ webhook' = [webhook EXCEPT ![w] = "deleted"]
  /\ UNCHANGED <<event, delivery, dispatch, targets, job, sends, reruns>>

\* CreateWebhookEvent, in the transaction of the business operation.
CreateWebhookEvent(e) ==
  /\ event[e] = "none"
  /\ event' = [event EXCEPT ![e] = "stored"]
  /\ dispatch' = [dispatch EXCEPT ![e] = NewJob]
  /\ UNCHANGED <<webhook, delivery, targets, job, sends, reruns>>

\* Deleting an event deletes its deliveries (ON DELETE CASCADE).
RemoveEvent(e, how) ==
  /\ event' = [event EXCEPT ![e] = how]
  /\ delivery' = [d \in Deliveries |-> IF d[1] = e THEN NoDelivery ELSE delivery[d]]

\* The cleanup job, for events older than the retention period.
DeleteOldEvent(e) ==
  /\ Retention
  /\ event[e] = "stored"
  /\ RemoveEvent(e, "expired")
  /\ UNCHANGED <<webhook, dispatch, targets, job, sends, reruns>>

-----------------------------------------------------------------------------
(* The dispatch job.                                                       *)

\* The event is read, then the webhooks that listen to it.
StartDispatch(e) ==
  /\ dispatch[e].state = "queued"
  /\ \/ /\ event[e] = "stored"
        /\ dispatch' = [dispatch EXCEPT ![e] = Started(dispatch[e], "running")]
        /\ targets' = [targets EXCEPT ![e] = {w \in Webhooks : webhook[w] = "listening"}]
     \/ /\ event[e] /= "stored"
        /\ dispatch' = [dispatch EXCEPT ![e] = Started(dispatch[e], "handled")]
        /\ UNCHANGED targets
  /\ UNCHANGED <<event, webhook, delivery, job, sends, reruns>>

\* Nobody listens: the event is deleted.
DropEvent(e) ==
  /\ dispatch[e].state = "running" /\ targets[e] = {}
  /\ IF event[e] = "stored" THEN RemoveEvent(e, "dropped") ELSE UNCHANGED <<event, delivery>>
  /\ dispatch' = [dispatch EXCEPT ![e].state = "handled"]
  /\ UNCHANGED <<webhook, targets, job, sends, reruns>>

\* The listed webhooks that have no delivery of the event yet.
Missing(e) == {d \in Deliveries :
  d[1] = e /\ d[2] \in targets[e] /\ delivery[d] = NoDelivery}

\* The transaction; without the event's row it would violate the foreign key.
CreateDeliveries(e) ==
  /\ dispatch[e].state = "running" /\ targets[e] /= {}
  /\ event[e] = "stored"
  /\ delivery' = [d \in Deliveries |->
       IF d \in Missing(e) THEN [status |-> "pending", attempts |-> 0] ELSE delivery[d]]
  /\ job' = [d \in Deliveries |->
       IF d \in Missing(e) THEN [job[d] EXCEPT ![1] = NewJob] ELSE job[d]]
  /\ dispatch' = [dispatch EXCEPT ![e].state = "handled"]
  /\ targets' = [targets EXCEPT ![e] = {}]
  /\ UNCHANGED <<event, webhook, sends, reruns>>

\* Mutant: the error is logged and the job ends.
Mutant_DispatchGivesUp(e) ==
  /\ dispatch[e].state = "running"
  /\ dispatch' = [dispatch EXCEPT ![e].state = "handled"]
  /\ targets' = [targets EXCEPT ![e] = {}]
  /\ UNCHANGED <<event, webhook, delivery, job, sends, reruns>>

\* An error or the death of the worker: the transaction is rolled back.
DispatchFails(e) ==
  /\ dispatch[e].state = "running"
  /\ dispatch' = [dispatch EXCEPT ![e] = AfterError(dispatch[e])]
  /\ targets' = [targets EXCEPT ![e] = {}]
  /\ UNCHANGED <<event, webhook, delivery, job, sends, reruns>>

CompleteDispatch(e) ==
  /\ dispatch[e].state = "handled"
  /\ dispatch' = [dispatch EXCEPT ![e].state = "completed"]
  /\ targets' = [targets EXCEPT ![e] = {}]
  /\ UNCHANGED <<event, webhook, delivery, job, sends, reruns>>

\* The worker dies after the last write and before River records the completion.
DispatchRerun(e) ==
  /\ dispatch[e].state = "handled" /\ reruns < MaxReruns
  /\ reruns' = reruns + 1
  /\ dispatch' = [dispatch EXCEPT ![e] = AfterError(dispatch[e])]
  /\ targets' = [targets EXCEPT ![e] = {}]
  /\ UNCHANGED <<event, webhook, delivery, job, sends>>

-----------------------------------------------------------------------------
(* The delivery jobs of a delivery.                                        *)

SetJob(d, k, j) == job' = [job EXCEPT ![d][k] = j]
JobLocal == <<event, webhook, dispatch, targets>>

\* The delivery, its webhook and its event are read.
StartDelivery(d, k) ==
  /\ job[d][k].state = "queued"
  /\ delivery[d].status = "pending"
  /\ webhook[d[2]] /= "deleted" /\ event[d[1]] = "stored"
  /\ SetJob(d, k, [Started(job[d][k], "sending") EXCEPT !.seen = delivery[d].attempts])
  /\ UNCHANGED <<JobLocal, delivery, sends, reruns>>

\* The delivery was completed before.
SkipDelivery(d, k) ==
  /\ job[d][k].state = "queued"
  /\ delivery[d].status \in Settled
  /\ SetJob(d, k, Started(job[d][k], "handled"))
  /\ UNCHANGED <<JobLocal, delivery, sends, reruns>>

\* The delivery or its webhook is gone, which is an error like any other.
LoadFails(d, k) ==
  /\ job[d][k].state = "queued"
  /\ \/ delivery[d] = NoDelivery
     \/ delivery[d].status = "pending" /\ webhook[d[2]] = "deleted"
  /\ SetJob(d, k, AfterError(Started(job[d][k], "sending")))
  /\ UNCHANGED <<JobLocal, delivery, sends, reruns>>

\* SendWebhook: the endpoint answers with success, or the request fails.
SendWebhook(d, k) ==
  /\ job[d][k].state = "sending"
  /\ sends' = [sends EXCEPT ![d] = sends[d] + 1]
  /\ \E s \in {"accepted", "refused"} : SetJob(d, k, [job[d][k] EXCEPT !.state = s])
  /\ UNCHANGED <<JobLocal, delivery, reruns>>

\* An update of the delivery changes nothing when its row is gone.
WriteDelivery(d, row) ==
  delivery' = IF delivery[d] = NoDelivery THEN delivery ELSE [delivery EXCEPT ![d] = row]

Handle(d, k) == [job[d] EXCEPT ![k].state = "handled"]

RecordSuccess(d, k) ==
  /\ job[d][k].state = "accepted"
  /\ WriteDelivery(d, [delivery[d] EXCEPT !.status = "success"])
  /\ job' = [job EXCEPT ![d] = Handle(d, k)]
  /\ UNCHANGED <<JobLocal, sends, reruns>>

\* Mutant: one attempt too few.
Mutant_GiveUpEarly(n) == n + 1 >= MaxAttempts

\* Was attempt n the last one?
Exhausted(n) == n >= MaxAttempts

RecordFailed(d, k) ==
  /\ job[d][k].state = "refused"
  /\ Exhausted(job[d][k].seen + 1)
  /\ WriteDelivery(d, [delivery[d] EXCEPT !.status = "failed"])
  /\ job' = [job EXCEPT ![d] = Handle(d, k)]
  /\ UNCHANGED <<JobLocal, sends, reruns>>

\* Mutant: the job is enqueued before the attempt is recorded, not with it.
Mutant_EnqueuedOnItsOwn(d, k) ==
  /\ job[d][k].state = "refused"
  /\ ~Exhausted(job[d][k].seen + 1)
  /\ \E n \in Slots :
       /\ job[d][n] = NoJob /\ \A i \in 1 .. n - 1 : job[d][i] /= NoJob
       /\ \/ /\ WriteDelivery(d, [delivery[d] EXCEPT !.attempts = job[d][k].seen + 1])
             /\ job' = [job EXCEPT ![d] = [Handle(d, k) EXCEPT ![n] = NewJob]]
          \/ /\ job' = [job EXCEPT ![d][k] = AfterError(job[d][k]), ![d][n] = NewJob]
             /\ UNCHANGED delivery
  /\ UNCHANGED <<JobLocal, sends, reruns>>

\* Mutant: the attempt is recorded, and nothing enqueued.
Mutant_NoRetryJob(d, k) ==
  /\ job[d][k].state = "refused"
  /\ ~Exhausted(job[d][k].seen + 1)
  /\ WriteDelivery(d, [delivery[d] EXCEPT !.attempts = job[d][k].seen + 1])
  /\ job' = [job EXCEPT ![d] = Handle(d, k)]
  /\ UNCHANGED <<JobLocal, sends, reruns>>

\* The transaction: the attempt is recorded and the next job enqueued.
ScheduleRetry(d, k) ==
  /\ job[d][k].state = "refused"
  /\ ~Exhausted(job[d][k].seen + 1)
  /\ WriteDelivery(d, [delivery[d] EXCEPT !.attempts = job[d][k].seen + 1])
  /\ \E n \in Slots :
       /\ job[d][n] = NoJob /\ \A i \in 1 .. n - 1 : job[d][i] /= NoJob
       /\ job' = [job EXCEPT ![d] = [Handle(d, k) EXCEPT ![n] = NewJob]]
  /\ UNCHANGED <<JobLocal, sends, reruns>>

\* An error or the death of the worker before the last write.
DeliveryFails(d, k) ==
  /\ job[d][k].state \in {"sending", "accepted", "refused"}
  /\ SetJob(d, k, AfterError(job[d][k]))
  /\ UNCHANGED <<JobLocal, delivery, sends, reruns>>

CompleteDelivery(d, k) ==
  /\ job[d][k].state = "handled"
  /\ SetJob(d, k, [job[d][k] EXCEPT !.state = "completed", !.seen = 0])
  /\ UNCHANGED <<JobLocal, delivery, sends, reruns>>

DeliveryRerun(d, k) ==
  /\ job[d][k].state = "handled" /\ reruns < MaxReruns
  /\ reruns' = reruns + 1
  /\ SetJob(d, k, AfterError(job[d][k]))
  /\ UNCHANGED <<JobLocal, delivery, sends>>

-----------------------------------------------------------------------------

Users ==
  \/ \E w \in Webhooks : RegisterWebhook(w) \/ UpdateWebhook(w) \/ DeleteWebhook(w)
  \/ \E e \in Events : CreateWebhookEvent(e) \/ DeleteOldEvent(e)

Dispatch(e) ==
  \/ StartDispatch(e) \/ DropEvent(e) \/ CreateDeliveries(e) \/ DispatchFails(e)
  \/ CompleteDispatch(e) \/ DispatchRerun(e)

Deliver(d, k) ==
  \/ StartDelivery(d, k) \/ SkipDelivery(d, k) \/ LoadFails(d, k) \/ SendWebhook(d, k)
  \/ RecordSuccess(d, k) \/ RecordFailed(d, k) \/ ScheduleRetry(d, k)
  \/ DeliveryFails(d, k) \/ CompleteDelivery(d, k) \/ DeliveryRerun(d, k)

Next ==
  \/ Users
  \/ \E e \in Events : Dispatch(e)
  \/ \E d \in Deliveries, k \in Slots : Deliver(d, k)

Spec == Init /\ [][Next]_vars

\* River keeps running jobs; users, errors and crashes are free.
FairSpec ==
  /\ Spec
  /\ \A e \in Events : WF_vars(Dispatch(e))
  /\ \A d \in Deliveries, k \in Slots : WF_vars(Deliver(d, k))

-----------------------------------------------------------------------------
(* Properties.                                                             *)

\* A webhook that listens, and that nobody touches, has a delivery of every event that
\* was dispatched, unless the retention period is over.
EveryoneServed == \A e \in Events : \A w \in Webhooks \ Touched :
  webhook[w] = "listening" /\ dispatch[e].state = "completed" => event[e] = "expired" \/ delivery[<<e, w>>] /= NoDelivery

AtWork(d) == {k \in Slots :
  job[d][k].state \in {"queued", "sending", "accepted", "refused"}}

\* No two jobs work on a delivery, unless one ran again: requests are sent one after
\* the other.
OneAtATime == reruns = 0 => \A d \in Deliveries : Cardinality(AtWork(d)) <= 1

\* A delivery is given up only after the full number of requests, and counts no
\* attempt that was not made.
GivenUpAfterAll == \A d \in Deliveries :
  /\ delivery[d].status = "failed" => sends[d] >= MaxAttempts
  /\ delivery[d].attempts <= sends[d]

\* A delivery is settled, unless its webhook is deleted or River drops a job.
Settles == \A d \in Deliveries :
  delivery[d].status = "pending" ~>
    \/ delivery[d].status /= "pending"
    \/ webhook[d[2]] = "deleted"
    \/ \E k \in Slots : job[d][k].state = "discarded"

=============================================================================
