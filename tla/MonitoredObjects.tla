-------------------------- MODULE MonitoredObjects --------------------------
(***************************************************************************)
(* Continuous screening of the objects of a client table.  Objects become  *)
(* monitored through the API or through an ingestion that asks for it; the *)
(* row is in the client database, while screenings, their cases and the    *)
(* delta tracks are in another one.  A delta track tells the builder of    *)
(* dataset files which version of an object entered or left the dataset.   *)
(*                                                                         *)
(* One screening configuration is followed.  The enrichment of matches,    *)
(* enqueued with every screening, and audit rows are left out.             *)
(***************************************************************************)
EXTENDS ScreeningDatasets, Functions

CONSTANTS
  Hits,              \* contents that the screening provider finds on a list
  MaxAttempts,       \* attempts of a screening job
  MaxRequests        \* bound: requests of users about monitoring

ASSUME MonitoringAssumption == Hits \subseteq Data

VARIABLES
  screenings,        \* continuous_screenings of each object, in the order they were stored
  user,              \* local variables of the request being served
  requests           \* counter of the bound

monitoringVars == <<screenings, user, requests>>

IdleUser == [pc |-> "idle", object |-> "none", version |-> 0, screen |-> FALSE]

MonitoringInit ==
  /\ screenings = [o \in Objects |-> <<>>]
  /\ user = IdleUser
  /\ requests = 0

-----------------------------------------------------------------------------
(* Screenings.                                                             *)

DataOf(o, version) == table[o][version].data

Screening(o, version, trigger, at, inCase) ==
  [version |-> version, data |-> DataOf(o, version), trigger |-> trigger,
   at |-> at, inCase |-> inCase]

\* InsertContinuousScreening; a screening with matches is in review, and
\* HandleCaseCreation opens a case for it in the same transaction.
StoreScreening(o, version, trigger, at, skipCase) ==
  screenings' = [screenings EXCEPT ![o] = Append(screenings[o],
    Screening(o, version, trigger, at, DataOf(o, version) \in Hits /\ ~skipCase))]

-----------------------------------------------------------------------------
(* Requests: CreateContinuousScreeningObject, DeleteContinuousScreeningObject. *)

UserStep(pc) == user' = [user EXCEPT !.pc = pc]

\* The valid version of the object is read; without one the request is refused.
AskToMonitor(o, screen) ==
  /\ user.pc = "idle" /\ requests < MaxRequests
  /\ ValidVersion(o) /= 0
  /\ requests' = requests + 1
  /\ user' = [pc |-> "insert", object |-> o, version |-> ValidVersion(o), screen |-> screen]
  /\ UNCHANGED <<ingestionVars, datasetVars, screenings>>

EnsureTask(o, version, monitoring) ==
  [kind |-> "ensure", object |-> o, previous |-> 0, new |-> version,
   monitoring |-> monitoring, screen |-> FALSE]

\* The row in the client database, and the job that will check its delta track: the
\* job is enqueued in a transaction of its own, before the row is committed.
InsertMonitored ==
  /\ user.pc = "insert"
  /\ monitored[user.object] = 0
  /\ clock' = Now
  /\ tasks' = Enqueued({EnsureTask(user.object, user.version, Now)})
  /\ \/ /\ monitored' = [monitored EXCEPT ![user.object] = Now]
        /\ UserStep("screen")
        /\ UNCHANGED faults
     \/ UNCHANGED monitored /\ UserStep("idle") /\ Fault
  /\ UNCHANGED <<table, ingest, datasetVars, screenings, requests>>

\* The unique violation is ignored: the object is screened all the same.
AlreadyMonitored ==
  /\ user.pc = "insert"
  /\ monitored[user.object] /= 0
  /\ UserStep("screen")
  /\ UNCHANGED <<ingestionVars, datasetVars, screenings, requests>>

ScreenOnRequest ==
  /\ user.pc = "screen"
  /\ IF user.screen
     THEN /\ clock' = Now
          /\ StoreScreening(user.object, user.version, "added", Now, FALSE)
     ELSE UNCHANGED <<clock, screenings>>
  /\ UserStep("idle")
  /\ UNCHANGED <<table, ingest, monitored, tasks, faults, datasetVars, requests>>

\* An error or a crash ends the request where it is.
RequestFails ==
  /\ user.pc /= "idle" /\ Fault
  /\ UserStep("idle")
  /\ UNCHANGED <<table, clock, ingest, monitored, tasks, datasetVars, screenings, requests>>

StopMonitoring(o) ==
  /\ user.pc = "idle" /\ requests < MaxRequests
  /\ monitored[o] /= 0
  /\ requests' = requests + 1
  /\ monitored' = [monitored EXCEPT ![o] = 0]
  /\ user' = [pc |-> "untrack", object |-> o, version |-> 0, screen |-> FALSE]
  /\ UNCHANGED <<table, clock, ingest, tasks, faults, datasetVars, screenings>>

\* The deletion is tracked after the commit.
TrackDeletion ==
  /\ user.pc = "untrack"
  /\ clock' = Now
  /\ tracks' = WithDeletion(user.object, Now)
  /\ UserStep("idle")
  /\ UNCHANGED <<buildVars, table, ingest, monitored, tasks, faults, screenings,
                 requests>>

-----------------------------------------------------------------------------
(* Jobs.  A job that fails starts again from the beginning.                *)

JobStep(t, state) == tasks' = [tasks EXCEPT ![t].state = state]

RequeueOrDiscard(t) == tasks' = [tasks EXCEPT ![t].at = 0,
  ![t].state = IF tasks[t].attempts < MaxAttempts THEN "queued" ELSE "discarded"]

StartJob(t) ==
  /\ tasks[t].state = "queued"
  /\ tasks' = [tasks EXCEPT ![t].state = "started", ![t].attempts = tasks[t].attempts + 1]
  /\ UNCHANGED <<table, clock, ingest, monitored, faults, datasetVars, monitoringVars>>

JobFails(t) ==
  /\ tasks[t].state \notin {"queued", "done", "discarded"}
  /\ Fault
  /\ RequeueOrDiscard(t)
  /\ UNCHANGED <<table, clock, ingest, monitored, datasetVars, monitoringVars>>

\* The worker dies after the last write of the job: it runs again.
JobRerun(t) ==
  /\ tasks[t].state = "done"
  /\ Fault
  /\ RequeueOrDiscard(t)
  /\ UNCHANGED <<table, clock, ingest, monitored, datasetVars, screenings, user,
                 requests>>

\* RegisterObjectWorker: the row, unless it is there, then the delta track.
Register(t) ==
  /\ t.kind = "register" /\ tasks[t].state = "started"
  /\ IF monitored[t.object] = 0
     THEN monitored' = [monitored EXCEPT ![t.object] = Now] /\ clock' = Now
     ELSE UNCHANGED <<monitored, clock>>
  /\ JobStep(t, "registered")
  /\ UNCHANGED <<table, ingest, faults, datasetVars, monitoringVars>>

TrackAddition(t) ==
  /\ tasks[t].state = "registered"
  /\ clock' = Now
  /\ tracks' = WithTrack(t.object, t.new, Now)
  /\ JobStep(t, IF t.screen THEN "tracked" ELSE "done")
  /\ UNCHANGED <<buildVars, table, ingest, monitored, faults, screenings, user,
                 requests>>

ScreenRegistered(t) ==
  /\ tasks[t].state = "tracked"
  /\ clock' = Now
  /\ StoreScreening(t.object, t.new, "added", Now, FALSE)
  /\ JobStep(t, "done")
  /\ UNCHANGED <<table, ingest, monitored, faults, datasetVars, user, requests>>

\* EnsureDeltaTrackWorker: the addition is tracked again unless a track is as
\* recent as the monitored row.
EnsureTrack(t) ==
  /\ t.kind = "ensure" /\ tasks[t].state = "started"
  /\ clock' = Now
  /\ tracks' =
       LET known == {tr \in tracks : tr.object = t.object}
       IN  IF monitored[t.object] /= t.monitoring THEN tracks
           ELSE IF known /= {} /\ Latest(known).at >= t.monitoring THEN tracks
           ELSE WithTrack(t.object, t.new, Now)
  /\ JobStep(t, "done")
  /\ UNCHANGED <<buildVars, table, ingest, monitored, faults, screenings, user,
                 requests>>

-----------------------------------------------------------------------------
(* DoScreeningWorker: an object that was already monitored has a new version. *)

SameData(t) == DataOf(t.object, t.previous) = DataOf(t.object, t.new)

\* Mutant: any former screening does.
Mutant_EverScreened(t) == screenings[t.object] /= <<>>

\* The latest screening of the object is more recent than the version.
ScreenedSince(t) ==
  LET done == Range(screenings[t.object])
  IN  done /= {} /\ Latest(done).at > table[t.object][t.new].from

CheckUpdate(t) ==
  /\ t.kind = "update" /\ tasks[t].state = "started"
  /\ JobStep(t, IF monitored[t.object] /= t.monitoring \/ SameData(t) \/ ScreenedSince(t)
                THEN "done" ELSE "checked")
  /\ UNCHANGED <<table, clock, ingest, monitored, faults, datasetVars, monitoringVars>>

\* Mutant: any former screening suppresses the case.
Mutant_AnyScreening(t) == screenings[t.object] /= <<>>

\* The latest screening in a case has the same matches: no other case is opened.
SameHits(t) ==
  LET inCase == {s \in Range(screenings[t.object]) : s.inCase}
  IN  inCase /= {} /\ Latest(inCase).data = DataOf(t.object, t.new)

\* The provider has answered; the transaction that stores its answer begins.
OpenTransaction(t) ==
  /\ tasks[t].state = "checked"
  /\ clock' = Now
  /\ tasks' = [tasks EXCEPT ![t].state = "opened", ![t].at = Now, ![t].skip = SameHits(t)]
  /\ UNCHANGED <<table, ingest, monitored, faults, datasetVars, monitoringVars>>

\* Both rows bear the time at which their transaction began.
StoreUpdate(t) ==
  /\ tasks[t].state = "opened"
  /\ StoreScreening(t.object, t.new, "updated", tasks[t].at, tasks[t].skip)
  /\ tracks' = WithTrack(t.object, t.new, tasks[t].at)
  /\ JobStep(t, "done")
  /\ UNCHANGED <<buildVars, table, clock, ingest, monitored, faults, user,
                 requests>>

-----------------------------------------------------------------------------
(* The system.                                                             *)

screeningVars == <<ingestionVars, datasetVars, monitoringVars>>

ScreeningInit == IngestionInit /\ DatasetsInit /\ MonitoringInit

IngestionNext ==
  /\ \E i \in Ingesters :
       \/ \E rows \in Payloads, monitor, screen \in BOOLEAN :
            ingest[i].pc = "idle" /\ (screen => monitor) /\ Call(i, rows, monitor, screen)
       \/ IngestionStep(i)
  /\ UNCHANGED <<datasetVars, monitoringVars>>

RequestStep ==
  \/ \E o \in Objects, screen \in BOOLEAN : AskToMonitor(o, screen)
  \/ \E o \in Objects : StopMonitoring(o)
  \/ InsertMonitored \/ AlreadyMonitored \/ ScreenOnRequest \/ RequestFails \/ TrackDeletion

TaskStep(t) ==
  \/ StartJob(t) \/ JobFails(t) \/ JobRerun(t)
  \/ Register(t) \/ TrackAddition(t) \/ ScreenRegistered(t)
  \/ EnsureTrack(t)
  \/ CheckUpdate(t) \/ OpenTransaction(t) \/ StoreUpdate(t)

ScreeningNext ==
  \/ IngestionNext
  \/ RequestStep
  \/ \E t \in DOMAIN tasks : TaskStep(t)
  \/ BuildStep /\ UNCHANGED monitoringVars

ScreeningSpec == ScreeningInit /\ [][ScreeningNext]_screeningVars

-----------------------------------------------------------------------------
(* Properties.                                                             *)

\* A job about a change of an object that stayed monitored.
ChangeHandled(t) ==
  /\ t.kind = "update" /\ tasks[t].state = "done"
  /\ monitored[t.object] = t.monitoring
  /\ ~SameData(t)

\* When the job of a change has completed, the object was screened after the change;
\* and once for each version, whatever attempts of the job die and run again after
\* their commit.
UpdateScreened ==
  /\ \A t \in DOMAIN tasks : ChangeHandled(t) =>
       \E s \in DOMAIN screenings[t.object] :
         screenings[t.object][s].at > table[t.object][t.new].from
  /\ \A o \in Objects : \A j, k \in DOMAIN screenings[o] :
       /\ screenings[o][j].trigger = "updated" /\ screenings[o][k].trigger = "updated"
       /\ screenings[o][j].version = screenings[o][k].version
       => j = k

\* When the job of a change has completed, the new data were screened.
ChangeScreened == \A t \in DOMAIN tasks : ChangeHandled(t) =>
  \E s \in DOMAIN screenings[t.object] :
    screenings[t.object][s].data = DataOf(t.object, t.new)

\* A hit that opened no case has the matches of an earlier one that has a case.
CaseForHits == \A o \in Objects : \A s \in DOMAIN screenings[o] :
  screenings[o][s].data \in Hits /\ ~screenings[o][s].inCase =>
    \E r \in 1 .. s - 1 :
      screenings[o][r].inCase /\ screenings[o][r].data = screenings[o][s].data

\* Nothing is left to do about the object, and nothing was given up.
Quiet(o) ==
  /\ user.pc = "idle"
  /\ \A i \in Ingesters : ingest[i].pc \in {"idle", "returned"}
  /\ \A t \in DOMAIN tasks : t.object = o => tasks[t].state = "done"

\* Once its jobs are done, the last track of a monitored object is not a deletion.
MonitoredInDataset == \A o \in Objects :
  monitored[o] /= 0 /\ Quiet(o) => TracksOf(o) /= {} /\ Latest(TracksOf(o)).version /= 0

\* A dataset file that exists is what the filed tracks say: builds that fail, or that run
\* while objects change, lose no change and apply none twice or out of order, except a
\* track whose transaction was open when a build took its time.  It says nothing of a file
\* that was recorded and is lost, as no later build replaces it.  And once its jobs are
\* done, a monitored object has a track: the client database and the other one agree
\* although no transaction spans them.
DatasetFollowsTracks == \A o \in Objects :
  LET filed == {t \in TracksOf(o) : t.filed}
  IN  /\ stored /\ (\A t \in TracksOf(o) : ~t.late) =>
           dataset[o] = IF filed = {} THEN 0 ELSE Latest(filed).version
      /\ monitored[o] /= 0 /\ Quiet(o) => TracksOf(o) /= {}

=============================================================================
