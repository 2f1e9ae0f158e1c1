--------------------------- MODULE ObjectVersions ---------------------------
(***************************************************************************)
(* The client table of one object type and the ingestion of rows into it.  *)
(* A row never overwrites another: it ends the validity of the version it  *)
(* replaces and is inserted beside it.  The transaction reads the valid    *)
(* versions first, without a lock, and a unique index on the valid rows    *)
(* decides between transactions that read the same ones.                   *)
(*                                                                         *)
(* After its commit an ingestion enqueues jobs for continuous screening,   *)
(* in transactions of another database.  The jobs that compute risk scores *)
(* are left out.                                                           *)
(***************************************************************************)
EXTENDS Integers, Sequences, FiniteSets

CONSTANTS
  Objects,      \* object ids
  Times,        \* values of updated_at
  Data,         \* contents of the fields that may be left out of a row
  Missing,      \* the fields are left out: a PATCH
  Contents,     \* what the rows of calls may contain
  Ingesters,    \* calls to the ingestion: requests, attempts of jobs
  MaxFaults     \* bound: errors, crashes and answers that are lost

ASSUME IngestionAssumption ==
  /\ Times \subseteq Nat
  /\ Missing \notin Data /\ Contents \subseteq Data \cup {Missing}
  /\ MaxFaults \in Nat

VARIABLES
  table,        \* versions of each object, in the order they were inserted
  clock,        \* the last timestamp that was given out
  ingest,       \* local variables of each call
  monitored,    \* _monitored_objects: when the object was added, 0 if it is not
  tasks,        \* screening jobs enqueued so far: their state
  faults        \* counter of the bound

ingestionVars == <<table, clock, ingest, monitored, tasks, faults>>

-----------------------------------------------------------------------------

Row == [at : Times, data : Contents]

\* The payload of a call: a row for each of some objects.
Payloads == UNION {[S -> Row] : S \in (SUBSET Objects) \ {{}}}

NoRows == [o \in {} |-> 0]

IdleCall ==
  [pc |-> "idle", rows |-> NoRows, monitor |-> FALSE, screen |-> FALSE,
   seen |-> [o \in Objects |-> 0], from |-> 0, attempt |-> 0,
   stored |-> [o \in Objects |-> 0], watched |-> [o \in Objects |-> 0], outcome |-> "none"]

FirstVersion(at, data) == [at |-> at, valid |-> TRUE, from |-> 0, base |-> 0, data |-> data]

Earliest == {t \in Times : \A other \in Times : t <= other}

\* Some objects were ingested before.
IngestionInit ==
  /\ table \in [Objects ->
       {<<>>} \cup {<<FirstVersion(at, data)>> : at \in Earliest, data \in Data}]
  /\ clock = 0
  /\ ingest = [i \in Ingesters |-> IdleCall]
  /\ monitored = [o \in Objects |-> 0]
  /\ tasks = [t \in {} |-> 0]
  /\ faults = 0

\* A timestamp is later than those given out before, and than the start of the
\* transactions that began since the last one.
Now == clock + 1

Fault == faults < MaxFaults /\ faults' = faults + 1

\* The index of the valid version, 0 if there is none.
ValidVersions(o) == {k \in DOMAIN table[o] : table[o][k].valid}

ValidVersion(o) == IF ValidVersions(o) = {} THEN 0 ELSE CHOOSE k \in ValidVersions(o) : TRUE

-----------------------------------------------------------------------------
(* A call: insertEnumValuesAndIngest inside retryIngestion.                *)

Step(i, pc) == ingest' = [ingest EXCEPT ![i].pc = pc]

Return(i, outcome) == ingest' = [ingest EXCEPT
  ![i] = [IdleCall EXCEPT !.pc = "returned", !.outcome = outcome]]

Call(i, rows, monitor, screen) ==
  /\ ingest[i].pc \in {"idle", "returned"}
  /\ ingest' = [ingest EXCEPT ![i] = [IdleCall EXCEPT
       !.pc = "load", !.rows = rows, !.monitor = monitor, !.screen = screen,
       !.attempt = 1]]
  /\ UNCHANGED <<table, clock, monitored, tasks, faults>>

\* The transaction begins and reads the valid versions of the payload's objects.
LoadVersions(i) ==
  /\ ingest[i].pc = "load"
  /\ ingest' = [ingest EXCEPT ![i].pc = "store", ![i].from = clock,
       ![i].seen = [o \in Objects |->
         IF o \in DOMAIN ingest[i].rows THEN ValidVersion(o) ELSE 0]]
  /\ UNCHANGED <<table, clock, monitored, tasks, faults>>

\* A row that leaves fields out takes them from the version that was read.
Incomplete(i) == \E o \in DOMAIN ingest[i].rows :
  ingest[i].rows[o].data = Missing /\ ingest[i].seen[o] = 0

\* Mutant: an older row is inserted as well.
Mutant_KeepAll(i) == DOMAIN ingest[i].rows

\* Rows older than the stored version are left out.
Kept(i) == {o \in DOMAIN ingest[i].rows :
  LET k == ingest[i].seen[o]
  IN  k = 0 \/ ingest[i].rows[o].at >= table[o][k].at}

Merged(i, o) ==
  LET row == ingest[i].rows[o]
      k == ingest[i].seen[o]
  IN  [at |-> row.at, valid |-> TRUE, from |-> ingest[i].from,
       base |-> IF row.data = Missing THEN k ELSE 0,
       data |-> IF row.data = Missing THEN table[o][k].data ELSE row.data]

Replaced(i, o) ==
  [k \in DOMAIN table[o] |->
     IF k = ingest[i].seen[o] THEN [table[o][k] EXCEPT !.valid = FALSE] ELSE table[o][k]]

\* Mutant: the index on valid rows is not unique.
Mutant_NeverViolated(i) == FALSE

\* The unique index on object_id over the rows whose valid_until is infinity.
UniqueViolation(i) == \E o \in Kept(i) :
  \E k \in ValidVersions(o) : k /= ingest[i].seen[o]

\* IngestObjects compares, merges, ends the old versions and inserts.  An answer
\* of the database may be lost although the transaction was committed.
StoreVersions(i) ==
  /\ ingest[i].pc = "store"
  /\ ~Incomplete(i) /\ ~UniqueViolation(i)
  /\ table' = [o \in Objects |->
       IF o \in Kept(i) THEN Append(Replaced(i, o), Merged(i, o)) ELSE table[o]]
  /\ \/ /\ ingest' = [ingest EXCEPT ![i].pc = "watch",
            ![i].rows = [o \in Kept(i) |-> ingest[i].rows[o]],
            ![i].stored = [o \in Objects |-> IF o \in Kept(i) THEN Len(table[o]) + 1 ELSE 0]]
        /\ UNCHANGED faults
     \/ Fault /\ Return(i, "error")
  /\ UNCHANGED <<clock, monitored, tasks>>

RejectRows(i) ==
  /\ ingest[i].pc = "store" /\ Incomplete(i)
  /\ Return(i, "invalid")
  /\ UNCHANGED <<table, clock, monitored, tasks, faults>>

\* ConflictError: the whole transaction is tried once more.
RetryOnConflict(i) ==
  /\ ingest[i].pc = "store" /\ ~Incomplete(i) /\ UniqueViolation(i)
  /\ \/ /\ ingest[i].attempt = 1
        /\ ingest' = [ingest EXCEPT ![i].pc = "load", ![i].attempt = 2]
     \/ ingest[i].attempt = 2 /\ Return(i, "conflict")
  /\ UNCHANGED <<table, clock, monitored, tasks, faults>>

TransactionFails(i) ==
  /\ ingest[i].pc \in {"load", "store"}
  /\ Fault
  /\ Return(i, "error")
  /\ UNCHANGED <<table, clock, monitored, tasks>>

-----------------------------------------------------------------------------
(* What follows the commit: errors are logged, the call succeeds.          *)

ReadMonitored(i) ==
  /\ ingest[i].pc = "watch"
  /\ ingest' = [ingest EXCEPT ![i].pc = "enqueue",
       ![i].watched = [o \in Objects |->
         IF o \in DOMAIN ingest[i].rows THEN monitored[o] ELSE 0]]
  /\ UNCHANGED <<table, clock, monitored, tasks, faults>>

UpdateTask(o, previous, new, monitoring) ==
  [kind |-> "update", object |-> o, previous |-> previous, new |-> new,
   monitoring |-> monitoring, screen |-> TRUE]

RegisterTask(o, new, screen) ==
  [kind |-> "register", object |-> o, previous |-> 0, new |-> new,
   monitoring |-> 0, screen |-> screen]

QueuedTask == [state |-> "queued", attempts |-> 0, at |-> 0, skip |-> FALSE]

Enqueued(new) == [t \in DOMAIN tasks \cup new |->
  IF t \in DOMAIN tasks THEN tasks[t] ELSE QueuedTask]

\* Monitored objects that have a new version are screened again; when the caller
\* asks for it the others are registered.
NewTasks(i) ==
  LET rows == DOMAIN ingest[i].rows
      watched == ingest[i].watched
      seen == ingest[i].seen
  IN  {UpdateTask(o, seen[o], ingest[i].stored[o], watched[o]) :
         o \in {w \in rows : watched[w] /= 0 /\ seen[w] /= 0}}
      \cup {RegisterTask(o, ingest[i].stored[o], ingest[i].screen) :
         o \in {u \in rows : ingest[i].monitor /\ watched[u] = 0}}

EnqueueScreenings(i) ==
  /\ ingest[i].pc = "enqueue"
  /\ \/ tasks' = Enqueued(NewTasks(i)) /\ UNCHANGED faults
     \/ UNCHANGED tasks /\ Fault
  /\ Return(i, "ok")
  /\ UNCHANGED <<table, clock, monitored>>

IngestionStep(i) ==
  \/ LoadVersions(i) \/ StoreVersions(i) \/ RejectRows(i) \/ RetryOnConflict(i)
  \/ TransactionFails(i) \/ ReadMonitored(i) \/ EnqueueScreenings(i)

-----------------------------------------------------------------------------
(* Properties.                                                             *)

\* An object that has versions has one valid version, whatever transactions overlap,
\* and it is the most recent by updated_at, whatever the order in which rows arrive.
NewestValid == \A o \in Objects : table[o] /= <<>> =>
  \E v \in ValidVersions(o) :
    /\ ValidVersions(o) = {v}
    /\ \A k \in DOMAIN table[o] : table[o][k].at <= table[o][v].at

\* A row that leaves fields out is merged with the version it replaces, never with
\* one that was replaced in the meantime.
PatchesBuildOn == \A o \in Objects : \A k \in DOMAIN table[o] :
  table[o][k].base /= 0 =>
    /\ table[o][k].base = k - 1
    /\ table[o][k].data = table[o][k - 1].data

=============================================================================
