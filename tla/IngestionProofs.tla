-------------------------- MODULE IngestionProofs --------------------------
(***************************************************************************)
(* Proofs about IngestionSystem and MonitoredObjects, for any number of    *)
(* objects, calls and attempts: whatever overlaps or fails, an object has  *)
(* one valid version, the most recent, and patches are merged with the     *)
(* version they replace; an upload never moves back; a failed decision is  *)
(* announced once; the changes of a monitored object are screened, with a  *)
(* case for their matches, and the dataset follows the delta tracks.       *)
(***************************************************************************)
EXTENDS IngestionSystem, MonitoredObjects, WellFoundedInduction, TLAPS

Version == [at : Times, valid : BOOLEAN, from : Nat, base : Nat, data : Data]

SomeRows == UNION {[S -> Row] : S \in SUBSET Objects}

CallPcs == {"idle", "load", "store", "watch", "enqueue", "returned"}
Outcomes == {"none", "ok", "error", "invalid", "conflict"}

CallType ==
  [pc : CallPcs, rows : SomeRows, monitor : BOOLEAN, screen : BOOLEAN,
   seen : [Objects -> Nat], from : Nat, attempt : Nat, stored : [Objects -> Nat],
   watched : [Objects -> Nat], outcome : Outcomes]

Statuses == {"none", "pending", "ingested", "completed", "failed"}

Typed ==
  /\ ingest \in [Ingesters -> CallType]
  /\ clock \in Nat /\ monitored \in [Objects -> Nat]

\* The versions of an object: the last one alone is valid, and the most recent; a
\* patch builds on the one before it.
Chain(versions) ==
  /\ versions \in Seq(Version)
  /\ \A k \in 1 .. Len(versions) :
       /\ versions[k].valid <=> k = Len(versions)
       /\ versions[k].at <= versions[Len(versions)].at
       /\ versions[k].base /= 0 =>
            /\ versions[k].base = k - 1
            /\ versions[k].data = versions[k - 1].data

Chained == table = [o \in Objects |-> table[o]] /\ \A o \in Objects : Chain(table[o])

\* A version that a transaction has read is one of the table, valid or not any more.
SeenStored == \A i \in Ingesters : ingest[i].pc = "store" =>
  \A o \in Objects : ingest[i].seen[o] \in 0 .. Len(table[o])

CallsInv == Typed /\ Chained /\ SeenStored

ExecutionTyped == execution \in [status : Statuses, ingest : BOOLEAN, rows : SomeRows]

TableInv == CallsInv /\ ExecutionTyped

-----------------------------------------------------------------------------
(* Versions.                                                               *)

\* The valid version is the last one.
LEMMA ValidIsLast ==
  ASSUME NEW o \in Objects, Chain(table[o])
  PROVE  /\ Len(table[o]) \in Nat
         /\ ValidVersions(o) = IF Len(table[o]) = 0 THEN {} ELSE {Len(table[o])}
         /\ ValidVersion(o) = Len(table[o])
  <1>1. table[o] \in Seq(Version) /\ Len(table[o]) \in Nat /\ DOMAIN table[o] = 1 .. Len(table[o])
    BY DEF Chain
  <1>2. ValidVersions(o) = IF Len(table[o]) = 0 THEN {} ELSE {Len(table[o])}
    BY <1>1 DEF Chain, ValidVersions
  <1> QED BY <1>1, <1>2 DEF ValidVersion

\* A row that is stored next to the valid version, which it replaces, makes a chain.
LEMMA ChainGrows ==
  ASSUME NEW versions, Chain(versions), NEW last \in Version,
         last.valid,
         LET n == Len(versions)
         IN  /\ n /= 0 => last.at >= versions[n].at
             /\ last.base /= 0 => /\ n /= 0 /\ last.base = n
                                  /\ last.data = versions[n].data
  PROVE  LET grown == Append([k \in DOMAIN versions |->
               IF k = Len(versions) THEN [versions[k] EXCEPT !.valid = FALSE]
               ELSE versions[k]], last)
         IN  /\ Chain(grown) /\ Len(grown) = Len(versions) + 1
             /\ grown[Len(versions) + 1] = last
  <1> DEFINE n == Len(versions)
             old == [k \in DOMAIN versions |->
                IF k = n THEN [versions[k] EXCEPT !.valid = FALSE] ELSE versions[k]]
             new == Append(old, last)
  <1>1. /\ versions \in Seq(Version) /\ n \in Nat /\ DOMAIN versions = 1 .. n
        /\ \A k \in 1 .. n : versions[k] \in Version
    BY DEF Chain
  <1>2. \A k \in 1 .. n : /\ old[k] \in Version
                          /\ old[k].at = versions[k].at /\ old[k].base = versions[k].base
                          /\ old[k].data = versions[k].data
                          /\ ~old[k].valid
    BY <1>1 DEF Chain, Version
  <1>3. old \in Seq(Version) /\ Len(old) = n
    <2>1. old = [k \in 1 .. n |-> old[k]]
      BY <1>1
    <2> HIDE DEF old, n
    <2> QED BY <1>1, <1>2, <2>1
  <1> HIDE DEF old, n
  <1>4. /\ new \in Seq(Version) /\ Len(new) = n + 1
        /\ \A k \in 1 .. n : new[k] = old[k]
        /\ new[n + 1] = last
    BY <1>1, <1>3
  <1> HIDE DEF new
  <1>5. \A k \in 1 .. n + 1 : new[k].valid <=> k = n + 1
    BY <1>1, <1>2, <1>4
  <1>6. \A k \in 1 .. n + 1 : new[k].at <= new[n + 1].at
    <2>1. last.at \in Nat /\ \A k \in 1 .. n : versions[k].at \in Nat
      BY <1>1, IngestionAssumption DEF Version
    <2>2. \A k \in 1 .. n : versions[k].at <= versions[n].at
      BY DEF Chain, n
    <2>3. ASSUME NEW k \in 1 .. n
          PROVE  versions[k].at <= last.at
      <3>1. n /= 0 /\ n \in 1 .. n
        BY <1>1
      <3>2. last.at >= versions[n].at
        BY <3>1 DEF n
      <3> QED BY <2>1, <2>2, <3>1, <3>2
    <2> QED BY <1>1, <1>2, <1>4, <2>1, <2>3
  <1>7. ASSUME NEW k \in 1 .. n + 1, new[k].base /= 0
        PROVE  new[k].base = k - 1 /\ new[k].data = new[k - 1].data
    <2>1. CASE k = n + 1
      <3>1. n /= 0 /\ last.base = n /\ last.data = versions[n].data
        BY <1>4, <1>7, <2>1 DEF n
      <3>2. n \in 1 .. n /\ k - 1 = n
        BY <1>1, <2>1, <3>1
      <3> QED BY <1>2, <1>4, <2>1, <3>1, <3>2
    <2>2. CASE k /= n + 1
      <3>1. k \in 1 .. n
        BY <1>1, <2>2
      <3>2. versions[k].base \in Nat /\ versions[k].base /= 0
        BY <1>1, <1>2, <1>4, <1>7, <3>1 DEF Version
      <3>3. versions[k].base = k - 1 /\ versions[k].data = versions[k - 1].data
        BY <3>1, <3>2 DEF Chain, n
      <3>4. k - 1 \in 1 .. n
        BY <1>1, <3>1, <3>2, <3>3
      <3> QED BY <1>2, <1>4, <3>1, <3>3, <3>4
    <2> QED BY <2>1, <2>2
  <1>8. Chain(new)
    BY <1>4, <1>5, <1>6, <1>7 DEF Chain
  <1> QED BY <1>4, <1>8 DEF new, old, n

-----------------------------------------------------------------------------
(* The steps of a call.                                                    *)

LEMMA IdleCallTyped == NoRows \in SomeRows /\ IdleCall \in CallType
  <1>1. NoRows \in [{} -> Row]
    BY DEF NoRows
  <1>2. {} \in SUBSET Objects
    OBVIOUS
  <1>3. NoRows \in SomeRows
    BY <1>1, <1>2 DEF SomeRows
  <1> QED BY <1>3 DEF IdleCall, CallType, CallPcs, Outcomes

LEMMA InitCalls == IngestionInit => CallsInv
  <1> SUFFICES ASSUME IngestionInit PROVE CallsInv
    OBVIOUS
  <1>1. Typed
    BY IdleCallTyped DEF IngestionInit, Typed
  <1>2. ASSUME NEW o \in Objects
        PROVE  Chain(table[o])
    <2>1. CASE table[o] = <<>>
      BY <2>1 DEF Chain
    <2>2. CASE \E at \in Earliest, data \in Data : table[o] = <<FirstVersion(at, data)>>
      <3>1. PICK at \in Earliest, data \in Data : table[o] = <<FirstVersion(at, data)>>
        BY <2>2
      <3>2. at \in Times /\ at \in Nat
        BY IngestionAssumption DEF Earliest
      <3>3. FirstVersion(at, data) \in Version
        BY <3>2 DEF FirstVersion, Version
      <3>4. /\ FirstVersion(at, data).valid /\ FirstVersion(at, data).base = 0
            /\ FirstVersion(at, data).at = at
        BY DEF FirstVersion
      <3> QED BY <3>1, <3>2, <3>3, <3>4 DEF Chain
    <2> QED BY <2>1, <2>2 DEF IngestionInit
  <1>3. Chained
    BY <1>2 DEF IngestionInit, Chained
  <1>4. SeenStored
    BY DEF IngestionInit, SeenStored, IdleCall
  <1> QED BY <1>1, <1>3, <1>4 DEF CallsInv

\* A call that leaves the table alone keeps the invariant, if it has read versions
\* that are there.
LEMMA CallReplaced ==
  ASSUME CallsInv, NEW i \in Ingesters, NEW c \in CallType,
         ingest' = [ingest EXCEPT ![i] = c],
         c.pc = "store" => \A o \in Objects : c.seen[o] \in 0 .. Len(table[o]),
         UNCHANGED <<table, clock, monitored>>
  PROVE  CallsInv'
  <1>1. Typed'
    BY DEF CallsInv, Typed
  <1>2. Chained'
    BY DEF CallsInv, Chained
  <1>3. SeenStored'
    BY DEF CallsInv, Typed, SeenStored
  <1> QED BY <1>1, <1>2, <1>3 DEF CallsInv

\* A call begins.
LEMMA CallKeeps ==
  ASSUME CallsInv, NEW i \in Ingesters, NEW rows \in SomeRows, NEW m \in BOOLEAN,
         NEW s \in BOOLEAN, Call(i, rows, m, s)
  PROVE  CallsInv'
  <1> DEFINE c == [IdleCall EXCEPT !.pc = "load", !.rows = rows, !.monitor = m,
                                   !.screen = s, !.attempt = 1]
  <1>1. c \in CallType /\ c.pc = "load"
    BY IdleCallTyped DEF CallType, CallPcs
  <1>2. ingest' = [ingest EXCEPT ![i] = c] /\ UNCHANGED <<table, clock, monitored>>
    BY DEF Call
  <1> QED BY <1>1, <1>2, CallReplaced DEF CallsInv, Typed

\* A call returns without storing anything.
LEMMA ReturnKeeps ==
  ASSUME CallsInv, NEW i \in Ingesters, NEW outcome \in Outcomes, Return(i, outcome),
         UNCHANGED <<table, clock, monitored>>
  PROVE  CallsInv'
  <1> DEFINE c == [IdleCall EXCEPT !.pc = "returned", !.outcome = outcome]
  <1>1. c \in CallType /\ c.pc = "returned"
    BY IdleCallTyped DEF CallType, CallPcs
  <1>2. ingest' = [ingest EXCEPT ![i] = c]
    BY DEF Return
  <1> QED BY <1>1, <1>2, CallReplaced DEF CallsInv, Typed

LEMMA LoadKeeps ==
  ASSUME CallsInv, NEW i \in Ingesters, LoadVersions(i)
  PROVE  CallsInv'
  <1> DEFINE seen == [o \in Objects |->
               IF o \in DOMAIN ingest[i].rows THEN ValidVersion(o) ELSE 0]
             c == [ingest[i] EXCEPT !.pc = "store", !.from = clock, !.seen = seen]
  <1>1. \A o \in Objects : seen[o] \in Nat /\ seen[o] \in 0 .. Len(table[o])
    BY ValidIsLast DEF CallsInv, Chained
  <1>2. seen \in [Objects -> Nat]
    BY <1>1
  <1>3. ingest[i] \in CallType /\ clock \in Nat /\ ingest \in [Ingesters -> CallType]
    BY DEF CallsInv, Typed
  <1>4. ingest' = [ingest EXCEPT ![i] = c] /\ UNCHANGED <<table, clock, monitored>>
    BY <1>3 DEF LoadVersions
  <1> HIDE DEF seen
  <1>5. c \in CallType /\ c.seen = seen
    BY <1>2, <1>3 DEF CallType, CallPcs
  <1> HIDE DEF c
  <1> QED BY <1>1, <1>4, <1>5, CallReplaced DEF CallsInv, Typed

\* The versions that a transaction stores, if the index lets it.
LEMMA StoredChain ==
  ASSUME CallsInv, NEW i \in Ingesters, ingest[i].pc = "store", ~Incomplete(i),
         ~UniqueViolation(i), NEW o \in Kept(i)
  PROVE  /\ o \in Objects
         /\ Chain(Append(Replaced(i, o), Merged(i, o)))
         /\ Len(Append(Replaced(i, o), Merged(i, o))) = Len(table[o]) + 1
         /\ Append(Replaced(i, o), Merged(i, o))[Len(table[o]) + 1].at = ingest[i].rows[o].at
         /\ Len(table[o]) /= 0 => ingest[i].rows[o].at >= table[o][Len(table[o])].at
  <1> DEFINE n == Len(table[o])
             row == ingest[i].rows[o]
  <1>1. /\ ingest[i] \in CallType /\ ingest[i].rows \in SomeRows
        /\ ingest[i].seen \in [Objects -> Nat]
    BY DEF CallsInv, Typed, CallType
  <1>2. o \in DOMAIN ingest[i].rows
    BY DEF Kept
  <1>3. o \in Objects /\ row \in Row
    BY <1>1, <1>2 DEF SomeRows
  <1>4. row.at \in Times /\ row.data \in Contents
    BY <1>3 DEF Row
  <1>5. /\ Chain(table[o]) /\ n \in Nat /\ table[o] \in Seq(Version)
        /\ ValidVersions(o) = IF n = 0 THEN {} ELSE {n}
    BY <1>3, ValidIsLast DEF CallsInv, Chained, Chain
  <1>6. ingest[i].seen[o] \in 0 .. n
    BY <1>3 DEF CallsInv, SeenStored
  <1>7. ingest[i].seen[o] = n
    <2>1. CASE n = 0
      BY <1>6, <2>1
    <2>2. CASE n /= 0
      BY <1>5, <2>2 DEF UniqueViolation
    <2> QED BY <2>1, <2>2
  <1>8. n /= 0 => row.at >= table[o][n].at
    BY <1>7 DEF Kept
  <1>9. row.data = Missing => n /= 0
    BY <1>2, <1>7 DEF Incomplete
  <1>10. n /= 0 => table[o][n].data \in Data
    <2>1. n /= 0 => table[o][n] \in Version
      BY <1>5
    <2> QED BY <2>1 DEF Version
  <1>11. /\ Merged(i, o) \in Version /\ Merged(i, o).valid
         /\ Merged(i, o).at = row.at
         /\ Merged(i, o).base /= 0 => /\ n /= 0 /\ Merged(i, o).base = n
                                      /\ Merged(i, o).data = table[o][n].data
    <2>1. ingest[i].from \in Nat
      BY <1>1 DEF CallType
    <2>2. CASE row.data = Missing
      <3>1. Merged(i, o) = [at |-> row.at, valid |-> TRUE, from |-> ingest[i].from,
                            base |-> n, data |-> table[o][n].data]
        BY <1>7, <2>2 DEF Merged
      <3> QED BY <1>4, <1>5, <1>9, <1>10, <2>1, <2>2, <3>1 DEF Version
    <2>3. CASE row.data /= Missing
      <3>1. Merged(i, o) = [at |-> row.at, valid |-> TRUE, from |-> ingest[i].from,
                            base |-> 0, data |-> row.data]
        BY <2>3 DEF Merged
      <3>2. row.data \in Data
        BY <1>4, <2>3, IngestionAssumption
      <3> QED BY <1>4, <2>1, <3>1, <3>2 DEF Version
    <2> QED BY <2>2, <2>3
  <1>12. Replaced(i, o) = [k \in DOMAIN table[o] |->
           IF k = n THEN [table[o][k] EXCEPT !.valid = FALSE] ELSE table[o][k]]
    BY <1>7 DEF Replaced
  <1>13. /\ Chain(Append(Replaced(i, o), Merged(i, o)))
         /\ Len(Append(Replaced(i, o), Merged(i, o))) = n + 1
         /\ Append(Replaced(i, o), Merged(i, o))[n + 1] = Merged(i, o)
    BY <1>5, <1>8, <1>11, <1>12, ChainGrows
  <1> QED BY <1>3, <1>8, <1>11, <1>13

LEMMA StoreKeeps ==
  ASSUME CallsInv, NEW i \in Ingesters, StoreVersions(i)
  PROVE  CallsInv'
  <1> DEFINE rows == [o \in Kept(i) |-> ingest[i].rows[o]]
             versions == [o \in Objects |-> IF o \in Kept(i) THEN Len(table[o]) + 1 ELSE 0]
             c == [ingest[i] EXCEPT !.pc = "watch", !.rows = rows, !.stored = versions]
             d(outcome) == [IdleCall EXCEPT !.pc = "returned", !.outcome = outcome]
  <1>1. /\ ingest[i].pc = "store" /\ ~Incomplete(i) /\ ~UniqueViolation(i)
        /\ table' = [o \in Objects |->
             IF o \in Kept(i) THEN Append(Replaced(i, o), Merged(i, o)) ELSE table[o]]
        /\ UNCHANGED <<clock, monitored>>
    BY DEF StoreVersions
  <1>2. \A o \in Objects : Chain(table'[o]) /\ Len(table'[o]) \in Nat
                           /\ Len(table[o]) \in Nat /\ Len(table[o]) <= Len(table'[o])
    <2>1. ASSUME NEW o \in Kept(i)
          PROVE  Chain(table'[o]) /\ Len(table[o]) \in Nat /\ Len(table'[o]) = Len(table[o]) + 1
      <3>1. o \in Objects /\ table'[o] = Append(Replaced(i, o), Merged(i, o))
        BY <1>1, StoredChain
      <3>2. Chain(table'[o]) /\ Len(table'[o]) = Len(table[o]) + 1
        BY <1>1, <3>1, StoredChain
      <3>3. Len(table[o]) \in Nat
        BY <3>1, ValidIsLast DEF CallsInv, Chained
      <3> QED BY <3>2, <3>3
    <2>2. ASSUME NEW o \in Objects \ Kept(i)
          PROVE  Chain(table'[o]) /\ Len(table[o]) \in Nat /\ table'[o] = table[o]
      BY <1>1 DEF CallsInv, Chained, Chain
    <2> QED BY <2>1, <2>2
  <1>3. Chained'
    BY <1>1, <1>2 DEF Chained
  <1>4. /\ ingest[i] \in CallType /\ ingest \in [Ingesters -> CallType]
        /\ ingest[i].rows \in SomeRows
    BY DEF CallsInv, Typed, CallType
  <1>5. \/ ingest' = [ingest EXCEPT ![i] = c]
        \/ ingest' = [ingest EXCEPT ![i] = d("error")]
    BY <1>4 DEF StoreVersions, Return
  <1>6. rows \in SomeRows
    <2>1. PICK S \in SUBSET Objects : ingest[i].rows \in [S -> Row]
      BY <1>4 DEF SomeRows
    <2>2. Kept(i) \subseteq S
      BY <2>1 DEF Kept
    <2>3. rows \in [Kept(i) -> Row]
      BY <2>1, <2>2
    <2> QED BY <2>1, <2>2, <2>3 DEF SomeRows
  <1>7. versions \in [Objects -> Nat]
    BY <1>2
  <1> HIDE DEF rows, versions
  <1>8. c \in CallType /\ c.pc = "watch" /\ d("error") \in CallType
        /\ d("error").pc = "returned"
    BY <1>4, <1>6, <1>7, IdleCallTyped DEF CallType, CallPcs, Outcomes
  <1> HIDE DEF c, d
  <1>9. Typed'
    BY <1>1, <1>4, <1>5, <1>8 DEF CallsInv, Typed
  <1>10. SeenStored'
    <2>1. ASSUME NEW k \in Ingesters, ingest'[k].pc = "store", NEW o \in Objects
          PROVE  ingest'[k].seen[o] \in 0 .. Len(table'[o])
      <3>1. k /= i /\ ingest'[k] = ingest[k]
        BY <1>4, <1>5, <1>8, <2>1
      <3>2. ingest[k].seen[o] \in 0 .. Len(table[o])
        BY <2>1, <3>1 DEF CallsInv, SeenStored
      <3> QED BY <1>2, <3>1, <3>2
    <2> QED BY <2>1 DEF SeenStored
  <1> QED BY <1>3, <1>9, <1>10 DEF CallsInv

\* What follows the commit.
LEMMA AfterCommitKeeps ==
  ASSUME CallsInv, NEW i \in Ingesters, ReadMonitored(i) \/ EnqueueScreenings(i)
  PROVE  CallsInv'
  <1>1. CASE ReadMonitored(i)
    <2> DEFINE watched == [o \in Objects |->
                 IF o \in DOMAIN ingest[i].rows THEN monitored[o] ELSE 0]
               c == [ingest[i] EXCEPT !.pc = "enqueue", !.watched = watched]
    <2>1. ingest[i] \in CallType /\ ingest \in [Ingesters -> CallType]
      BY DEF CallsInv, Typed
    <2>2. watched \in [Objects -> Nat]
      BY DEF CallsInv, Typed
    <2>3. ingest' = [ingest EXCEPT ![i] = c] /\ UNCHANGED <<table, clock, monitored>>
      BY <1>1, <2>1 DEF ReadMonitored
    <2> HIDE DEF watched
    <2>4. c \in CallType /\ c.pc = "enqueue"
      BY <2>1, <2>2 DEF CallType, CallPcs
    <2> HIDE DEF c
    <2> QED BY <2>3, <2>4, CallReplaced DEF CallsInv, Typed
  <1>2. CASE EnqueueScreenings(i)
    <2>1. Return(i, "ok") /\ UNCHANGED <<table, clock, monitored>>
      BY <1>2 DEF EnqueueScreenings
    <2> QED BY <2>1, ReturnKeeps DEF Outcomes
  <1> QED BY <1>1, <1>2

LEMMA RetryKeeps ==
  ASSUME CallsInv, NEW i \in Ingesters,
         RejectRows(i) \/ RetryOnConflict(i) \/ TransactionFails(i)
  PROVE  CallsInv'
  <1>1. CASE \E outcome \in Outcomes : Return(i, outcome)
    <2>1. UNCHANGED <<table, clock, monitored>>
      BY DEF RejectRows, RetryOnConflict, TransactionFails
    <2> QED BY <1>1, <2>1, ReturnKeeps
  <1>2. CASE ~ \E outcome \in Outcomes : Return(i, outcome)
    <2> DEFINE c == [ingest[i] EXCEPT !.pc = "load", !.attempt = 2]
    <2>1. ingest[i] \in CallType /\ ingest \in [Ingesters -> CallType]
      BY DEF CallsInv, Typed
    <2>2. ingest' = [ingest EXCEPT ![i] = c] /\ UNCHANGED <<table, clock, monitored>>
      BY <1>2, <2>1 DEF RejectRows, RetryOnConflict, TransactionFails, Outcomes
    <2>3. c \in CallType /\ c.pc = "load"
      BY <2>1 DEF CallType, CallPcs
    <2> HIDE DEF c
    <2> QED BY <2>2, <2>3, CallReplaced DEF CallsInv, Typed
  <1> QED BY <1>1, <1>2

LEMMA IngestionStepKeeps ==
  ASSUME CallsInv, NEW i \in Ingesters, IngestionStep(i)
  PROVE  CallsInv'
  BY LoadKeeps, StoreKeeps, AfterCommitKeeps, RetryKeeps DEF IngestionStep

-----------------------------------------------------------------------------
(* Uploads and decisions.                                                  *)

LEMMA InitTable == Init => TableInv
  BY InitCalls, IdleCallTyped DEF Init, DecisionInit, TableInv, ExecutionTyped, Statuses

UploadStatuses == {"none", "pending", "processing", "success", "failure"}

WorkerPcs == {"idle", "giveUp", "claim", "batch", "ingesting", "checkpoint", "snooze",
              "finish", "fail", "done", "end"}

WorkerType == [pc : WorkerPcs, offset : Nat, cut : BOOLEAN]

UploadTyped ==
  /\ upload \in [status : UploadStatuses, offset : Nat]
  /\ worker \in [Attempts -> WorkerType]

\* What a step may do to the log.
UploadMoves ==
  /\ upload'.offset >= upload.offset
  /\ upload.status \in Terminal => upload' = upload

LEMMA UploadStepTyped ==
  ASSUME UploadTyped, NEW a \in Attempts, UploadStep(a)
  PROVE  UploadTyped' /\ [UploadMoves]_uploadVars
  <1> USE DEF UploadTyped, UploadStatuses, Terminal
  <1>1. IdleWorker \in WorkerType /\ worker[a] \in WorkerType /\ worker[a].offset \in Nat
    BY DEF IdleWorker, WorkerType, WorkerPcs
  <1>2. \/ UNCHANGED upload
        \/ \E from \in {"pending", "processing"}, to \in {"processing", "success", "failure"} :
             SetStatus(from, to)
        \/ /\ MayCheckpoint(a)
           /\ upload' = [upload EXCEPT !.offset = worker[a].offset]
    BY DEF UploadStep, StartAttempt, GiveUp, NothingToDo, Claim, IngestBatch, EndOfFile,
           BatchReturned, Checkpoint, Snooze, Finish, FailAttempt, Failed, StepFails, Cut,
           Unwind
  <1>3. upload' \in [status : UploadStatuses, offset : Nat] /\ UploadMoves
    BY <1>1, <1>2 DEF SetStatus, MayCheckpoint, UploadMoves
  <1>4. worker' \in [Attempts -> WorkerType]
    <2>1. CASE StartAttempt(a)
      <3> DEFINE pc == IF uploadJob.snoozes >= MaxSnoozes THEN "giveUp"
                       ELSE FirstStep(upload.status)
                 w == [pc |-> pc, offset |-> upload.offset, cut |-> FALSE]
      <3>1. pc \in WorkerPcs
        BY DEF FirstStep, WorkerPcs
      <3>2. w \in WorkerType
        BY <3>1 DEF WorkerType
      <3>3. worker' = [worker EXCEPT ![a] = w]
        BY <2>1 DEF StartAttempt
      <3> HIDE DEF w
      <3> QED BY <3>2, <3>3
    <2>2. CASE BatchReturned(a)
      BY <1>1, <2>2 DEF BatchReturned, Go, WorkerType, WorkerPcs
    <2>3. CASE ~StartAttempt(a) /\ ~BatchReturned(a)
      <3>1. \/ worker' = [worker EXCEPT ![a] = IdleWorker]
            \/ worker' = [worker EXCEPT ![a].cut = TRUE]
            \/ \E pc \in WorkerPcs : worker' = [worker EXCEPT ![a].pc = pc]
        BY <2>3 DEF UploadStep, GiveUp, NothingToDo, Claim, IngestBatch, EndOfFile,
                    Checkpoint, Snooze, Finish, FailAttempt, StepFails, Cut, Unwind,
                    EndJob, Go, WorkerPcs
      <3>2. /\ [worker[a] EXCEPT !.cut = TRUE] \in WorkerType
            /\ \A pc \in WorkerPcs : [worker[a] EXCEPT !.pc = pc] \in WorkerType
        BY <1>1 DEF WorkerType
      <3>3. \E w \in WorkerType : worker' = [worker EXCEPT ![a] = w]
        BY <1>1, <3>1, <3>2
      <3> QED BY <3>3
    <2> QED BY <2>1, <2>2, <2>3
  <1> QED BY <1>3, <1>4

\* Steps that leave the ingestion and the payload alone.
LEMMA OthersKeep ==
  ASSUME TableInv, UNCHANGED <<table, clock, ingest, monitored>>, ExecutionTyped'
  PROVE  TableInv'
  BY DEF TableInv, CallsInv, Typed, Chained, SeenStored

LEMMA UploadKeeps ==
  ASSUME TableInv, UploadTyped, NEW a \in Attempts, UploadStep(a), UNCHANGED execution
  PROVE  TableInv'
  <1>1. CASE IngestBatch(a)
    <2> DEFINE k == worker[a].offset + 1
    <2>1. worker[a].offset \in Nat /\ worker[a].offset < Len(File)
      BY <1>1 DEF IngestBatch, UploadTyped, WorkerType
    <2>2. File \in Seq(Payloads)
      BY UploadAssumption
    <2>3. File[k] \in SomeRows
      <3>1. k \in 1 .. Len(File)
        BY <2>1, <2>2
      <3>2. File[k] \in Payloads
        BY <2>2, <3>1
      <3> QED BY <3>2 DEF Payloads, SomeRows
    <2>4. Call(a, File[k], FALSE, FALSE)
      BY <1>1 DEF IngestBatch
    <2>5. a \in Ingesters
      BY UploadAssumption
    <2> HIDE DEF k
    <2> QED BY <2>3, <2>4, <2>5, CallKeeps DEF TableInv, ExecutionTyped
  <1>2. CASE ~IngestBatch(a)
    <2>1. UNCHANGED <<table, clock, ingest, monitored>>
      BY <1>2 DEF UploadStep, StartAttempt, GiveUp, NothingToDo, Claim, EndOfFile,
                  BatchReturned, Checkpoint, Snooze, Finish, FailAttempt, StepFails, Cut,
                  Unwind, ingestionVars
    <2> QED BY <2>1, OthersKeep DEF TableInv, CallsInv, Typed, ExecutionTyped
  <1> QED BY <1>1, <1>2

LEMMA AskKeeps ==
  ASSUME TableInv, AskDecision
  PROVE  TableInv'
  <1>1. PICK o \in Objects, row \in Row, shouldIngest \in BOOLEAN :
          CreateExecution([x \in {o} |-> row], shouldIngest)
    BY DEF AskDecision
  <1>2. [x \in {o} |-> row] \in [{o} -> Row] /\ {o} \in SUBSET Objects
    OBVIOUS
  <1>3. [x \in {o} |-> row] \in SomeRows
    BY <1>2 DEF SomeRows
  <1> QED BY <1>1, <1>3, OthersKeep DEF CreateExecution, ingestionVars, ExecutionTyped, Statuses

LEMMA DecisionKeeps ==
  ASSUME TableInv, DecisionStep
  PROVE  TableInv'
  <1>1. execution \in [status : Statuses, ingest : BOOLEAN, rows : SomeRows]
    BY DEF TableInv, CallsInv, Typed, ExecutionTyped
  <1>2. CASE IngestTrigger
    <2>1. Call(Decider, execution.rows, FALSE, FALSE) /\ UNCHANGED execution
      BY <1>2 DEF IngestTrigger
    <2>2. execution.rows \in SomeRows /\ Decider \in Ingesters
      BY <1>1, DecisionAssumption
    <2> QED BY <2>1, <2>2, CallKeeps DEF TableInv, ExecutionTyped
  <1>3. CASE ~IngestTrigger
    <2>1. UNCHANGED <<table, clock, ingest, monitored>>
      BY <1>3 DEF DecisionStep, StartDecision, TriggerIngested, CheckpointTrigger, Decide,
                  CannotDecide, RetryLater, RecordFailure, EndDecision, AttemptLost,
                  ingestionVars
    <2>2. execution' \in [status : Statuses, ingest : BOOLEAN, rows : SomeRows]
      <3>1. \/ UNCHANGED execution
            \/ \E s \in Statuses : execution' = [execution EXCEPT !.status = s]
        BY <1>3 DEF DecisionStep, StartDecision, TriggerIngested, CheckpointTrigger, Decide,
                    CannotDecide, RetryLater, RecordFailure, EndDecision, AttemptLost,
                    Statuses
      <3> QED BY <1>1, <3>1
    <2> QED BY <2>1, <2>2, OthersKeep DEF ExecutionTyped
  <1> QED BY <1>2, <1>3

\* The steps of the system, by component.
LEMMA StepCases ==
  ASSUME [Next]_vars
  PROVE  \/ \E i \in Ingesters : IngestionStep(i) /\ UNCHANGED <<uploadVars, decisionVars>>
         \/ \E a \in Attempts : UploadStep(a) /\ UNCHANGED decisionVars
         \/ AskDecision /\ UNCHANGED uploadVars
         \/ DecisionStep /\ UNCHANGED uploadVars
         \/ Submit /\ UNCHANGED decisionVars
         \/ UNCHANGED <<ingestionVars, uploadVars, decisionVars>>
  BY DEF Next, vars, AskDecision

LEMMA NextUpload ==
  ASSUME UploadTyped, [Next]_vars
  PROVE  UploadTyped' /\ [UploadMoves]_uploadVars
  <1>1. ASSUME NEW a \in Attempts, UploadStep(a)
        PROVE  UploadTyped' /\ [UploadMoves]_uploadVars
    BY <1>1, UploadStepTyped
  <1>2. CASE Submit
    BY <1>2 DEF Submit, UploadTyped, UploadMoves, UploadStatuses, Terminal
  <1>3. CASE UNCHANGED uploadVars
    BY <1>3 DEF uploadVars, UploadTyped
  <1> QED BY <1>1, <1>2, <1>3, StepCases

LEMMA NextTable ==
  ASSUME TableInv, UploadTyped, [Next]_vars
  PROVE  TableInv'
  <1>1. CASE UNCHANGED <<table, clock, ingest, monitored, execution>>
    BY <1>1, OthersKeep DEF TableInv, CallsInv, Typed, ExecutionTyped
  <1>2. CASE Submit /\ UNCHANGED decisionVars
    BY <1>1, <1>2 DEF Submit, ingestionVars, decisionVars
  <1>3. CASE UNCHANGED <<ingestionVars, uploadVars, decisionVars>>
    BY <1>1, <1>3 DEF ingestionVars, decisionVars
  <1>4. ASSUME NEW i \in Ingesters, IngestionStep(i), UNCHANGED decisionVars
        PROVE  TableInv'
    BY <1>4, IngestionStepKeeps DEF TableInv, ExecutionTyped, decisionVars
  <1> QED BY <1>2, <1>3, <1>4, StepCases, UploadKeeps, AskKeeps, DecisionKeeps
          DEF decisionVars

-----------------------------------------------------------------------------
(* What users are promised.                                                *)

LEMMA InitUpload == Init => UploadTyped
  BY DEF Init, UploadInit, UploadTyped, WorkerType, WorkerPcs, UploadStatuses, IdleWorker

LEMMA TableImplies ==
  ASSUME TableInv
  PROVE  NewestValid /\ PatchesBuildOn
  <1>1. ASSUME NEW o \in Objects
        PROVE  Chain(table[o])
    BY DEF TableInv, CallsInv, Chained
  <1>2. NewestValid
    <2>1. ASSUME NEW o \in Objects, table[o] /= <<>>
          PROVE  \E v \in ValidVersions(o) :
                   /\ ValidVersions(o) = {v}
                   /\ \A k \in DOMAIN table[o] : table[o][k].at <= table[o][v].at
      <3>1. table[o] \in Seq(Version) /\ Len(table[o]) /= 0
        BY <1>1, <2>1 DEF Chain
      <3>2. ValidVersions(o) = {Len(table[o])}
        BY <1>1, <3>1, ValidIsLast
      <3>3. \A k \in DOMAIN table[o] : table[o][k].at <= table[o][Len(table[o])].at
        BY <1>1, <3>1 DEF Chain
      <3> QED BY <3>2, <3>3
    <2> QED BY <2>1 DEF NewestValid
  <1>3. PatchesBuildOn
    <2>1. ASSUME NEW o \in Objects
          PROVE  DOMAIN table[o] = 1 .. Len(table[o])
      BY <1>1 DEF Chain
    <2> QED BY <1>1, <2>1 DEF PatchesBuildOn, Chain
  <1> QED BY <1>2, <1>3

LEMMA SystemInvariant == Spec => [](TableInv /\ UploadTyped)
  <1>1. Init => TableInv /\ UploadTyped
    BY InitTable, InitUpload
  <1>2. TableInv /\ UploadTyped /\ [Next]_vars => (TableInv /\ UploadTyped)'
    BY NextTable, NextUpload
  <1> QED BY <1>1, <1>2, PTL DEF Spec

-----------------------------------------------------------------------------
(* What the table holds of a payload.                                      *)

\* The valid version of an object is replaced by none that is older.
LEMMA TableGrows ==
  ASSUME TableInv, [Next]_vars, NEW o \in Objects, Len(table[o]) /= 0
  PROVE  /\ Len(table'[o]) /= 0
         /\ table'[o][Len(table'[o])].at >= table[o][Len(table[o])].at
  <1>1. /\ table[o] \in Seq(Version) /\ Len(table[o]) \in Nat
        /\ table[o][Len(table[o])].at \in Nat
    <2>1. table[o] \in Seq(Version)
      BY DEF TableInv, CallsInv, Chained, Chain
    <2>2. table[o][Len(table[o])] \in Version
      BY <2>1
    <2>3. table[o][Len(table[o])].at \in Nat
      BY <2>2, IngestionAssumption DEF Version
    <2> QED BY <2>1, <2>3
  <1>2. CASE table' = table
    BY <1>1, <1>2
  <1>3. CASE table' /= table
    <2>1. PICK i \in Ingesters : StoreVersions(i)
      BY <1>3 DEF Next, vars, ingestionVars, IngestionStep, LoadVersions, RejectRows,
                  RetryOnConflict, TransactionFails, ReadMonitored, EnqueueScreenings,
                  Submit, AskDecision, CreateExecution, Call,
                  UploadStep, StartAttempt, GiveUp, NothingToDo, Claim, IngestBatch, EndOfFile,
                  BatchReturned, Checkpoint, Snooze, Finish, FailAttempt, StepFails, Cut, Unwind,
                  DecisionStep, StartDecision, IngestTrigger, TriggerIngested,
                  CheckpointTrigger, Decide, CannotDecide, RetryLater, RecordFailure,
                  EndDecision, AttemptLost
    <2>2. CASE o \notin Kept(i)
      <3>1. table'[o] = table[o]
        BY <2>1, <2>2 DEF StoreVersions
      <3> QED BY <1>1, <3>1
    <2>3. CASE o \in Kept(i)
      <3>1. table'[o] = Append(Replaced(i, o), Merged(i, o))
        BY <2>1, <2>3 DEF StoreVersions
      <3>2. /\ Len(table'[o]) = Len(table[o]) + 1
            /\ table'[o][Len(table[o]) + 1].at = ingest[i].rows[o].at
            /\ ingest[i].rows[o].at >= table[o][Len(table[o])].at
        BY <2>1, <2>3, <3>1, StoredChain DEF StoreVersions, TableInv
      <3> QED BY <1>1, <3>2
    <2> QED BY <2>2, <2>3
  <1> QED BY <1>2, <1>3

\* The rows of a payload are in the table, or newer versions of them.
RowsHeld(rows) == \A o \in DOMAIN rows :
  Len(table[o]) /= 0 /\ table[o][Len(table[o])].at >= rows[o].at

\* The rows of a payload.
LEMMA RowsTyped ==
  ASSUME NEW rows \in SomeRows, NEW o \in DOMAIN rows
  PROVE  o \in Objects /\ rows[o].at \in Nat
  <1>1. PICK S \in SUBSET Objects : rows \in [S -> Row]
    BY DEF SomeRows
  <1>2. o \in S /\ rows[o] \in Row
    BY <1>1
  <1> QED BY <1>2, IngestionAssumption DEF Row

LEMMA RowsHeldStay ==
  ASSUME TableInv, TableInv', [Next]_vars, NEW rows \in SomeRows, RowsHeld(rows)
  PROVE  RowsHeld(rows)'
  <1>1. ASSUME NEW o \in DOMAIN rows
        PROVE  Len(table'[o]) /= 0 /\ table'[o][Len(table'[o])].at >= rows[o].at
    <2>1. o \in Objects /\ rows[o].at \in Nat
      BY RowsTyped
    <2>2. /\ Len(table[o]) /= 0 /\ Len(table'[o]) /= 0
          /\ table[o][Len(table[o])].at >= rows[o].at
          /\ table'[o][Len(table'[o])].at >= table[o][Len(table[o])].at
      BY <2>1, TableGrows DEF RowsHeld
    <2>3. table[o] \in Seq(Version) /\ table'[o] \in Seq(Version)
      BY <2>1 DEF TableInv, CallsInv, Chained, Chain
    <2>4. table[o][Len(table[o])] \in Version /\ table'[o][Len(table'[o])] \in Version
      BY <2>2, <2>3
    <2>5. table[o][Len(table[o])].at \in Nat /\ table'[o][Len(table'[o])].at \in Nat
      BY <2>4, IngestionAssumption DEF Version
    <2> QED BY <2>1, <2>2, <2>5
  <1> QED BY <1>1 DEF RowsHeld

\* A payload that is stored, or found to be older than what is stored, is held.
LEMMA StoredRowsHeld ==
  ASSUME TableInv, TableInv', NEW i \in Ingesters, StoreVersions(i),
         NEW rows \in SomeRows, ingest[i].rows = rows
  PROVE  RowsHeld(rows)'
  <1> DEFINE call == ingest[i]
  <1>1. ASSUME NEW o \in DOMAIN rows
        PROVE  Len(table'[o]) /= 0 /\ table'[o][Len(table'[o])].at >= rows[o].at
    <2>1. o \in Objects /\ rows[o].at \in Nat
      BY RowsTyped
    <2>2. table[o] \in Seq(Version) /\ Len(table[o]) \in Nat
      BY <2>1 DEF TableInv, CallsInv, Chained, Chain
    <2>3. CASE o \in Kept(i)
      <3>1. table'[o] = Append(Replaced(i, o), Merged(i, o))
        BY <2>1, <2>3 DEF StoreVersions
      <3>2. /\ Len(table'[o]) = Len(table[o]) + 1
            /\ table'[o][Len(table[o]) + 1].at = rows[o].at
        BY <2>3, <3>1, StoredChain DEF StoreVersions, TableInv
      <3> QED BY <2>1, <2>2, <3>2
    <2>4. CASE o \notin Kept(i)
      <3>1. table'[o] = table[o]
        BY <2>1, <2>4 DEF StoreVersions
      <3>2. call.seen[o] /= 0 /\ ~ (rows[o].at >= table[o][call.seen[o]].at)
        BY <1>1, <2>4 DEF Kept
      <3>3. call.seen[o] \in 1 .. Len(table[o])
        <4>1. call.seen[o] \in 0 .. Len(table[o])
          BY <2>1 DEF TableInv, CallsInv, SeenStored, StoreVersions
        <4> HIDE DEF call
        <4> QED BY <2>2, <3>2, <4>1
      <3> HIDE DEF call
      <3>4. table[o][call.seen[o]].at <= table[o][Len(table[o])].at
        BY <2>1, <3>3 DEF TableInv, CallsInv, Chained, Chain
      <3>5. table[o][call.seen[o]] \in Version /\ table[o][Len(table[o])] \in Version
        BY <2>2, <3>3
      <3>6. table[o][call.seen[o]].at \in Nat /\ table[o][Len(table[o])].at \in Nat
        BY <3>5, IngestionAssumption DEF Version
      <3> QED BY <2>1, <2>2, <3>1, <3>2, <3>3, <3>4, <3>6
    <2> QED BY <2>3, <2>4
  <1> QED BY <1>1 DEF RowsHeld

\* A call that has returned says how.
LEMMA Returned ==
  ASSUME TableInv, NEW i \in Ingesters, NEW outcome, Return(i, outcome)
  PROVE  ingest'[i].pc = "returned" /\ ingest'[i].outcome = outcome
  <1> DEFINE c == [IdleCall EXCEPT !.pc = "returned", !.outcome = outcome]
  <1>1. c.pc = "returned" /\ c.outcome = outcome
    BY IdleCallTyped DEF CallType
  <1>2. ingest' = [ingest EXCEPT ![i] = c] /\ ingest \in [Ingesters -> CallType]
    BY DEF Return, TableInv, CallsInv, Typed
  <1> HIDE DEF c
  <1> QED BY <1>1, <1>2

\* Where the call of a payload is tells whether the table holds it.
CallHolds(i, rows) ==
  /\ ingest[i].pc \in {"load", "store"} => ingest[i].rows = rows
  /\ ingest[i].pc \in {"watch", "enqueue"} => RowsHeld(rows)
  /\ ingest[i].pc = "returned" /\ ingest[i].outcome = "ok" => RowsHeld(rows)

\* A call that begins.
LEMMA CallBegins ==
  ASSUME TableInv, NEW i \in Ingesters, NEW rows, NEW m, NEW s, Call(i, rows, m, s)
  PROVE  CallHolds(i, rows)'
  <1> DEFINE c == [IdleCall EXCEPT !.pc = "load", !.rows = rows, !.monitor = m,
                                   !.screen = s, !.attempt = 1]
  <1>1. c.pc = "load" /\ c.rows = rows
    BY IdleCallTyped DEF CallType
  <1>2. ingest' = [ingest EXCEPT ![i] = c] /\ ingest \in [Ingesters -> CallType]
    BY DEF Call, TableInv, CallsInv, Typed
  <1> HIDE DEF c
  <1>3. ingest'[i].pc = "load" /\ ingest'[i].rows = rows
    BY <1>1, <1>2
  <1> QED BY <1>3 DEF CallHolds

\* A call that another one steps beside.
LEMMA CallStays ==
  ASSUME TableInv, TableInv', [Next]_vars, NEW i \in Ingesters, NEW rows \in SomeRows,
         CallHolds(i, rows), ingest'[i] = ingest[i]
  PROVE  CallHolds(i, rows)'
  <1>1. RowsHeld(rows) => RowsHeld(rows)'
    BY RowsHeldStay
  <1> QED BY <1>1 DEF CallHolds

\* A call, step by step.
LEMMA CallAdvances ==
  ASSUME TableInv, TableInv', [Next]_vars, NEW i \in Ingesters, NEW rows \in SomeRows,
         CallHolds(i, rows), IngestionStep(i)
  PROVE  CallHolds(i, rows)'
  <1> DEFINE call == ingest[i]
  <1>1. call \in CallType /\ ingest \in [Ingesters -> CallType]
    BY DEF TableInv, CallsInv, Typed, ExecutionTyped
  <1>2. RowsHeld(rows) => RowsHeld(rows)'
    BY RowsHeldStay
  <1>3. CASE LoadVersions(i)
    <2>1. ingest'[i].pc = "store" /\ ingest'[i].rows = call.rows /\ call.pc = "load"
      BY <1>1, <1>3 DEF LoadVersions, CallType
    <2> QED BY <2>1 DEF CallHolds
  <1>4. CASE StoreVersions(i)
    <2>1. call.rows = rows
      BY <1>4 DEF StoreVersions, CallHolds
    <2>2. RowsHeld(rows)'
      BY <1>4, <2>1, StoredRowsHeld
    <2>3. ingest'[i].pc \notin {"load", "store"}
      <3>1. CASE Return(i, "error")
        BY <1>1, <3>1, Returned
      <3>2. CASE ~Return(i, "error")
        <4> DEFINE kept == [o \in Kept(i) |-> ingest[i].rows[o]]
                   versions == [o \in Objects |->
                     IF o \in Kept(i) THEN Len(table[o]) + 1 ELSE 0]
        <4>1. ingest' = [ingest EXCEPT ![i] =
                [call EXCEPT !.pc = "watch", !.rows = kept, !.stored = versions]]
          BY <1>1, <1>4, <3>2 DEF StoreVersions
        <4> HIDE DEF kept, versions
        <4>2. ingest'[i].pc = "watch"
          BY <1>1, <4>1 DEF CallType
        <4> QED BY <4>2
      <3> QED BY <3>1, <3>2
    <2> QED BY <2>2, <2>3 DEF CallHolds
  <1>5. CASE RejectRows(i) \/ RetryOnConflict(i) \/ TransactionFails(i)
    <2>1. call.pc \in {"load", "store"} /\ call.rows = rows
      BY <1>5 DEF RejectRows, RetryOnConflict, TransactionFails, CallHolds
    <2>2. \/ ingest'[i].pc = "load" /\ ingest'[i].rows = call.rows
          \/ ingest'[i].pc = "returned" /\ ingest'[i].outcome /= "ok"
      <3>1. CASE \E outcome \in {"invalid", "conflict", "error"} : Return(i, outcome)
        BY <1>1, <3>1, Returned
      <3>2. CASE ~ \E outcome \in {"invalid", "conflict", "error"} : Return(i, outcome)
        BY <1>1, <1>5, <3>2 DEF RejectRows, RetryOnConflict, TransactionFails, CallType
      <3> QED BY <3>1, <3>2
    <2> QED BY <2>1, <2>2 DEF CallHolds
  <1>6. CASE ReadMonitored(i) \/ EnqueueScreenings(i)
    <2>1. call.pc \in {"watch", "enqueue"}
      BY <1>6 DEF ReadMonitored, EnqueueScreenings
    <2>2. RowsHeld(rows)'
      BY <1>2, <2>1 DEF CallHolds
    <2>3. ingest'[i].pc \notin {"load", "store"}
      <3>1. CASE ReadMonitored(i)
        BY <1>1, <3>1 DEF ReadMonitored, CallType
      <3>2. CASE EnqueueScreenings(i)
        BY <1>1, <3>2, Returned DEF EnqueueScreenings
      <3> QED BY <1>6, <3>1, <3>2
    <2> QED BY <2>2, <2>3 DEF CallHolds
  <1> QED BY <1>3, <1>4, <1>5, <1>6 DEF IngestionStep

\* The steps of a call leave the others alone.
LEMMA OtherCall ==
  ASSUME TableInv, NEW i \in Ingesters, NEW j \in Ingesters, i /= j,
         IngestionStep(i) \/ \E rows : Call(i, rows, FALSE, FALSE)
  PROVE  ingest'[j] = ingest[j]
  BY DEF TableInv, CallsInv, Typed, IngestionStep, LoadVersions, StoreVersions, RejectRows,
         RetryOnConflict, TransactionFails, ReadMonitored, EnqueueScreenings, Call, Return

-----------------------------------------------------------------------------
(* Decisions.                                                              *)

\* The object of the decision is in the table, or a newer version of it.
Held == RowsHeld(execution.rows)

LEMMA HeldStays ==
  ASSUME TableInv, TableInv', [Next]_vars, Held, execution'.rows = execution.rows
  PROVE  Held'
  <1>0. PICK rows : rows = execution.rows
    OBVIOUS
  <1>1. rows \in SomeRows /\ RowsHeld(rows)
    BY <1>0 DEF TableInv, CallsInv, Typed, ExecutionTyped, Held
  <1>2. RowsHeld(rows)'
    BY <1>1, RowsHeldStay
  <1> QED BY <1>0, <1>2 DEF Held, RowsHeld

JobStates == {"none", "available", "ingest", "ingesting", "checkpoint", "decide", "failing",
              "decided", "completed", "discarded"}

\* Where the job is tells what the row of the execution says; where its call is tells
\* whether the object is in the table.
CallOfJob ==
  decisionJob.state = "ingesting" => CallHolds(Decider, execution.rows)

RowOfJob ==
  /\ execution.status = "none" <=> decisionJob.state = "none"
  /\ decisionJob.state \in {"ingest", "ingesting", "checkpoint"} => execution.status = "pending"
  /\ decisionJob.state = "decide" =>
       /\ execution.status \in {"pending", "ingested"}
       /\ execution.ingest => execution.status = "ingested"
  /\ decisionJob.state = "failing" => execution.status /= "failed"
  /\ decisionJob.state = "checkpoint" \/ execution.status = "ingested" => Held

DecisionsOfRow ==
  /\ execution.status = "completed" => decisions = 1
  /\ decisions \in {0, 1}
  /\ decisions = 1 => execution.status \in {"completed", "failed"}
  /\ decisions = 1 /\ execution.ingest => Held

DecisionInv ==
  /\ decisionJob \in [state : JobStates, attempts : Nat, retryable : BOOLEAN]
  /\ CallOfJob /\ RowOfJob /\ DecisionsOfRow /\ FailureTold

LEMMA InitDecision == Init => DecisionInv
  BY DEF Init, DecisionInit, DecisionInv, JobStates, CallOfJob, RowOfJob, DecisionsOfRow,
         FailureTold

\* The call of the job, step by step.
LEMMA CallStepDecision ==
  ASSUME TableInv, TableInv', DecisionInv, [Next]_vars, NEW i \in Ingesters,
         IngestionStep(i), UNCHANGED decisionVars
  PROVE  DecisionInv'
  <1>1. UNCHANGED <<execution, decisions, failureEvents, decisionJob>>
    BY DEF decisionVars
  <1>2. Held => Held'
    BY <1>1, HeldStays
  <1>3. RowOfJob' /\ DecisionsOfRow' /\ FailureTold'
    BY <1>1, <1>2 DEF DecisionInv, RowOfJob, DecisionsOfRow, FailureTold
  <1>4. CallOfJob'
    <2> SUFFICES ASSUME decisionJob.state = "ingesting"
                 PROVE  CallOfJob'
      BY <1>1 DEF CallOfJob
    <2>0. PICK rows : rows = execution.rows
      OBVIOUS
    <2>1. rows \in SomeRows /\ rows = execution'.rows /\ Decider \in Ingesters
      BY <1>1, <2>0, DecisionAssumption DEF TableInv, CallsInv, Typed, ExecutionTyped
    <2>2. CallHolds(Decider, rows)
      BY <2>0 DEF DecisionInv, CallOfJob
    <2>3. CallHolds(Decider, rows)'
      <3>1. CASE i = Decider
        BY <2>1, <2>2, <3>1, CallAdvances
      <3>2. CASE i /= Decider
        BY <2>1, <2>2, <3>2, OtherCall, CallStays
      <3> QED BY <3>1, <3>2
    <2> QED BY <2>1, <2>3 DEF CallOfJob, CallHolds, RowsHeld
  <1> QED BY <1>1, <1>3, <1>4 DEF DecisionInv

\* The steps of uploads leave the execution and its call alone.
LEMMA OtherStepDecision ==
  ASSUME TableInv, TableInv', UploadTyped, DecisionInv, [Next]_vars,
         UNCHANGED decisionVars,
         \/ UNCHANGED ingestionVars
         \/ \E a \in Attempts : UploadStep(a)
  PROVE  DecisionInv'
  <1>1. UNCHANGED <<execution, decisions, failureEvents, decisionJob>>
    BY DEF decisionVars
  <1>2. Held => Held'
    BY <1>1, HeldStays
  <1>3. ingest'[Decider] = ingest[Decider]
    <2>1. ASSUME NEW a \in Attempts, UploadStep(a)
          PROVE  ingest'[Decider] = ingest[Decider]
      <3>1. CASE ingest' = ingest
        BY <3>1
      <3>2. CASE \E rows : Call(a, rows, FALSE, FALSE)
        <4>1. a /= Decider /\ Decider \in Ingesters /\ ingest \in [Ingesters -> CallType]
          BY SeparateCalls, DecisionAssumption DEF TableInv, CallsInv, Typed, ExecutionTyped
        <4> QED BY <3>2, <4>1 DEF Call
      <3>3. ingest' = ingest \/ \E rows : Call(a, rows, FALSE, FALSE)
        <4>1. CASE IngestBatch(a)
          BY <4>1 DEF IngestBatch
        <4>2. CASE ~IngestBatch(a)
          BY <2>1, <4>2
             DEF UploadStep, StartAttempt, GiveUp, NothingToDo, Claim, EndOfFile,
                 BatchReturned, Checkpoint, Snooze, Finish, FailAttempt, StepFails, Cut,
                 Unwind, ingestionVars
        <4> QED BY <4>1, <4>2
      <3> QED BY <3>1, <3>2, <3>3
    <2> QED BY <2>1 DEF ingestionVars
  <1>4. CallOfJob'
    <2>1. Held = RowsHeld(execution.rows) /\ Held' = RowsHeld(execution.rows)'
      BY DEF Held
    <2> QED BY <1>1, <1>2, <1>3, <2>1 DEF DecisionInv, CallOfJob, CallHolds
  <1> QED BY <1>1, <1>2, <1>4 DEF DecisionInv, RowOfJob, DecisionsOfRow, FailureTold

\* The steps of the job.
LEMMA JobStepDecision ==
  ASSUME TableInv, TableInv', DecisionInv, [Next]_vars, DecisionStep
  PROVE  DecisionInv'
  <1> USE DEF DecisionInv, JobStates, Statuses
  <1>1. /\ execution \in [status : Statuses, ingest : BOOLEAN, rows : SomeRows]
        /\ decisionJob \in [state : JobStates, attempts : Nat, retryable : BOOLEAN]
    BY DEF TableInv, CallsInv, Typed, ExecutionTyped
  <1>2. Again \in {"available", "discarded"}
    BY DEF Again
  <1>3. CASE IngestTrigger
    <2> DEFINE c == [IdleCall EXCEPT !.pc = "load", !.rows = execution.rows,
                 !.monitor = FALSE, !.screen = FALSE, !.attempt = 1]
    <2>1. c.pc = "load" /\ c.rows = execution.rows
      BY IdleCallTyped DEF CallType
    <2>2. /\ ingest' = [ingest EXCEPT ![Decider] = c]
          /\ ingest \in [Ingesters -> CallType] /\ Decider \in Ingesters
          /\ table' = table
      BY <1>3, DecisionAssumption DEF IngestTrigger, Call, TableInv, CallsInv, Typed
    <2> HIDE DEF c
    <2>3. /\ ingest'[Decider].pc = "load" /\ ingest'[Decider].rows = execution.rows
          /\ UNCHANGED <<execution, decisions, failureEvents, table>>
          /\ decisionJob.state = "ingest"
          /\ decisionJob' = [decisionJob EXCEPT !.state = "ingesting"]
      BY <1>3, <2>1, <2>2 DEF IngestTrigger, JobAt
    <2> QED BY <1>1, <2>3
            DEF CallOfJob, CallHolds, RowOfJob, DecisionsOfRow, FailureTold, Held, RowsHeld
  <1>4. CASE ~IngestTrigger
    <2>1. UNCHANGED <<table, ingest>> /\ execution'.rows = execution.rows
          /\ execution'.ingest = execution.ingest
      BY <1>1, <1>4 DEF DecisionStep, StartDecision, TriggerIngested, CheckpointTrigger,
                  Decide, CannotDecide, RetryLater, RecordFailure, EndDecision, AttemptLost,
                  ingestionVars
    <2>2. Held' = Held
      BY <2>1 DEF Held, RowsHeld
    <2>3. CASE StartDecision
      <3> DEFINE s == CASE execution.status \in Decided -> "completed"
                        [] execution.status = "pending" /\ execution.ingest -> "ingest"
                        [] OTHER -> "decide"
      <3>1. /\ UNCHANGED <<execution, decisions, failureEvents>>
            /\ decisionJob.state = "available"
            /\ decisionJob' = [decisionJob EXCEPT !.attempts = @ + 1, !.state = s]
        BY <2>3 DEF StartDecision
      <3>2. /\ s \in {"completed", "ingest", "decide"}
            /\ s = "ingest" => execution.status = "pending"
            /\ s = "decide" => /\ execution.status \notin Decided
                               /\ ~(execution.status = "pending" /\ execution.ingest)
        BY DEF Decided
      <3> HIDE DEF s
      <3>3. decisionJob'.state = s
            /\ decisionJob' \in [state : JobStates, attempts : Nat, retryable : BOOLEAN]
        <4>1. s \in JobStates /\ decisionJob.attempts + 1 \in Nat
          BY <1>1, <3>2
        <4>2. [decisionJob EXCEPT !.attempts = decisionJob.attempts + 1, !.state = s]
                \in [state : JobStates, attempts : Nat, retryable : BOOLEAN]
          BY <1>1, <4>1
        <4>3. [decisionJob EXCEPT !.attempts = decisionJob.attempts + 1, !.state = s].state = s
          BY <1>1
        <4> QED BY <3>1, <4>2, <4>3
      <3>4. RowOfJob'
        BY <1>1, <2>2, <3>1, <3>2, <3>3 DEF RowOfJob, Decided
      <3> QED BY <1>1, <2>1, <2>2, <3>1, <3>2, <3>3, <3>4
              DEF CallOfJob, DecisionsOfRow, FailureTold
    <2>4. CASE TriggerIngested
      BY <1>1, <2>1, <2>2, <2>4
         DEF TriggerIngested, CallOfJob, CallHolds, Held, RowOfJob, DecisionsOfRow, FailureTold
    <2>5. CASE CheckpointTrigger
      BY <1>1, <2>1, <2>2, <2>5
         DEF CheckpointTrigger, JobAt, CallOfJob, RowOfJob, DecisionsOfRow, FailureTold
    <2>6. CASE Decide
      BY <1>1, <2>1, <2>2, <2>6
         DEF Decide, JobAt, CallOfJob, RowOfJob, DecisionsOfRow, FailureTold
    <2>7. CASE \E retryable \in BOOLEAN : CannotDecide(retryable)
      BY <1>1, <2>1, <2>2, <2>7
         DEF CannotDecide, CallOfJob, RowOfJob, DecisionsOfRow, FailureTold
    <2>8. CASE RecordFailure
      BY <1>1, <2>1, <2>2, <2>8
         DEF RecordFailure, JobAt, CallOfJob, RowOfJob, DecisionsOfRow, FailureTold
    <2>9. CASE RetryLater \/ EndDecision \/ AttemptLost
      <3>1. /\ UNCHANGED <<execution, decisions, failureEvents>>
            /\ decisionJob.state /= "none"
            /\ \E s \in {"available", "discarded", "completed"} :
                 decisionJob' = [decisionJob EXCEPT !.state = s]
        BY <1>2, <2>9 DEF RetryLater, EndDecision, AttemptLost, JobAt
      <3> QED BY <1>1, <2>1, <2>2, <3>1 DEF CallOfJob, RowOfJob, DecisionsOfRow, FailureTold
    <2> QED BY <1>4, <2>3, <2>4, <2>5, <2>6, <2>7, <2>8, <2>9 DEF DecisionStep
  <1> QED BY <1>3, <1>4

LEMMA AskStepDecision ==
  ASSUME TableInv, DecisionInv, AskDecision
  PROVE  DecisionInv'
  <1>1. /\ execution.status = "none" /\ execution'.status = "pending"
        /\ decisionJob' = [decisionJob EXCEPT !.state = "available"]
        /\ UNCHANGED <<decisions, failureEvents>>
    BY DEF AskDecision, CreateExecution
  <1>2. decisionJob \in [state : JobStates, attempts : Nat, retryable : BOOLEAN]
    BY DEF DecisionInv
  <1> QED BY <1>1, <1>2
          DEF DecisionInv, JobStates, CallOfJob, RowOfJob, DecisionsOfRow, FailureTold

LEMMA NextDecision ==
  ASSUME TableInv, UploadTyped, DecisionInv, [Next]_vars
  PROVE  DecisionInv'
  <1>1. TableInv'
    BY NextTable
  <1>2. ASSUME NEW i \in Ingesters, IngestionStep(i), UNCHANGED decisionVars
        PROVE  DecisionInv'
    BY <1>1, <1>2, CallStepDecision
  <1>3. ASSUME NEW a \in Attempts, UploadStep(a), UNCHANGED decisionVars
        PROVE  DecisionInv'
    BY <1>1, <1>3, OtherStepDecision
  <1>4. CASE UNCHANGED <<ingestionVars, decisionVars>>
    BY <1>1, <1>4, OtherStepDecision
  <1>5. CASE AskDecision
    BY <1>5, AskStepDecision
  <1>6. CASE DecisionStep
    BY <1>1, <1>6, JobStepDecision
  <1> QED BY <1>2, <1>3, <1>4, <1>5, <1>6, StepCases DEF Submit

LEMMA DecisionImplies ==
  ASSUME TableInv, DecisionInv
  PROVE  DecidedOnIngested
  <1>1. decisions <= 1 /\ (execution.status = "completed" => decisions = 1)
    BY DEF DecisionInv, DecisionsOfRow
  <1>2. ASSUME decisions > 0, execution.ingest, NEW o \in DOMAIN execution.rows
        PROVE  ValidVersion(o) /= 0 /\ table[o][ValidVersion(o)].at >= execution.rows[o].at
    <2>1. Held
      BY <1>2 DEF DecisionInv, DecisionsOfRow
    <2>2. o \in Objects
      BY DEF TableInv, CallsInv, Typed, ExecutionTyped, SomeRows
    <2>3. ValidVersion(o) = Len(table[o])
      BY <2>2, ValidIsLast DEF TableInv, CallsInv, Chained
    <2> QED BY <2>1, <2>3 DEF Held, RowsHeld
  <1> QED BY <1>1, <1>2 DEF DecidedOnIngested

-----------------------------------------------------------------------------
(* What an upload has stored.                                              *)

\* The first n batches of the file are in the table, or newer rows.
HeldUpTo(n) == n <= Len(File) /\ \A k \in 1 .. n : RowsHeld(File[k])

\* Every batch before the offset of the log is held, whoever wrote the offset.
LogInv ==
  /\ HeldUpTo(upload.offset)
  /\ upload.status = "success" => HeldUpTo(Len(File))

\* So is every batch before the offset of an attempt, also of one that was overtaken;
\* the call of an attempt is for the batch that comes next.
WorkerInv(a) ==
  /\ HeldUpTo(worker[a].offset)
  /\ worker[a].pc = "finish" => worker[a].offset = Len(File)
  /\ worker[a].pc = "ingesting" =>
       /\ worker[a].offset < Len(File)
       /\ CallHolds(a, File[worker[a].offset + 1])

UploadInv == LogInv /\ \A a \in Attempts : WorkerInv(a)

LEMMA FileTyped == Len(File) \in Nat /\ \A k \in 1 .. Len(File) : File[k] \in SomeRows
  <1>1. File \in Seq(Payloads) /\ Payloads \subseteq SomeRows
    BY UploadAssumption DEF Payloads, SomeRows
  <1> QED BY <1>1

LEMMA HeldUpToStays ==
  ASSUME TableInv, TableInv', [Next]_vars, NEW n \in Nat, HeldUpTo(n)
  PROVE  HeldUpTo(n)'
  <1>1. ASSUME NEW k \in 1 .. n PROVE RowsHeld(File[k])'
    <2>1. k \in 1 .. Len(File) /\ File[k] \in SomeRows /\ RowsHeld(File[k])
      BY FileTyped DEF HeldUpTo
    <2> QED BY <2>1, RowsHeldStay
  <1> QED BY <1>1 DEF HeldUpTo

LEMMA OneMoreHeld ==
  ASSUME NEW n \in Nat, HeldUpTo(n), n < Len(File), RowsHeld(File[n + 1])
  PROVE  HeldUpTo(n + 1)
  <1>1. n + 1 <= Len(File)
    BY FileTyped
  <1>2. ASSUME NEW k \in 1 .. n + 1 PROVE RowsHeld(File[k])
    <2>1. k \in 1 .. n \/ k = n + 1
      OBVIOUS
    <2> QED BY <2>1 DEF HeldUpTo
  <1> QED BY <1>1, <1>2 DEF HeldUpTo

\* An attempt that others step beside.
LEMMA WorkerStays ==
  ASSUME TableInv, TableInv', UploadTyped, [Next]_vars, NEW a \in Attempts, WorkerInv(a),
         worker'[a].pc = worker[a].pc, worker'[a].offset = worker[a].offset,
         ingest'[a] = ingest[a] \/ IngestionStep(a)
  PROVE  WorkerInv(a)'
  <1>0. PICK n : n = worker[a].offset
    OBVIOUS
  <1>1. n \in Nat /\ HeldUpTo(n) /\ a \in Ingesters
    BY <1>0, UploadAssumption DEF UploadTyped, WorkerType, WorkerInv
  <1>2. HeldUpTo(n)'
    BY <1>1, HeldUpToStays
  <1>3. ASSUME worker[a].pc = "ingesting" PROVE n < Len(File) /\ CallHolds(a, File[n + 1])'
    <2>1. n < Len(File) /\ CallHolds(a, File[n + 1])
      BY <1>0, <1>3 DEF WorkerInv
    <2>2. n + 1 \in 1 .. Len(File) /\ File[n + 1] \in SomeRows
      BY <1>1, <2>1, FileTyped
    <2> QED BY <1>1, <2>1, <2>2, CallStays, CallAdvances
  <1>4. worker[a].pc = "finish" => n = Len(File)
    BY <1>0 DEF WorkerInv
  <1> QED BY <1>0, <1>2, <1>3, <1>4 DEF WorkerInv, CallHolds, HeldUpTo, RowsHeld

\* The log when its offset stays.
LEMMA LogStays ==
  ASSUME TableInv, TableInv', UploadTyped, [Next]_vars, LogInv,
         upload'.offset = upload.offset,
         upload'.status = "success" => upload.status = "success" \/ HeldUpTo(Len(File))
  PROVE  LogInv'
  <1>0. PICK n, m : n = upload.offset /\ m = Len(File)
    OBVIOUS
  <1>1. n \in Nat /\ m \in Nat /\ HeldUpTo(n)
    BY <1>0, FileTyped DEF UploadTyped, LogInv
  <1>2. HeldUpTo(n)' /\ (upload'.status = "success" => HeldUpTo(m)')
    BY <1>0, <1>1, HeldUpToStays DEF LogInv
  <1> QED BY <1>0, <1>2 DEF LogInv, HeldUpTo, RowsHeld

\* What the steps of an attempt leave alone.
LEMMA UploadFrame ==
  ASSUME TableInv, UploadTyped, NEW a \in Attempts, UploadStep(a)
  PROVE  /\ \A b \in Attempts \ {a} : worker'[b] = worker[b] /\ ingest'[b] = ingest[b]
         /\ ~IngestBatch(a) => ingest' = ingest
         /\ UNCHANGED <<table, clock, monitored>>
  <1>1. ASSUME NEW b \in Attempts \ {a} PROVE worker'[b] = worker[b]
    BY DEF UploadTyped, UploadStep, StartAttempt, GiveUp, NothingToDo, Claim, IngestBatch,
           EndOfFile, BatchReturned, Checkpoint, Snooze, Finish, FailAttempt, StepFails,
           Cut, Unwind, EndJob, Go
  <1>2. /\ ~IngestBatch(a) => ingest' = ingest
        /\ UNCHANGED <<table, clock, monitored>>
    BY DEF UploadStep, StartAttempt, GiveUp, NothingToDo, Claim, IngestBatch, EndOfFile,
           BatchReturned, Checkpoint, Snooze, Finish, FailAttempt, StepFails, Cut, Unwind,
           ingestionVars, Call
  <1>3. ASSUME NEW b \in Attempts \ {a}, IngestBatch(a) PROVE ingest'[b] = ingest[b]
    <2>1. a \in Ingesters /\ b \in Ingesters /\ a /= b
      BY UploadAssumption
    <2> QED BY <1>3, <2>1, OtherCall DEF IngestBatch
  <1> QED BY <1>1, <1>2, <1>3

\* An attempt that is neither in a call nor at the end of the file.
LEMMA WorkerMoves ==
  ASSUME NEW a \in Attempts, NEW n, worker'[a].offset = n, HeldUpTo(n)',
         worker'[a].pc \notin {"ingesting", "finish"}
  PROVE  WorkerInv(a)'
  BY DEF WorkerInv, HeldUpTo, RowsHeld

LEMMA HeldSame ==
  ASSUME table' = table, NEW n, HeldUpTo(n)
  PROVE  HeldUpTo(n)'
  BY DEF HeldUpTo, RowsHeld

\* The attempt's own steps.
LEMMA AttemptKeeps ==
  ASSUME TableInv, TableInv', UploadTyped, [Next]_vars, LogInv, NEW a \in Attempts,
         WorkerInv(a), UploadStep(a)
  PROVE  WorkerInv(a)'
  <1>0. PICK n, m : n = worker[a].offset /\ m = upload.offset
    OBVIOUS
  <1>1. /\ n \in Nat /\ HeldUpTo(n) /\ HeldUpTo(m) /\ table' = table
        /\ worker \in [Attempts -> WorkerType] /\ worker[a] \in WorkerType
        /\ a \in Ingesters
    BY <1>0, UploadAssumption, UploadFrame
       DEF UploadTyped, WorkerType, WorkerInv, LogInv
  <1>2. /\ HeldUpTo(n)' /\ HeldUpTo(m)' /\ HeldUpTo(0)'
        /\ n < Len(File) /\ RowsHeld(File[n + 1]) => HeldUpTo(n + 1)'
    <2>1. HeldUpTo(0)
      BY FileTyped DEF HeldUpTo
    <2>2. n < Len(File) /\ RowsHeld(File[n + 1]) => HeldUpTo(n + 1)
      BY <1>1, OneMoreHeld
    <2> QED BY <1>1, <2>1, <2>2, HeldSame
  <1>3. CASE StartAttempt(a)
    <2>1. worker'[a].offset = m /\ worker'[a].pc \in {"giveUp", "claim", "batch", "done"}
      BY <1>0, <1>1, <1>3 DEF StartAttempt, FirstStep
    <2> QED BY <1>2, <2>1, WorkerMoves
  <1>4. CASE IngestBatch(a)
    <2>1. /\ worker'[a].offset = n /\ worker'[a].pc = "ingesting" /\ n < Len(File)
          /\ Call(a, File[n + 1], FALSE, FALSE)
      BY <1>0, <1>1, <1>4 DEF IngestBatch, WorkerType
    <2>2. CallHolds(a, File[n + 1])'
      BY <1>1, <2>1, CallBegins
    <2> QED BY <1>2, <2>1, <2>2 DEF WorkerInv, HeldUpTo, RowsHeld, CallHolds
  <1>5. CASE EndOfFile(a)
    <2>1. worker'[a].offset = n /\ worker'[a].pc = "finish" /\ n >= Len(File)
      BY <1>0, <1>1, <1>5 DEF EndOfFile, WorkerType
    <2>2. n = Len(File)
      BY <1>1, <2>1, FileTyped DEF HeldUpTo
    <2> QED BY <1>2, <2>1, <2>2 DEF WorkerInv, HeldUpTo, RowsHeld
  <1>6. CASE BatchReturned(a)
    <2>1. CASE ingest[a].outcome = "ok"
      <3>1. worker'[a].offset = n + 1 /\ worker'[a].pc \in {"end", "checkpoint"}
        BY <1>0, <1>1, <1>6, <2>1 DEF BatchReturned, WorkerType
      <3>2. n < Len(File) /\ RowsHeld(File[n + 1])
        BY <1>0, <1>6, <2>1 DEF BatchReturned, WorkerInv, CallHolds
      <3>3. HeldUpTo(n + 1)'
        BY <1>2, <3>2
      <3> QED BY <3>1, <3>3, WorkerMoves
    <2>2. CASE ingest[a].outcome /= "ok"
      <3>1. worker'[a].offset = n /\ worker'[a].pc \in {"end", "fail"}
        BY <1>0, <1>1, <1>6, <2>2 DEF BatchReturned, Go, WorkerType
      <3> QED BY <1>2, <3>1, WorkerMoves
    <2> QED BY <2>1, <2>2
  <1>7. CASE Cut(a)
    <2>1. /\ worker'[a].offset = worker[a].offset /\ worker'[a].pc = worker[a].pc
          /\ ingest' = ingest
      BY <1>1, <1>7 DEF Cut, WorkerType
    <2> QED BY <2>1, WorkerStays
  <1>8. CASE \/ GiveUp(a) \/ NothingToDo(a) \/ Claim(a) \/ Checkpoint(a) \/ Snooze(a)
             \/ Finish(a) \/ FailAttempt(a) \/ StepFails(a) \/ Unwind(a)
    <2>1. \/ worker' = [worker EXCEPT ![a] = IdleWorker]
          \/ \E pc \in {"end", "batch", "done", "snooze", "fail"} :
               worker' = [worker EXCEPT ![a].pc = pc]
      BY <1>8 DEF GiveUp, NothingToDo, Claim, Checkpoint, Snooze, Finish, FailAttempt,
                  StepFails, Unwind, EndJob, Go
    <2>2. \/ worker'[a].offset = 0 /\ worker'[a].pc = "idle"
          \/ /\ worker'[a].offset = n
             /\ worker'[a].pc \in {"end", "batch", "done", "snooze", "fail"}
      BY <1>0, <1>1, <2>1 DEF IdleWorker, WorkerType
    <2> QED BY <1>2, <2>2, WorkerMoves
  <1> QED BY <1>3, <1>4, <1>5, <1>6, <1>7, <1>8 DEF UploadStep

\* The log, when an attempt steps.
LEMMA LogKeeps ==
  ASSUME TableInv, TableInv', UploadTyped, [Next]_vars, LogInv, NEW a \in Attempts,
         WorkerInv(a), UploadStep(a)
  PROVE  LogInv'
  <1>1. upload \in [status : UploadStatuses, offset : Nat] /\ table' = table
    BY UploadFrame DEF UploadTyped
  <1>2. CASE Checkpoint(a) /\ MayCheckpoint(a)
    <2>1. PICK n : n = worker[a].offset
      OBVIOUS
    <2>2. /\ upload'.offset = n /\ upload'.status = upload.status
          /\ upload.status = "processing" /\ HeldUpTo(n)
      BY <1>1, <1>2, <2>1 DEF Checkpoint, MayCheckpoint, WorkerInv
    <2>3. HeldUpTo(n)'
      BY <1>1, <2>2, HeldSame
    <2> QED BY <2>2, <2>3 DEF LogInv, HeldUpTo, RowsHeld
  <1>3. CASE Finish(a)
    <2>1. upload'.offset = upload.offset /\ HeldUpTo(Len(File))
      BY <1>1, <1>3 DEF Finish, SetStatus, WorkerInv
    <2> QED BY <2>1, LogStays
  <1>4. CASE ~Finish(a) /\ ~(Checkpoint(a) /\ MayCheckpoint(a))
    <2>1. \/ UNCHANGED upload
          \/ \E from \in {"pending", "processing"}, to \in {"processing", "failure"} :
               SetStatus(from, to)
      BY <1>4 DEF UploadStep, StartAttempt, GiveUp, NothingToDo, Claim, IngestBatch,
                  EndOfFile, BatchReturned, Checkpoint, Snooze, FailAttempt, Failed,
                  StepFails, Cut, Unwind
    <2>2. /\ upload'.offset = upload.offset
          /\ upload'.status = "success" => upload.status = "success"
      BY <1>1, <2>1 DEF SetStatus
    <2> QED BY <2>2, LogStays
  <1> QED BY <1>2, <1>3, <1>4

\* The steps of decisions leave the calls of uploads alone.
LEMMA OthersBesideUpload ==
  ASSUME TableInv, [Next]_vars, NEW a \in Attempts,
         AskDecision \/ DecisionStep \/ Submit \/ UNCHANGED vars
  PROVE  ingest'[a] = ingest[a]
  <1>1. CASE IngestTrigger
    <2>1. a \in Ingesters /\ Decider \in Ingesters /\ a /= Decider
      BY UploadAssumption, DecisionAssumption, SeparateCalls
    <2> QED BY <1>1, <2>1, OtherCall DEF IngestTrigger
  <1>2. CASE ~IngestTrigger
    <2>1. ingest' = ingest
      BY <1>2 DEF AskDecision, CreateExecution, Submit, vars, ingestionVars, DecisionStep,
                  StartDecision, TriggerIngested, CheckpointTrigger, Decide, CannotDecide,
                  RetryLater, RecordFailure, EndDecision, AttemptLost
    <2> QED BY <2>1
  <1> QED BY <1>1, <1>2

LEMMA UploadInvStep ==
  ASSUME TableInv, UploadTyped, UploadInv, [Next]_vars
  PROVE  UploadInv'
  <1>0. TableInv' /\ LogInv /\ \A a \in Attempts : WorkerInv(a) /\ a \in Ingesters
    BY NextTable, UploadAssumption DEF UploadInv
  <1>1. ASSUME NEW i \in Ingesters, IngestionStep(i), UNCHANGED <<upload, worker>>
        PROVE  UploadInv'
    <2>1. ASSUME NEW a \in Attempts PROVE WorkerInv(a)'
      <3>1. ingest'[a] = ingest[a] \/ IngestionStep(a)
        BY <1>0, <1>1, OtherCall
      <3> QED BY <1>0, <1>1, <3>1, WorkerStays
    <2> QED BY <1>0, <1>1, <2>1, LogStays DEF UploadInv
  <1>2. ASSUME NEW a \in Attempts, UploadStep(a)
        PROVE  UploadInv'
    <2>1. ASSUME NEW b \in Attempts PROVE WorkerInv(b)'
      <3>1. CASE b = a
        BY <1>0, <1>2, <3>1, AttemptKeeps
      <3>2. CASE b /= a
        BY <1>0, <1>2, <3>2, UploadFrame, WorkerStays
      <3> QED BY <3>1, <3>2
    <2> QED BY <1>0, <1>2, <2>1, LogKeeps DEF UploadInv
  <1>3. ASSUME AskDecision \/ DecisionStep \/ Submit \/ UNCHANGED vars,
               UNCHANGED worker, upload'.offset = upload.offset,
               upload'.status /= "success" \/ upload' = upload
        PROVE  UploadInv'
    <2>1. ASSUME NEW a \in Attempts PROVE WorkerInv(a)'
      BY <1>0, <1>3, OthersBesideUpload, WorkerStays
    <2> QED BY <1>0, <1>3, <2>1, LogStays DEF UploadInv
  <1>4. CASE Submit
    BY <1>3, <1>4 DEF Submit, UploadTyped
  <1> QED BY <1>1, <1>2, <1>3, <1>4, StepCases DEF uploadVars, vars

LEMMA UploadImplies ==
  ASSUME TableInv, UploadTyped, UploadInv
  PROVE  UploadComplete
  <1> DEFINE n == IF upload.status = "success" THEN Len(File) ELSE upload.offset
  <1>1. HeldUpTo(n)
    BY DEF UploadInv, LogInv
  <1>2. n \in Nat /\ n <= Len(File)
    BY <1>1, FileTyped DEF UploadTyped, HeldUpTo
  <1> HIDE DEF n
  <1>3. ASSUME NEW k \in 1 .. n, NEW o \in DOMAIN File[k] PROVE Holds(o, File[k][o])
    <2>1. RowsHeld(File[k]) /\ File[k] \in SomeRows
      BY <1>1, <1>2, FileTyped DEF HeldUpTo
    <2>2. o \in Objects
      BY <2>1, RowsTyped
    <2>3. ValidVersion(o) = Len(table[o])
      BY <2>2, ValidIsLast DEF TableInv, CallsInv, Chained
    <2> QED BY <2>1, <2>3 DEF RowsHeld, Holds
  <1> QED BY <1>3 DEF UploadComplete, n

-----------------------------------------------------------------------------
(* Executions settle.                                                      *)

Working == {"ingest", "ingesting", "checkpoint", "decide", "failing"}

\* An execution that is not decided has attempts left, or faults took the last ones:
\* an attempt that is reserved only ends without a record if it is lost.
SettleInv ==
  /\ decisionJob.state \in {"decided", "completed"} => execution.status \in Decided
  /\ execution.status \notin Decided =>
       /\ decisionJob.state = "none" => decisionJob.attempts = 0
       /\ decisionJob.state = "available" =>
            /\ decisionJob.attempts < MaxDecisionAttempts
            /\ decisionJob.attempts = MaxDecisionAttempts - 1 => faults >= 1
       /\ decisionJob.state \in Working =>
            /\ decisionJob.attempts <= MaxDecisionAttempts
            /\ decisionJob.attempts = MaxDecisionAttempts => faults >= 1
       /\ decisionJob.state = "discarded" => faults >= 2

LEMMA FaultsCount ==
  ASSUME faults \in Nat, [Next]_vars
  PROVE  faults' \in Nat /\ faults' >= faults
  <1>1. faults' = faults \/ Fault
    BY DEF Next, vars, ingestionVars, IngestionStep, LoadVersions, StoreVersions, RejectRows,
           RetryOnConflict, TransactionFails, ReadMonitored, EnqueueScreenings,
           Submit, AskDecision, CreateExecution, Call,
           UploadStep, StartAttempt, GiveUp, NothingToDo, Claim, IngestBatch, EndOfFile,
           BatchReturned, Checkpoint, Snooze, Finish, FailAttempt, StepFails, Cut, Unwind,
           DecisionStep, StartDecision, IngestTrigger, TriggerIngested,
           CheckpointTrigger, Decide, CannotDecide, RetryLater, RecordFailure,
           EndDecision, AttemptLost
  <1> QED BY <1>1 DEF Fault

LEMMA SettleStep ==
  ASSUME MaxDecisionAttempts >= 2, faults \in Nat, TableInv, DecisionInv, SettleInv,
         [Next]_vars
  PROVE  SettleInv'
  <1>0. /\ MaxDecisionAttempts \in Nat /\ faults' \in Nat /\ faults' >= faults
        /\ execution \in [status : Statuses, ingest : BOOLEAN, rows : SomeRows]
        /\ decisionJob \in [state : JobStates, attempts : Nat, retryable : BOOLEAN]
        /\ decisionJob.attempts \in Nat
        /\ execution.status = "none" => decisionJob.state = "none"
    BY DecisionAssumption, FaultsCount
       DEF TableInv, CallsInv, Typed, ExecutionTyped, DecisionInv, RowOfJob
  <1>1. CASE UNCHANGED <<execution, decisionJob>>
    BY <1>0, <1>1 DEF SettleInv
  <1>2. CASE AskDecision
    <2>1. /\ decisionJob.state = "none" /\ decisionJob'.state = "available"
          /\ decisionJob'.attempts = decisionJob.attempts
          /\ execution.status = "none"
      BY <1>0, <1>2 DEF AskDecision, CreateExecution
    <2>2. decisionJob'.attempts = 0
      BY <2>1 DEF SettleInv, Decided
    <2> QED BY <1>0, <2>1, <2>2 DEF SettleInv, Working
  <1>3. CASE StartDecision
    <2> DEFINE s == CASE execution.status \in Decided -> "completed"
                      [] execution.status = "pending" /\ execution.ingest -> "ingest"
                      [] OTHER -> "decide"
    <2>1. /\ UNCHANGED execution /\ decisionJob.state = "available"
          /\ decisionJob' = [decisionJob EXCEPT !.attempts = @ + 1, !.state = s]
      BY <1>3 DEF StartDecision
    <2>2. /\ execution.status \in Decided => s = "completed"
          /\ execution.status \notin Decided => s \in {"ingest", "decide"}
      BY DEF Decided
    <2> HIDE DEF s
    <2>3. decisionJob'.state = s /\ decisionJob'.attempts = decisionJob.attempts + 1
      BY <1>0, <2>1
    <2>4. execution.status \notin Decided =>
            /\ decisionJob'.attempts <= MaxDecisionAttempts
            /\ decisionJob'.attempts = MaxDecisionAttempts => faults' >= 1
      BY <1>0, <2>1, <2>3 DEF SettleInv
    <2> QED BY <2>1, <2>2, <2>3, <2>4 DEF SettleInv, Working
  <1>4. CASE \/ IngestTrigger \/ TriggerIngested \/ CheckpointTrigger \/ Decide
             \/ \E retryable \in BOOLEAN : CannotDecide(retryable)
    <2>1. /\ decisionJob.state \in Working /\ decisionJob'.attempts = decisionJob.attempts
          /\ execution.status \in Decided => execution'.status \in Decided
          /\ \/ decisionJob'.state \in Working
             \/ decisionJob'.state = "decided" /\ execution'.status \in Decided
      <3>1. CASE CheckpointTrigger
        BY <1>0, <3>1 DEF CheckpointTrigger, JobAt, Working, DecisionInv, RowOfJob, Decided
      <3>2. CASE ~CheckpointTrigger
        BY <1>0, <1>4, <3>2 DEF IngestTrigger, TriggerIngested, Decide,
           CannotDecide, JobAt, Working, Decided
      <3> QED BY <3>1, <3>2
    <2> QED BY <1>0, <2>1 DEF SettleInv, Working
  <1>5. CASE RetryLater
    <2>1. /\ UNCHANGED execution /\ decisionJob'.attempts = decisionJob.attempts
          /\ decisionJob'.state = "available"
          /\ decisionJob.attempts < MaxDecisionAttempts - 2
      BY <1>0, <1>5 DEF RetryLater, Reserved, Again, JobAt
    <2> QED BY <1>0, <2>1 DEF SettleInv, Working
  <1>6. CASE RecordFailure \/ EndDecision
    <2>1. execution'.status \in Decided
      BY <1>0, <1>6 DEF RecordFailure, EndDecision, SettleInv, Decided
    <2> QED BY <2>1 DEF SettleInv
  <1>7. CASE AttemptLost
    <2>1. /\ UNCHANGED execution /\ decisionJob'.attempts = decisionJob.attempts
          /\ decisionJob'.state = Again /\ faults' = faults + 1
          /\ decisionJob.state \in Working \cup {"decided"}
      BY <1>0, <1>7 DEF AttemptLost, JobAt, Fault, Working
    <2>2. CASE execution.status \in Decided
      <3>1. decisionJob'.state \in {"available", "discarded"}
        BY <2>1 DEF Again
      <3> QED BY <2>1, <2>2, <3>1 DEF SettleInv
    <2>3. CASE execution.status \notin Decided
      <3>1. /\ decisionJob.attempts <= MaxDecisionAttempts
            /\ decisionJob.attempts = MaxDecisionAttempts => faults >= 1
        BY <2>1, <2>3 DEF SettleInv
      <3>2. CASE decisionJob.attempts < MaxDecisionAttempts
        <4>1. decisionJob'.state = "available" /\ faults' >= 1
          BY <1>0, <2>1, <3>2 DEF Again
        <4> QED BY <2>1, <3>2, <4>1 DEF SettleInv, Working
      <3>3. CASE decisionJob.attempts = MaxDecisionAttempts
        <4>1. decisionJob'.state = "discarded" /\ faults' >= 2
          BY <1>0, <2>1, <3>1, <3>3 DEF Again
        <4> QED BY <2>1, <4>1 DEF SettleInv, Working
      <3> QED BY <1>0, <3>1, <3>2, <3>3
    <2> QED BY <2>2, <2>3
  <1> QED BY <1>1, <1>2, <1>3, <1>4, <1>5, <1>6, <1>7, StepCases
          DEF DecisionStep, decisionVars, Submit

-----------------------------------------------------------------------------
(* Monitored objects: types, times and the versions that jobs know of.     *)

TaskType ==
  [kind : {"update", "register", "ensure"}, object : Objects, previous : Nat, new : Nat,
   monitoring : Nat, screen : BOOLEAN]

TaskState ==
  [state : {"queued", "started", "registered", "tracked", "checked", "opened", "done",
            "discarded"},
   attempts : Nat, at : Nat, skip : BOOLEAN]

ScreeningType ==
  [version : Nat, data : Data, trigger : {"added", "updated"}, at : Nat, inCase : BOOLEAN]

UserType ==
  [pc : {"idle", "insert", "screen", "untrack"}, object : Objects \cup {"none"},
   version : Nat, screen : BOOLEAN]

TasksTyped == tasks \in [DOMAIN tasks -> TaskState] /\ DOMAIN tasks \subseteq TaskType

\* A state belongs to one kind of job.
KindOfState == \A t \in DOMAIN tasks :
  /\ tasks[t].state \in {"registered", "tracked"} => t.kind = "register"
  /\ tasks[t].state \in {"checked", "opened"} => t.kind = "update"

ScreeningsTyped == screenings \in [Objects -> Seq(ScreeningType)] /\ user \in UserType

Stored(o) == 1 .. Len(table[o])

Settled(i) == ingest[i].pc \in {"watch", "enqueue"}

\* Jobs, calls and requests know of versions that are in the table.
VersionsKnown ==
  /\ \A t \in DOMAIN tasks :
       /\ t.new \in Stored(t.object)
       /\ t.kind = "update" => t.previous \in Stored(t.object) /\ t.monitoring /= 0
  /\ \A i \in Ingesters : Settled(i) => \A o \in DOMAIN ingest[i].rows :
       ingest[i].stored[o] \in Stored(o) /\ ingest[i].seen[o] \in {0} \cup Stored(o)
  /\ user.pc /= "idle" => user.object \in Objects
  /\ user.pc \in {"insert", "screen"} => user.version \in Stored(user.object)

\* No time is ahead of the clock.
TimesPast ==
  /\ \A o \in Objects : monitored[o] <= clock
                        /\ \A k \in Stored(o) : table[o][k].from <= clock
  /\ \A i \in Ingesters :
       ingest[i].from <= clock /\ \A o \in Objects : ingest[i].watched[o] <= clock
  /\ \A t \in DOMAIN tasks : t.monitoring <= clock /\ tasks[t].at <= clock

MonitoredInv ==
  CallsInv /\ TasksTyped /\ KindOfState /\ ScreeningsTyped /\ VersionsKnown /\ TimesPast

\* A version that is stored keeps its data and its time.
VersionsStay == \A o \in Objects : \A k \in Stored(o) :
  k \in Stored(o)' /\ table'[o][k].from = table[o][k].from
                   /\ table'[o][k].data = table[o][k].data

\* A transaction stores one more version of some objects.
LEMMA StoreStays ==
  ASSUME CallsInv, NEW i \in Ingesters, StoreVersions(i)
  PROVE  /\ VersionsStay
         /\ \A o \in Kept(i) : /\ o \in Objects /\ Len(table[o]) \in Nat
                               /\ Len(table'[o]) = Len(table[o]) + 1
                               /\ table'[o][Len(table[o]) + 1].from = ingest[i].from
         /\ \A o \in Objects \ Kept(i) : table'[o] = table[o]
  <1>1. /\ ingest[i].pc = "store" /\ ~Incomplete(i) /\ ~UniqueViolation(i)
        /\ table' = [o \in Objects |->
             IF o \in Kept(i) THEN Append(Replaced(i, o), Merged(i, o)) ELSE table[o]]
    BY DEF StoreVersions
  <1>2. \A o \in Objects \ Kept(i) : table'[o] = table[o]
    BY <1>1
  <1>3. ASSUME NEW o \in Kept(i)
        PROVE  /\ o \in Objects /\ Len(table[o]) \in Nat
               /\ Len(table'[o]) = Len(table[o]) + 1
               /\ table'[o][Len(table[o]) + 1].from = ingest[i].from
               /\ \A k \in Stored(o) : /\ k \in Stored(o)'
                                       /\ table'[o][k].from = table[o][k].from
                                       /\ table'[o][k].data = table[o][k].data
    <2> DEFINE n == Len(table[o])
    <2>1. /\ o \in Objects /\ table'[o] = Append(Replaced(i, o), Merged(i, o))
          /\ Len(table'[o]) = n + 1
      BY <1>1, StoredChain
    <2>2. table[o] \in Seq(Version) /\ n \in Nat /\ DOMAIN table[o] = 1 .. n
      BY <2>1 DEF CallsInv, Chained, Chain
    <2>3. \A k \in 1 .. n : /\ Replaced(i, o)[k] \in Version
                            /\ Replaced(i, o)[k].from = table[o][k].from
                            /\ Replaced(i, o)[k].data = table[o][k].data
      <3> SUFFICES ASSUME NEW k \in 1 .. n
                   PROVE  /\ Replaced(i, o)[k] \in Version
                          /\ Replaced(i, o)[k].from = table[o][k].from
                          /\ Replaced(i, o)[k].data = table[o][k].data
        OBVIOUS
      <3>1. table[o][k] \in Version
        BY <2>2
      <3>2. Replaced(i, o)[k] \in {table[o][k], [table[o][k] EXCEPT !.valid = FALSE]}
        BY <2>2 DEF Replaced
      <3> QED BY <3>1, <3>2 DEF Version
    <2>4. Replaced(i, o) \in Seq(Version) /\ Len(Replaced(i, o)) = n
      <3>1. Replaced(i, o) = [k \in 1 .. n |-> Replaced(i, o)[k]]
        BY <2>2 DEF Replaced
      <3> HIDE DEF n
      <3> QED BY <2>2, <2>3, <3>1
    <2>5. Merged(i, o).from = ingest[i].from
      BY DEF Merged
    <2> HIDE DEF n
    <2>6. /\ \A k \in 1 .. n : table'[o][k] = Replaced(i, o)[k]
          /\ table'[o][n + 1] = Merged(i, o)
      BY <2>1, <2>2, <2>4
    <2>7. \A k \in 1 .. n : k \in 1 .. Len(table'[o])
      BY <2>1, <2>2
    <2> QED BY <2>1, <2>2, <2>3, <2>5, <2>6, <2>7 DEF Stored, n
  <1>4. VersionsStay
    <2>1. ASSUME NEW o \in Objects, NEW k \in Stored(o)
          PROVE  k \in Stored(o)' /\ table'[o][k].from = table[o][k].from
                                  /\ table'[o][k].data = table[o][k].data
      BY <1>2, <1>3 DEF Stored
    <2> QED BY <2>1 DEF VersionsStay
  <1> QED BY <1>2, <1>3, <1>4

\* The steps of the system, by component.
LEMMA ScreeningCases ==
  ASSUME [ScreeningNext]_screeningVars
  PROVE  \/ \E i \in Ingesters :
              /\ \/ \E rows \in Payloads, m, s \in BOOLEAN : Call(i, rows, m, s)
                 \/ IngestionStep(i)
              /\ UNCHANGED <<datasetVars, monitoringVars>>
         \/ RequestStep
         \/ \E t \in DOMAIN tasks : TaskStep(t)
         \/ BuildStep /\ UNCHANGED monitoringVars
         \/ UNCHANGED <<ingestionVars, datasetVars, monitoringVars>>
  BY DEF ScreeningNext, IngestionNext, screeningVars

\* Requests, jobs and builds leave the table and the calls alone.
OutsideCalls ==
  RequestStep \/ (\E t \in DOMAIN tasks : TaskStep(t)) \/ BuildStep

LEMMA CallsKept ==
  ASSUME CallsInv, OutsideCalls
  PROVE  /\ UNCHANGED <<table, ingest>> /\ clock' \in {clock, clock + 1}
         /\ monitored' \in [Objects -> Nat]
         /\ \A o \in Objects : \/ monitored'[o] \in {monitored[o], 0}
                               \/ clock' = clock + 1 /\ monitored'[o] = clock + 1
         /\ CallsInv'
  <1>0. clock \in Nat /\ monitored \in [Objects -> Nat]
    BY DEF CallsInv, Typed
  <1>1. CASE RequestStep
    <2>1. UNCHANGED <<table, ingest>> /\ clock' \in {clock, clock + 1}
      BY <1>1 DEF RequestStep, AskToMonitor, StopMonitoring, InsertMonitored, AlreadyMonitored,
                  ScreenOnRequest, RequestFails, TrackDeletion, ingestionVars, Now
    <2>2. \/ UNCHANGED monitored
          \/ InsertMonitored /\ clock' = Now /\
             monitored' = [monitored EXCEPT ![user.object] = Now]
          \/ \E o \in Objects : monitored' = [monitored EXCEPT ![o] = 0]
      BY <1>1 DEF RequestStep, AskToMonitor, StopMonitoring, InsertMonitored, AlreadyMonitored,
                  ScreenOnRequest, RequestFails, TrackDeletion, ingestionVars
    <2>3. /\ monitored' \in [Objects -> Nat]
          /\ \A o \in Objects : \/ monitored'[o] \in {monitored[o], 0}
                                \/ clock' = clock + 1 /\ monitored'[o] = clock + 1
      BY <1>0, <2>2 DEF Now
    <2> QED BY <1>0, <2>1, <2>3 DEF CallsInv, Typed, Chained, SeenStored
  <1>2. CASE \E t \in DOMAIN tasks : TaskStep(t)
    <2>0. PICK t \in DOMAIN tasks : TaskStep(t)
      BY <1>2
    <2>1. UNCHANGED <<table, ingest>> /\ clock' \in {clock, clock + 1}
      BY <2>0 DEF TaskStep, StartJob, JobFails, JobRerun, Register, TrackAddition,
                  ScreenRegistered, EnsureTrack, CheckUpdate, OpenTransaction, StoreUpdate, Now
    <2>2. \/ UNCHANGED monitored
          \/ clock' = Now /\ monitored' = [monitored EXCEPT ![t.object] = Now]
      BY <2>0 DEF TaskStep, StartJob, JobFails, JobRerun, Register, TrackAddition,
                  ScreenRegistered, EnsureTrack, CheckUpdate, OpenTransaction, StoreUpdate
    <2>3. /\ monitored' \in [Objects -> Nat]
          /\ \A o \in Objects : \/ monitored'[o] \in {monitored[o], 0}
                                \/ clock' = clock + 1 /\ monitored'[o] = clock + 1
      BY <1>0, <2>2 DEF Now
    <2> QED BY <1>0, <2>1, <2>3 DEF CallsInv, Typed, Chained, SeenStored
  <1>3. CASE BuildStep
    <2>1. UNCHANGED <<table, ingest, monitored>> /\ clock' \in {clock, clock + 1}
      BY <1>3 DEF BuildStep, StartBuild, NoPreviousFile, ListTracks, CommitBuild, CloseFile,
                  BuildFails, ingestionVars, Now
    <2> QED BY <1>0, <2>1 DEF CallsInv, Typed, Chained, SeenStored
  <1> QED BY <1>1, <1>2, <1>3 DEF OutsideCalls

\* A job moves to another state of its kind; its time is not ahead of the clock.
Becomes(t, j) ==
  /\ tasks' = [tasks EXCEPT ![t] = j] /\ j \in TaskState
  /\ j.state \in {"registered", "tracked"} => t.kind = "register"
  /\ j.state \in {"checked", "opened"} => t.kind = "update"
  /\ j.at \in {tasks[t].at, 0, clock'}

LEMMA TaskMoves ==
  ASSUME TasksTyped, KindOfState, clock \in Nat, NEW t \in DOMAIN tasks, TaskStep(t)
  PROVE  Becomes(t, tasks'[t])
  <1>old. PICK old : old = tasks[t]
    OBVIOUS
  <1>0. /\ old \in TaskState /\ tasks = [u \in DOMAIN tasks |-> tasks[u]]
        /\ old.attempts \in Nat /\ Now \in Nat /\ SameHits(t) \in BOOLEAN
    BY <1>old DEF TasksTyped, TaskState, Now, SameHits
  <1>1. \E j : Becomes(t, j)
    <2>1. CASE StartJob(t)
      <3>0. PICK n \in Nat : n = old.attempts + 1
        BY <1>0
      <3> DEFINE j == [old EXCEPT !.state = "started", !.attempts = n]
      <3>1. tasks' = [tasks EXCEPT ![t] = j]
        BY <1>old, <1>0, <2>1, <3>0 DEF StartJob
      <3>2. j \in TaskState /\ j.state = "started" /\ j.at = old.at
        BY <1>0 DEF TaskState
      <3> QED BY <1>old, <3>1, <3>2 DEF Becomes
    <2>2. CASE JobFails(t) \/ JobRerun(t)
      <3> DEFINE s == IF old.attempts < MaxAttempts THEN "queued" ELSE "discarded"
                 j == [old EXCEPT !.at = 0, !.state = s]
      <3>1. tasks' = [tasks EXCEPT ![t] = j]
        BY <1>old, <1>0, <2>2 DEF JobFails, JobRerun, RequeueOrDiscard
      <3>2. s \in {"queued", "discarded"}
        OBVIOUS
      <3> HIDE DEF s
      <3>3. j \in TaskState /\ j.state = s /\ j.at = 0
        BY <1>0, <3>2 DEF TaskState
      <3> HIDE DEF j
      <3> QED BY <1>old, <3>1, <3>2, <3>3 DEF Becomes
    <2>3. ASSUME NEW s \in {"registered", "tracked", "done", "checked"}, JobStep(t, s),
                 s \in {"registered", "tracked"} => t.kind = "register",
                 s = "checked" => t.kind = "update"
          PROVE  \E j : Becomes(t, j)
      <3> DEFINE j == [old EXCEPT !.state = s]
      <3>1. tasks' = [tasks EXCEPT ![t] = j]
        BY <1>old, <1>0, <2>3 DEF JobStep
      <3>2. j \in TaskState /\ j.state = s /\ j.at = old.at
        BY <1>0 DEF TaskState
      <3> HIDE DEF j
      <3> QED BY <1>old, <2>3, <3>1, <3>2 DEF Becomes
    <2>4. CASE Register(t) \/ TrackAddition(t) \/ ScreenRegistered(t)
      BY <2>3, <2>4 DEF Register, TrackAddition, ScreenRegistered, KindOfState
    <2>5. CASE EnsureTrack(t) \/ CheckUpdate(t) \/ StoreUpdate(t)
      BY <2>3, <2>5 DEF EnsureTrack, CheckUpdate, StoreUpdate
    <2>6. CASE OpenTransaction(t)
      <3> DEFINE j == [old EXCEPT !.state = "opened", !.at = Now, !.skip = SameHits(t)]
      <3>1. tasks' = [tasks EXCEPT ![t] = j] /\ clock' = Now /\ t.kind = "update"
        BY <1>old, <1>0, <2>6 DEF OpenTransaction, KindOfState
      <3>2. j \in TaskState /\ j.state = "opened" /\ j.at = Now
        BY <1>0 DEF TaskState
      <3> HIDE DEF j
      <3> QED BY <1>old, <3>1, <3>2 DEF Becomes
    <2> QED BY <2>1, <2>2, <2>4, <2>5, <2>6 DEF TaskStep
  <1>2. PICK j : Becomes(t, j)
    BY <1>1
  <1>3. tasks'[t] = j
    BY <1>2 DEF Becomes
  <1> QED BY <1>2, <1>3

\* New jobs are queued beside the others.
LEMMA EnqueuedTasks ==
  ASSUME TasksTyped, NEW new \in SUBSET TaskType, tasks' = Enqueued(new)
  PROVE  /\ TasksTyped' /\ DOMAIN tasks' = DOMAIN tasks \cup new
         /\ \A t \in DOMAIN tasks : tasks'[t] = tasks[t]
         /\ \A t \in new \ DOMAIN tasks : tasks'[t] = QueuedTask
  <1>1. QueuedTask \in TaskState
    BY DEF QueuedTask, TaskState
  <1> QED BY <1>1 DEF TasksTyped, Enqueued

LEMMA NewTasksTyped ==
  ASSUME CallsInv, VersionsKnown, TimesPast, NEW i \in Ingesters, ingest[i].pc = "enqueue"
  PROVE  /\ NewTasks(i) \subseteq TaskType
         /\ \A t \in NewTasks(i) :
              /\ t.object \in DOMAIN ingest[i].rows /\ t.new = ingest[i].stored[t.object]
              /\ t.kind \in {"update", "register"}
              /\ t.new \in Stored(t.object) /\ t.monitoring <= clock
              /\ t.kind = "update" => /\ t.previous \in Stored(t.object) /\ t.monitoring /= 0
                                      /\ t = UpdateTask(t.object, ingest[i].seen[t.object],
                                                ingest[i].stored[t.object],
                                                ingest[i].watched[t.object])
  <1>1. /\ ingest[i] \in CallType /\ ingest[i].rows \in SomeRows /\ clock \in Nat
        /\ ingest[i].stored \in [Objects -> Nat] /\ ingest[i].seen \in [Objects -> Nat]
        /\ ingest[i].watched \in [Objects -> Nat] /\ ingest[i].screen \in BOOLEAN
    BY DEF CallsInv, Typed, CallType
  <1>2. ASSUME NEW o \in DOMAIN ingest[i].rows
        PROVE  /\ o \in Objects /\ ingest[i].stored[o] \in Stored(o)
               /\ ingest[i].seen[o] \in {0} \cup Stored(o)
               /\ ingest[i].stored[o] \in Nat /\ ingest[i].seen[o] \in Nat
               /\ ingest[i].watched[o] \in Nat /\ ingest[i].watched[o] <= clock
    BY <1>1, RowsTyped DEF VersionsKnown, Settled, TimesPast
  <1>3. ASSUME NEW t \in NewTasks(i)
        PROVE  \E o \in DOMAIN ingest[i].rows :
                 \/ /\ ingest[i].watched[o] /= 0 /\ ingest[i].seen[o] /= 0
                    /\ t = UpdateTask(o, ingest[i].seen[o], ingest[i].stored[o],
                                      ingest[i].watched[o])
                 \/ t = RegisterTask(o, ingest[i].stored[o], ingest[i].screen)
    BY DEF NewTasks
  <1>4. ASSUME NEW t \in NewTasks(i)
        PROVE  /\ t \in TaskType
               /\ t.object \in DOMAIN ingest[i].rows /\ t.new = ingest[i].stored[t.object]
               /\ t.kind \in {"update", "register"}
               /\ t.new \in Stored(t.object) /\ t.monitoring <= clock
               /\ t.kind = "update" => /\ t.previous \in Stored(t.object) /\ t.monitoring /= 0
                                       /\ t = UpdateTask(t.object, ingest[i].seen[t.object],
                                                 ingest[i].stored[t.object],
                                                 ingest[i].watched[t.object])
    <2>1. PICK o \in DOMAIN ingest[i].rows :
                 \/ /\ ingest[i].watched[o] /= 0 /\ ingest[i].seen[o] /= 0
                    /\ t = UpdateTask(o, ingest[i].seen[o], ingest[i].stored[o],
                                      ingest[i].watched[o])
                 \/ t = RegisterTask(o, ingest[i].stored[o], ingest[i].screen)
      BY <1>3
    <2>2. CASE t = RegisterTask(o, ingest[i].stored[o], ingest[i].screen)
      BY <1>1, <1>2, <2>2 DEF RegisterTask, TaskType
    <2>3. CASE /\ ingest[i].watched[o] /= 0 /\ ingest[i].seen[o] /= 0
               /\ t = UpdateTask(o, ingest[i].seen[o], ingest[i].stored[o],
                                 ingest[i].watched[o])
      <3>1. t = [kind |-> "update", object |-> o, previous |-> ingest[i].seen[o],
                 new |-> ingest[i].stored[o], monitoring |-> ingest[i].watched[o],
                 screen |-> TRUE]
        BY <2>3 DEF UpdateTask
      <3>2. ingest[i].seen[o] \in Stored(o)
        BY <1>2, <2>3
      <3>3. t \in TaskType
        BY <1>2, <3>1 DEF TaskType
      <3>4. /\ t.kind = "update" /\ t.object = o /\ t.previous = ingest[i].seen[o]
            /\ t.new = ingest[i].stored[o] /\ t.monitoring = ingest[i].watched[o]
        BY <3>1
      <3> QED BY <1>2, <2>3, <3>2, <3>3, <3>4
    <2> QED BY <2>1, <2>2, <2>3
  <1> QED BY <1>4

\* How a step changes the jobs.
LEMMA TasksCases ==
  ASSUME [ScreeningNext]_screeningVars
  PROVE  \/ UNCHANGED tasks
         \/ \E i \in Ingesters : EnqueueScreenings(i) /\ tasks' = Enqueued(NewTasks(i))
                                 /\ UNCHANGED <<datasetVars, monitoringVars>>
         \/ InsertMonitored /\ clock' = Now
            /\ tasks' = Enqueued({EnsureTask(user.object, user.version, Now)})
         \/ \E t \in DOMAIN tasks : TaskStep(t)
  <1>1. CASE \E i \in Ingesters :
              /\ \/ \E rows \in Payloads, m, s \in BOOLEAN : Call(i, rows, m, s)
                 \/ IngestionStep(i)
              /\ UNCHANGED <<datasetVars, monitoringVars>>
    BY <1>1 DEF Call, IngestionStep, LoadVersions, StoreVersions, RejectRows, RetryOnConflict,
                TransactionFails, ReadMonitored, EnqueueScreenings
  <1>2. CASE RequestStep
    BY <1>2 DEF RequestStep, AskToMonitor, StopMonitoring, InsertMonitored, AlreadyMonitored,
                ScreenOnRequest, RequestFails, TrackDeletion, ingestionVars
  <1>3. CASE BuildStep
    BY <1>3 DEF BuildStep, StartBuild, NoPreviousFile, ListTracks, CommitBuild, CloseFile,
                BuildFails, ingestionVars
  <1>4. CASE UNCHANGED <<ingestionVars, datasetVars, monitoringVars>>
    BY <1>4 DEF ingestionVars
  <1> QED BY <1>1, <1>2, <1>3, <1>4, ScreeningCases

LEMMA TasksKept ==
  ASSUME MonitoredInv, [ScreeningNext]_screeningVars
  PROVE  TasksTyped' /\ KindOfState' /\ DOMAIN tasks \subseteq DOMAIN tasks'
  <1>1. CASE UNCHANGED tasks
    BY <1>1 DEF MonitoredInv, TasksTyped, KindOfState
  <1>2. ASSUME NEW new \in SUBSET TaskType, tasks' = Enqueued(new)
        PROVE  TasksTyped' /\ KindOfState' /\ DOMAIN tasks \subseteq DOMAIN tasks'
    <2>1. /\ TasksTyped' /\ DOMAIN tasks' = DOMAIN tasks \cup new
          /\ \A t \in DOMAIN tasks : tasks'[t] = tasks[t]
          /\ \A t \in new \ DOMAIN tasks : tasks'[t] = QueuedTask
      BY <1>2, EnqueuedTasks DEF MonitoredInv
    <2>2. QueuedTask.state = "queued"
      BY DEF QueuedTask
    <2> QED BY <2>1, <2>2 DEF MonitoredInv, KindOfState
  <1>3. ASSUME NEW i \in Ingesters, EnqueueScreenings(i), tasks' = Enqueued(NewTasks(i))
        PROVE  TasksTyped' /\ KindOfState' /\ DOMAIN tasks \subseteq DOMAIN tasks'
    <2>1. NewTasks(i) \in SUBSET TaskType
      BY <1>3, NewTasksTyped DEF MonitoredInv, EnqueueScreenings
    <2> QED BY <1>2, <1>3, <2>1
  <1>4. ASSUME InsertMonitored, tasks' = Enqueued({EnsureTask(user.object, user.version, Now)})
        PROVE  TasksTyped' /\ KindOfState' /\ DOMAIN tasks \subseteq DOMAIN tasks'
    <2>1. user.object \in Objects /\ user.version \in Nat /\ Now \in Nat
      BY <1>4 DEF InsertMonitored, MonitoredInv, VersionsKnown, ScreeningsTyped, UserType,
                  CallsInv, Typed, Now
    <2>2. {EnsureTask(user.object, user.version, Now)} \in SUBSET TaskType
      BY <2>1 DEF EnsureTask, TaskType
    <2> QED BY <1>2, <1>4, <2>2
  <1>5. ASSUME NEW t \in DOMAIN tasks, TaskStep(t)
        PROVE  TasksTyped' /\ KindOfState' /\ DOMAIN tasks \subseteq DOMAIN tasks'
    <2>1. PICK j : Becomes(t, j)
      BY <1>5, TaskMoves DEF MonitoredInv, CallsInv, Typed
    <2> QED BY <2>1 DEF Becomes, MonitoredInv, TasksTyped, KindOfState
  <1> QED BY <1>1, <1>3, <1>4, <1>5, TasksCases

\* What the steps of calls do.
LEMMA CallsInvKept ==
  ASSUME CallsInv, [ScreeningNext]_screeningVars
  PROVE  CallsInv'
  <1>1. Payloads \subseteq SomeRows
    BY DEF Payloads, SomeRows
  <1>2. ASSUME NEW i \in Ingesters, NEW rows \in Payloads, NEW m \in BOOLEAN,
               NEW s \in BOOLEAN, Call(i, rows, m, s)
        PROVE  CallsInv'
    BY <1>1, <1>2, CallKeeps
  <1>3. CASE UNCHANGED <<ingestionVars, datasetVars, monitoringVars>>
    BY <1>3 DEF CallsInv, Typed, Chained, SeenStored, ingestionVars
  <1> QED BY <1>2, <1>3, ScreeningCases, IngestionStepKeeps, CallsKept DEF OutsideCalls

LEMMA TableMoves ==
  ASSUME CallsInv, [ScreeningNext]_screeningVars
  PROVE  VersionsStay /\ clock' \in Nat /\ clock <= clock'
  <1>0. clock \in Nat
    BY DEF CallsInv, Typed
  <1>1. CASE UNCHANGED table /\ clock' \in {clock, clock + 1}
    BY <1>0, <1>1 DEF VersionsStay, Stored
  <1>2. CASE \E i \in Ingesters : StoreVersions(i)
    <2>1. PICK i \in Ingesters : StoreVersions(i)
      BY <1>2
    <2>2. VersionsStay
      BY <2>1, StoreStays
    <2>3. clock' = clock
      BY <2>1 DEF StoreVersions
    <2> QED BY <1>0, <2>2, <2>3
  <1>3. ASSUME NEW i \in Ingesters,
               \/ \E rows \in Payloads, m, s \in BOOLEAN : Call(i, rows, m, s)
               \/ IngestionStep(i), ~StoreVersions(i)
        PROVE  UNCHANGED <<table, clock>>
    BY <1>3 DEF Call, IngestionStep, LoadVersions, RejectRows, RetryOnConflict,
                TransactionFails, ReadMonitored, EnqueueScreenings
  <1>4. CASE UNCHANGED <<ingestionVars, datasetVars, monitoringVars>>
    BY <1>1, <1>4 DEF ingestionVars
  <1> QED BY <1>1, <1>2, <1>3, <1>4, ScreeningCases, CallsKept DEF OutsideCalls

\* How a step changes a call: it begins or ends, reads, stores, or reads what is
\* monitored.
CallMoves(i) ==
  \/ ingest'[i] = ingest[i]
  \/ /\ ingest'[i].pc \in {"load", "returned"}
     /\ ingest'[i].from \in {0, ingest[i].from}
     /\ ingest'[i].watched \in {[o \in Objects |-> 0], ingest[i].watched}
  \/ /\ ingest'[i].pc = "store" /\ ingest'[i].from = clock
     /\ ingest'[i].watched = ingest[i].watched
  \/ /\ StoreVersions(i) /\ ingest'[i].pc = "watch"
     /\ ingest'[i].from = ingest[i].from /\ ingest'[i].watched = ingest[i].watched
     /\ ingest'[i].rows = [o \in Kept(i) |-> ingest[i].rows[o]]
     /\ ingest'[i].stored = [o \in Objects |-> IF o \in Kept(i) THEN Len(table[o]) + 1 ELSE 0]
     /\ ingest'[i].seen = ingest[i].seen
  \/ /\ ingest[i].pc = "watch" /\ ingest'[i].pc = "enqueue" /\ UNCHANGED <<table, tasks>>
     /\ ingest'[i].from = ingest[i].from
     /\ ingest'[i].watched = [o \in Objects |->
          IF o \in DOMAIN ingest[i].rows THEN monitored[o] ELSE 0]
     /\ ingest'[i].rows = ingest[i].rows /\ ingest'[i].stored = ingest[i].stored
     /\ ingest'[i].seen = ingest[i].seen

LEMMA OneCallChanges ==
  ASSUME CallsInv, NEW j \in Ingesters,
         \/ \E rows \in Payloads, m, s \in BOOLEAN : Call(j, rows, m, s)
         \/ IngestionStep(j)
  PROVE  \E c : ingest' = [ingest EXCEPT ![j] = c]
  <1>0. ingest \in [Ingesters -> CallType]
    BY DEF CallsInv, Typed
  <1>1. CASE \E rows \in Payloads, m, s \in BOOLEAN : Call(j, rows, m, s)
    BY <1>1 DEF Call
  <1>2. CASE \E outcome \in {"ok", "error", "invalid", "conflict"} : Return(j, outcome)
    BY <1>2 DEF Return
  <1>3. CASE LoadVersions(j)
    BY <1>0, <1>3 DEF LoadVersions
  <1>4. CASE StoreVersions(j)
    BY <1>0, <1>2, <1>4 DEF StoreVersions
  <1>5. CASE RetryOnConflict(j)
    BY <1>0, <1>2, <1>5 DEF RetryOnConflict
  <1>6. CASE ReadMonitored(j)
    BY <1>0, <1>6 DEF ReadMonitored
  <1> QED BY <1>1, <1>2, <1>3, <1>4, <1>5, <1>6
          DEF IngestionStep, RejectRows, TransactionFails, EnqueueScreenings

LEMMA CallsCases ==
  ASSUME CallsInv, [ScreeningNext]_screeningVars, NEW i \in Ingesters
  PROVE  CallMoves(i)
  <1>0. ingest \in [Ingesters -> CallType] /\ ingest[i] \in CallType
    BY DEF CallsInv, Typed
  <1>1. CASE UNCHANGED ingest
    BY <1>1 DEF CallMoves
  <1>2. ASSUME NEW j \in Ingesters,
               \/ \E rows \in Payloads, m, s \in BOOLEAN : Call(j, rows, m, s)
               \/ IngestionStep(j)
        PROVE  CallMoves(i)
    <2>1. CASE j /= i
      <3>1. \E c : ingest' = [ingest EXCEPT ![j] = c]
        BY <1>2, OneCallChanges
      <3> QED BY <1>0, <2>1, <3>1 DEF CallMoves
    <2>2. CASE j = i
      <3>0. PICK old \in CallType : old = ingest[i]
        BY <1>0
      <3>1. CASE \E rows \in Payloads, m, s \in BOOLEAN : Call(i, rows, m, s)
        BY <1>0, <3>1 DEF Call, IdleCall, CallMoves
      <3>2. CASE \E outcome \in {"ok", "error", "invalid", "conflict"} : Return(i, outcome)
        BY <1>0, <3>2 DEF Return, IdleCall, CallMoves
      <3>3. CASE LoadVersions(i)
        <4> DEFINE seen == [o \in Objects |->
                     IF o \in DOMAIN ingest[i].rows THEN ValidVersion(o) ELSE 0]
                   c == [old EXCEPT !.pc = "store", !.from = clock, !.seen = seen]
        <4>1. ingest' = [ingest EXCEPT ![i] = c]
          BY <1>0, <3>0, <3>3 DEF LoadVersions
        <4> HIDE DEF seen
        <4>2. c.pc = "store" /\ c.from = clock /\ c.watched = old.watched
          BY <3>0 DEF CallType
        <4> HIDE DEF c
        <4> QED BY <1>0, <3>0, <4>1, <4>2 DEF CallMoves
      <3>4. CASE StoreVersions(i) /\ ~(\E outcome \in {"error"} : Return(i, outcome))
        <4> DEFINE rows == [o \in Kept(i) |-> ingest[i].rows[o]]
                   versions == [o \in Objects |-> IF o \in Kept(i) THEN Len(table[o]) + 1 ELSE 0]
                   c == [old EXCEPT !.pc = "watch", !.rows = rows, !.stored = versions]
        <4>1. ingest' = [ingest EXCEPT ![i] = c]
          BY <1>0, <3>0, <3>4 DEF StoreVersions
        <4> HIDE DEF rows, versions
        <4>2. /\ c.pc = "watch" /\ c.from = old.from /\ c.watched = old.watched
              /\ c.rows = rows /\ c.stored = versions /\ c.seen = old.seen
          BY <3>0 DEF CallType
        <4> HIDE DEF c
        <4>3. ingest'[i] = c
          BY <1>0, <4>1
        <4> QED BY <3>0, <3>4, <4>2, <4>3 DEF CallMoves, rows, versions
      <3>5. CASE RetryOnConflict(i) /\ ~ \E outcome \in {"conflict"} : Return(i, outcome)
        <4> DEFINE c == [old EXCEPT !.pc = "load", !.attempt = 2]
        <4>1. ingest' = [ingest EXCEPT ![i] = c]
          BY <1>0, <3>0, <3>5 DEF RetryOnConflict
        <4>2. c.pc = "load" /\ c.from = old.from /\ c.watched = old.watched
          BY <3>0 DEF CallType
        <4> HIDE DEF c
        <4> QED BY <1>0, <3>0, <4>1, <4>2 DEF CallMoves
      <3>6. CASE ReadMonitored(i)
        <4> DEFINE watched == [o \in Objects |->
                     IF o \in DOMAIN ingest[i].rows THEN monitored[o] ELSE 0]
                   c == [old EXCEPT !.pc = "enqueue", !.watched = watched]
        <4>1. ingest' = [ingest EXCEPT ![i] = c] /\ UNCHANGED <<table, tasks>> /\ old.pc = "watch"
          BY <1>0, <3>0, <3>6 DEF ReadMonitored
        <4> HIDE DEF watched
        <4>2. /\ c.pc = "enqueue" /\ c.from = old.from /\ c.watched = watched
              /\ c.rows = old.rows /\ c.stored = old.stored /\ c.seen = old.seen
          BY <3>0 DEF CallType
        <4> HIDE DEF c
        <4>3. ingest'[i] = c
          BY <1>0, <4>1
        <4> QED BY <3>0, <4>1, <4>2, <4>3 DEF CallMoves, watched
      <3> QED BY <1>2, <2>2, <3>1, <3>2, <3>3, <3>4, <3>5, <3>6
              DEF IngestionStep, RejectRows, TransactionFails, EnqueueScreenings, StoreVersions,
                  RetryOnConflict
    <2> QED BY <2>1, <2>2
  <1>3. CASE UNCHANGED <<ingestionVars, datasetVars, monitoringVars>>
    BY <1>1, <1>3 DEF ingestionVars
  <1> QED BY <1>1, <1>2, <1>3, ScreeningCases, CallsKept DEF OutsideCalls

\* How a step changes the request under way.
LEMMA UserCases ==
  ASSUME CallsInv, ScreeningsTyped, VersionsKnown, [ScreeningNext]_screeningVars
  PROVE  /\ user' \in UserType
         /\ user'.pc /= "idle" => user'.object \in Objects
         /\ user'.pc \in {"insert", "screen"} => user'.version \in Stored(user'.object)
  <1>0. /\ user \in UserType
        /\ user.pc /= "idle" => user.object \in Objects
        /\ user.pc \in {"insert", "screen"} => user.version \in Stored(user.object)
    BY DEF ScreeningsTyped, VersionsKnown
  <1>1. CASE UNCHANGED user
    BY <1>0, <1>1
  <1>2. ASSUME NEW o \in Objects, NEW screen \in BOOLEAN, AskToMonitor(o, screen)
        PROVE  /\ user' \in UserType /\ user'.object \in Objects
               /\ user'.version \in Stored(user'.object)
    <2>1. /\ user' = [pc |-> "insert", object |-> o, version |-> ValidVersion(o),
                      screen |-> screen]
          /\ ValidVersion(o) /= 0
      BY <1>2 DEF AskToMonitor
    <2>2. ValidVersion(o) \in Stored(o) /\ ValidVersion(o) \in Nat
      BY <2>1, ValidIsLast DEF CallsInv, Chained, Stored
    <2> QED BY <2>1, <2>2 DEF UserType
  <1>3. ASSUME NEW o \in Objects, StopMonitoring(o)
        PROVE  user' \in UserType /\ user'.object \in Objects /\ user'.pc = "untrack"
    BY <1>3 DEF StopMonitoring, UserType
  <1>4. ASSUME UserStep("idle")
        PROVE  user' \in UserType /\ user'.pc = "idle"
    BY <1>0, <1>4 DEF UserStep, UserType
  <1>5. ASSUME UserStep("screen"), user.pc = "insert"
        PROVE  /\ user' \in UserType /\ user'.object = user.object
               /\ user'.version = user.version
    BY <1>0, <1>5 DEF UserStep, UserType
  <1>6. CASE RequestStep
    BY <1>0, <1>2, <1>3, <1>4, <1>5, <1>6 DEF RequestStep, InsertMonitored, AlreadyMonitored,
       ScreenOnRequest, RequestFails, TrackDeletion
  <1>7. ASSUME NEW t \in DOMAIN tasks, TaskStep(t)
        PROVE  UNCHANGED user
    BY <1>7 DEF TaskStep, StartJob, JobFails, JobRerun, Register, TrackAddition,
                ScreenRegistered, EnsureTrack, CheckUpdate, OpenTransaction, StoreUpdate,
                monitoringVars
  <1> QED BY <1>1, <1>6, <1>7, ScreeningCases DEF monitoringVars

\* How a step changes the screenings.
LEMMA ScreeningsCases ==
  ASSUME MonitoredInv, [ScreeningNext]_screeningVars
  PROVE  \/ UNCHANGED screenings
         \/ /\ \E o \in Objects : \E v \in Stored(o) : StoreScreening(o, v, "added", Now, FALSE)
            /\ clock' = Now
         \/ \E t \in DOMAIN tasks : StoreUpdate(t)
  <1>1. CASE RequestStep
    <2>1. CASE ScreenOnRequest
      BY <2>1 DEF ScreenOnRequest, MonitoredInv, VersionsKnown
    <2>2. CASE ~ScreenOnRequest
      BY <1>1, <2>2 DEF RequestStep, AskToMonitor, StopMonitoring, InsertMonitored,
                        AlreadyMonitored, RequestFails, TrackDeletion
    <2> QED BY <2>1, <2>2
  <1>2. ASSUME NEW t \in DOMAIN tasks, TaskStep(t)
        PROVE  \/ UNCHANGED screenings
               \/ /\ \E o \in Objects : \E v \in Stored(o) :
                       StoreScreening(o, v, "added", Now, FALSE)
                  /\ clock' = Now
               \/ StoreUpdate(t)
    <2>1. CASE ScreenRegistered(t)
      <3>1. t.object \in Objects /\ t.new \in Stored(t.object)
        BY DEF MonitoredInv, TasksTyped, TaskType, VersionsKnown
      <3> QED BY <2>1, <3>1 DEF ScreenRegistered
    <2>2. CASE ~ScreenRegistered(t)
      BY <1>2, <2>2 DEF TaskStep, StartJob, JobFails, JobRerun, Register, TrackAddition,
                  EnsureTrack, CheckUpdate, OpenTransaction, monitoringVars
    <2> QED BY <2>1, <2>2
  <1> QED BY <1>1, <1>2, ScreeningCases DEF monitoringVars

\* A screening is stored behind the others of its object.
LEMMA ScreeningAdded ==
  ASSUME CallsInv, ScreeningsTyped, NEW o \in Objects, NEW v \in Stored(o),
         NEW trigger \in {"added", "updated"}, NEW at \in Nat, NEW skip \in BOOLEAN,
         StoreScreening(o, v, trigger, at, skip)
  PROVE  LET new == Screening(o, v, trigger, at, DataOf(o, v) \in Hits /\ ~skip)
             n   == Len(screenings[o])
         IN  /\ new \in ScreeningType /\ n \in Nat
             /\ screenings' \in [Objects -> Seq(ScreeningType)]
             /\ \A other \in Objects \ {o} : screenings'[other] = screenings[other]
             /\ DOMAIN screenings[o] = 1 .. n /\ DOMAIN screenings'[o] = 1 .. n + 1
             /\ \A s \in 1 .. n : screenings'[o][s] = screenings[o][s]
             /\ screenings'[o][n + 1] = new
  <1> DEFINE new == Screening(o, v, trigger, at, DataOf(o, v) \in Hits /\ ~skip)
             old == screenings[o]
  <1>1. /\ table[o] \in Seq(Version) /\ v \in 1 .. Len(table[o]) /\ v \in Nat
    BY DEF CallsInv, Chained, Chain, Stored
  <1>2. table[o][v] \in Version
    BY <1>1
  <1>3. DataOf(o, v) \in Data
    BY <1>2 DEF DataOf, Version
  <1>4. new \in ScreeningType
    BY <1>1, <1>3 DEF Screening, ScreeningType
  <1>5. screenings \in [Objects -> Seq(ScreeningType)] /\ old \in Seq(ScreeningType)
    BY DEF ScreeningsTyped
  <1>6. screenings' = [screenings EXCEPT ![o] = Append(old, new)]
    BY DEF StoreScreening
  <1> HIDE DEF new, old
  <1>7. /\ Append(old, new) \in Seq(ScreeningType) /\ Len(old) \in Nat
        /\ DOMAIN old = 1 .. Len(old) /\ DOMAIN Append(old, new) = 1 .. Len(old) + 1
        /\ \A s \in 1 .. Len(old) : Append(old, new)[s] = old[s]
        /\ Append(old, new)[Len(old) + 1] = new
    BY <1>4, <1>5
  <1>8. /\ screenings' \in [Objects -> Seq(ScreeningType)]
        /\ \A other \in Objects \ {o} : screenings'[other] = screenings[other]
        /\ screenings'[o] = Append(old, new)
    BY <1>5, <1>6, <1>7
  <1> QED BY <1>4, <1>7, <1>8 DEF new, old

\* The time and the version of an update under way.
LEMMA UpdateKnown ==
  ASSUME MonitoredInv, NEW t \in DOMAIN tasks
  PROVE  /\ t \in TaskType /\ t.object \in Objects /\ t.new \in Stored(t.object)
         /\ tasks[t] \in TaskState /\ tasks[t].at \in Nat /\ tasks[t].skip \in BOOLEAN
         /\ tasks[t].at <= clock /\ t.monitoring \in Nat /\ t.monitoring <= clock
         /\ clock \in Nat
  <1>1. t \in TaskType /\ tasks[t] \in TaskState
    BY DEF MonitoredInv, TasksTyped
  <1>2. clock \in Nat
    BY DEF MonitoredInv, CallsInv, Typed
  <1> QED BY <1>1, <1>2 DEF MonitoredInv, VersionsKnown, TimesPast, TaskType, TaskState

LEMMA ScreeningsKept ==
  ASSUME MonitoredInv, [ScreeningNext]_screeningVars
  PROVE  ScreeningsTyped'
  <1>1. user' \in UserType
    BY UserCases DEF MonitoredInv
  <1>2. CASE UNCHANGED screenings
    BY <1>1, <1>2 DEF MonitoredInv, ScreeningsTyped
  <1>3. ASSUME NEW o \in Objects, NEW v \in Stored(o), StoreScreening(o, v, "added", Now, FALSE)
        PROVE  ScreeningsTyped'
    <2>1. Now \in Nat
      BY DEF Now, MonitoredInv, CallsInv, Typed
    <2> QED BY <1>1, <1>3, <2>1, ScreeningAdded DEF MonitoredInv, ScreeningsTyped
  <1>4. ASSUME NEW t \in DOMAIN tasks, StoreUpdate(t)
        PROVE  ScreeningsTyped'
    BY <1>1, <1>4, UpdateKnown, ScreeningAdded DEF StoreUpdate, MonitoredInv, ScreeningsTyped
  <1> QED BY <1>2, <1>3, <1>4, ScreeningsCases

LEMMA VersionsKept ==
  ASSUME MonitoredInv, [ScreeningNext]_screeningVars
  PROVE  VersionsKnown'
  <1>0. VersionsStay /\ \A o \in Objects : Stored(o) \subseteq Stored(o)'
    BY TableMoves DEF MonitoredInv, VersionsStay
  <1>1. ASSUME NEW t \in DOMAIN tasks'
        PROVE  /\ t.new \in Stored(t.object)'
               /\ t.kind = "update" => t.previous \in Stored(t.object)' /\ t.monitoring /= 0
    <2>1. CASE t \in DOMAIN tasks
      <3>1. t.object \in Objects
        BY <2>1, UpdateKnown
      <3> QED BY <1>0, <2>1, <3>1 DEF MonitoredInv, VersionsKnown
    <2>2. CASE t \notin DOMAIN tasks
      <3>1. CASE \E i \in Ingesters : EnqueueScreenings(i) /\ tasks' = Enqueued(NewTasks(i))
        <4>1. PICK i \in Ingesters : EnqueueScreenings(i) /\ tasks' = Enqueued(NewTasks(i))
          BY <3>1
        <4>2. t \in NewTasks(i) /\ UNCHANGED table /\ ingest[i].pc = "enqueue"
          BY <2>2, <4>1 DEF Enqueued, EnqueueScreenings
        <4> QED BY <4>2, NewTasksTyped DEF MonitoredInv, Stored
      <3>2. CASE InsertMonitored
                 /\ tasks' = Enqueued({EnsureTask(user.object, user.version, Now)})
        <4>1. t = EnsureTask(user.object, user.version, Now) /\ UNCHANGED table
              /\ user.pc = "insert"
          BY <2>2, <3>2 DEF Enqueued, InsertMonitored
        <4>2. t.kind = "ensure" /\ t.new = user.version /\ t.object = user.object
          BY <4>1 DEF EnsureTask
        <4> QED BY <4>1, <4>2 DEF MonitoredInv, VersionsKnown, Stored
      <3>3. ~(\E u \in DOMAIN tasks : TaskStep(u))
        BY <2>2, TaskMoves DEF Becomes, MonitoredInv, CallsInv, Typed
      <3> QED BY <2>2, <3>1, <3>2, <3>3, TasksCases
    <2> QED BY <2>1, <2>2
  <1>2. ASSUME NEW i \in Ingesters, Settled(i)', NEW o \in DOMAIN ingest'[i].rows
        PROVE  ingest'[i].stored[o] \in Stored(o)' /\ ingest'[i].seen[o] \in {0} \cup Stored(o)'
    <2>0. /\ CallMoves(i) /\ ingest[i] \in CallType /\ ingest[i].rows \in SomeRows
          /\ ingest[i].seen \in [Objects -> Nat]
      BY CallsCases DEF MonitoredInv, CallsInv, Typed, CallType
    <2>1. CASE /\ Settled(i) /\ ingest'[i].rows = ingest[i].rows
               /\ ingest'[i].stored = ingest[i].stored /\ ingest'[i].seen = ingest[i].seen
      <3>1. o \in Objects
        BY <1>2, <2>0, <2>1, RowsTyped
      <3> QED BY <1>0, <1>2, <2>1, <3>1 DEF MonitoredInv, VersionsKnown
    <2>2. CASE /\ StoreVersions(i) /\ ingest'[i].rows = [x \in Kept(i) |-> ingest[i].rows[x]]
               /\ ingest'[i].stored =
                    [x \in Objects |-> IF x \in Kept(i) THEN Len(table[x]) + 1 ELSE 0]
               /\ ingest'[i].seen = ingest[i].seen
      <3>1. /\ o \in Kept(i) /\ o \in Objects /\ Len(table[o]) \in Nat
            /\ Len(table'[o]) = Len(table[o]) + 1
        BY <1>2, <2>2, StoreStays DEF MonitoredInv
      <3>2. ingest'[i].stored[o] = Len(table[o]) + 1
        BY <2>2, <3>1
      <3>3. ingest[i].seen[o] \in 0 .. Len(table[o])
        BY <2>2, <3>1 DEF MonitoredInv, CallsInv, SeenStored, StoreVersions
      <3> QED BY <2>2, <3>1, <3>2, <3>3 DEF Stored
    <2> QED BY <1>2, <2>0, <2>1, <2>2 DEF CallMoves, Settled
  <1>3. /\ (user.pc /= "idle" => user.object \in Objects)'
        /\ (user.pc \in {"insert", "screen"} => user.version \in Stored(user.object))'
    <2>1. /\ user'.pc /= "idle" => user'.object \in Objects
          /\ user'.pc \in {"insert", "screen"} => user'.version \in Stored(user'.object)
      BY UserCases DEF MonitoredInv
    <2>2. \A o \in Objects : 1 .. Len(table[o]) \subseteq 1 .. Len(table'[o])
      BY <1>0 DEF Stored
    <2> QED BY <2>1, <2>2 DEF Stored
  <1> QED BY <1>1, <1>2, <1>3 DEF VersionsKnown

LEMMA TimesKept ==
  ASSUME MonitoredInv, [ScreeningNext]_screeningVars
  PROVE  TimesPast'
  <1>0. clock \in Nat /\ clock' \in Nat /\ clock <= clock' /\ monitored \in [Objects -> Nat]
    BY TableMoves DEF MonitoredInv, CallsInv, Typed
  <1>1. ASSUME NEW o \in Objects
        PROVE  monitored'[o] <= clock'
    <2>1. monitored[o] <= clock /\ monitored[o] \in Nat
      BY <1>0 DEF MonitoredInv, TimesPast
    <2>2. CASE UNCHANGED monitored
      BY <1>0, <2>1, <2>2
    <2>3. CASE OutsideCalls
      BY <1>0, <2>1, <2>3, CallsKept DEF MonitoredInv
    <2>4. CASE \E i \in Ingesters :
              \/ \E rows \in Payloads, m, s \in BOOLEAN : Call(i, rows, m, s)
              \/ IngestionStep(i)
      BY <2>2, <2>4 DEF Call, IngestionStep, LoadVersions, StoreVersions, RejectRows,
                        RetryOnConflict, TransactionFails, ReadMonitored, EnqueueScreenings
    <2> QED BY <2>2, <2>3, <2>4, ScreeningCases DEF OutsideCalls, ingestionVars
  <1>2. ASSUME NEW i \in Ingesters
        PROVE  /\ ingest'[i].from <= clock'
               /\ \A o \in Objects : ingest'[i].watched[o] <= clock'
    <2>1. CallMoves(i) /\ ingest[i] \in CallType
      BY CallsCases DEF MonitoredInv, CallsInv, Typed
    <2>2. /\ ingest[i].from \in Nat /\ ingest[i].from <= clock
          /\ \A o \in Objects : /\ ingest[i].watched[o] \in Nat /\ ingest[i].watched[o] <= clock
                                /\ monitored[o] \in Nat /\ monitored[o] <= clock
      BY <1>0, <2>1 DEF MonitoredInv, TimesPast, CallType
    <2>3. ingest'[i].from \in {0, clock, ingest[i].from}
      BY <2>1 DEF CallMoves
    <2>4. \A o \in Objects : ingest'[i].watched[o] \in {0, monitored[o], ingest[i].watched[o]}
      BY <2>1 DEF CallMoves
    <2> QED BY <1>0, <2>2, <2>3, <2>4
  <1>3. ASSUME NEW o \in Objects, NEW k \in Stored(o)'
        PROVE  table'[o][k].from <= clock'
    <2>1. CASE k \in Stored(o)
      <3>1. table'[o][k].from = table[o][k].from /\ table[o][k].from <= clock
        BY <2>1, TableMoves DEF MonitoredInv, VersionsStay, TimesPast
      <3>2. table[o] \in Seq(Version) /\ k \in 1 .. Len(table[o])
        BY <2>1 DEF MonitoredInv, CallsInv, Chained, Chain, Stored
      <3>3. table[o][k] \in Version
        BY <3>2
      <3> QED BY <1>0, <3>1, <3>3 DEF Version
    <2>2. CASE k \notin Stored(o)
      <3>1. PICK i \in Ingesters : StoreVersions(i)
        <4>1. table' /= table
          BY <1>3, <2>2 DEF Stored
        <4> QED BY <4>1, ScreeningCases, CallsKept
                DEF OutsideCalls, MonitoredInv, ingestionVars, Call, IngestionStep, LoadVersions,
                    RejectRows, RetryOnConflict, TransactionFails, ReadMonitored,
                    EnqueueScreenings
      <3>2. o \in Kept(i)
        BY <1>3, <2>2, <3>1, StoreStays DEF Stored, MonitoredInv
      <3>3. /\ Len(table[o]) \in Nat /\ Len(table'[o]) = Len(table[o]) + 1
            /\ table'[o][Len(table[o]) + 1].from = ingest[i].from
        BY <3>1, <3>2, StoreStays DEF MonitoredInv
      <3>4. k = Len(table[o]) + 1
        BY <1>3, <2>2, <3>3 DEF Stored
      <3>5. ingest[i].from \in Nat /\ ingest[i].from <= clock
        BY DEF MonitoredInv, TimesPast, CallsInv, Typed, CallType
      <3> QED BY <1>0, <3>3, <3>4, <3>5
    <2> QED BY <2>1, <2>2
  <1>4. ASSUME NEW t \in DOMAIN tasks'
        PROVE  t.monitoring <= clock' /\ tasks'[t].at <= clock'
    <2>1. CASE t \in DOMAIN tasks /\ tasks'[t] = tasks[t]
      BY <1>0, <2>1, UpdateKnown
    <2>2. ASSUME NEW new \in SUBSET TaskType, tasks' = Enqueued(new),
                 \A u \in new : u.monitoring <= clock'
          PROVE  t.monitoring <= clock' /\ tasks'[t].at <= clock'
      <3>1. CASE t \in DOMAIN tasks
        BY <2>1, <2>2, <3>1, EnqueuedTasks DEF MonitoredInv
      <3>2. CASE t \notin DOMAIN tasks
        <4>1. t \in new /\ tasks'[t] = QueuedTask
          BY <2>2, <3>2, EnqueuedTasks DEF MonitoredInv
        <4> QED BY <1>0, <2>2, <4>1 DEF QueuedTask
      <3> QED BY <3>1, <3>2
    <2>3. ASSUME NEW i \in Ingesters, EnqueueScreenings(i), tasks' = Enqueued(NewTasks(i))
          PROVE  t.monitoring <= clock' /\ tasks'[t].at <= clock'
      <3>1. NewTasks(i) \in SUBSET TaskType /\ \A u \in NewTasks(i) : u.monitoring <= clock
        BY <2>3, NewTasksTyped DEF MonitoredInv, EnqueueScreenings
      <3>2. clock' = clock
        BY <2>3 DEF EnqueueScreenings
      <3> QED BY <2>2, <2>3, <3>1, <3>2
    <2>4. ASSUME InsertMonitored, clock' = Now,
                 tasks' = Enqueued({EnsureTask(user.object, user.version, Now)})
          PROVE  t.monitoring <= clock' /\ tasks'[t].at <= clock'
      <3>1. user.object \in Objects /\ user.version \in Nat /\ Now \in Nat
        BY <1>0, <2>4 DEF InsertMonitored, MonitoredInv, VersionsKnown, ScreeningsTyped,
                          UserType, Now
      <3>2. /\ EnsureTask(user.object, user.version, Now) \in TaskType
            /\ EnsureTask(user.object, user.version, Now).monitoring = clock'
        BY <2>4, <3>1 DEF EnsureTask, TaskType
      <3>3. {EnsureTask(user.object, user.version, Now)} \in SUBSET TaskType
            /\ \A u \in {EnsureTask(user.object, user.version, Now)} : u.monitoring <= clock'
        BY <1>0, <3>2
      <3> QED BY <2>2, <2>4, <3>3
    <2>5. ASSUME NEW u \in DOMAIN tasks, TaskStep(u)
          PROVE  t.monitoring <= clock' /\ tasks'[t].at <= clock'
      <3>1. Becomes(u, tasks'[u])
        BY <1>0, <2>5, TaskMoves DEF MonitoredInv
      <3>2. t \in DOMAIN tasks /\ (t /= u => tasks'[t] = tasks[t])
        BY <3>1 DEF Becomes, MonitoredInv, TasksTyped
      <3>3. CASE t = u
        BY <1>0, <3>1, <3>2, <3>3, UpdateKnown DEF Becomes
      <3> QED BY <2>1, <3>2, <3>3
    <2>6. CASE UNCHANGED tasks
      BY <2>1, <2>6
    <2> QED BY <2>3, <2>4, <2>5, <2>6, TasksCases
  <1> QED BY <1>1, <1>2, <1>3, <1>4 DEF TimesPast

LEMMA MonitoredKept ==
  ASSUME MonitoredInv, [ScreeningNext]_screeningVars
  PROVE  MonitoredInv'
  BY CallsInvKept, TasksKept, ScreeningsKept, VersionsKept, TimesKept DEF MonitoredInv

LEMMA InitMonitored == ScreeningInit => MonitoredInv
  <1> SUFFICES ASSUME ScreeningInit PROVE MonitoredInv
    OBVIOUS
  <1>1. CallsInv
    BY InitCalls DEF ScreeningInit
  <1>2. tasks = [t \in {} |-> 0] /\ DOMAIN tasks = {}
    BY DEF ScreeningInit, IngestionInit
  <1>3. TasksTyped /\ KindOfState
    BY <1>2 DEF TasksTyped, KindOfState
  <1>4. ScreeningsTyped
    BY DEF ScreeningInit, MonitoringInit, ScreeningsTyped, UserType, IdleUser
  <1>5. VersionsKnown
    BY <1>2 DEF ScreeningInit, MonitoringInit, IngestionInit, VersionsKnown, IdleUser, Settled,
                IdleCall
  <1>6. ASSUME NEW o \in Objects, NEW k \in Stored(o)
        PROVE  table[o][k].from <= clock
    BY <1>1 DEF ScreeningInit, IngestionInit, FirstVersion, Stored
  <1>7. TimesPast
    BY <1>2, <1>6 DEF ScreeningInit, IngestionInit, TimesPast, IdleCall
  <1> QED BY <1>1, <1>3, <1>4, <1>5, <1>7 DEF MonitoredInv

\* No two calls move in a step.
LEMMA OthersStay ==
  ASSUME CallsInv, [ScreeningNext]_screeningVars, NEW i \in Ingesters, NEW j \in Ingesters,
         i /= j
  PROVE  ingest'[i] = ingest[i] \/ ingest'[j] = ingest[j]
  <1>0. ingest \in [Ingesters -> CallType]
    BY DEF CallsInv, Typed
  <1>1. ASSUME NEW k \in Ingesters,
               \/ \E rows \in Payloads, m, s \in BOOLEAN : Call(k, rows, m, s)
               \/ IngestionStep(k)
        PROVE  ingest'[i] = ingest[i] \/ ingest'[j] = ingest[j]
    BY <1>0, <1>1, OneCallChanges
  <1> QED BY <1>1, ScreeningCases, CallsKept DEF OutsideCalls, ingestionVars

\* What was monitored since another time is not monitored since that of a job.
LEMMA MonitoringFresh ==
  ASSUME MonitoredInv, [ScreeningNext]_screeningVars, NEW t \in DOMAIN tasks,
         monitored'[t.object] = t.monitoring, t.monitoring /= 0
  PROVE  monitored[t.object] = t.monitoring
  <1>0. /\ t.object \in Objects /\ t.monitoring \in Nat /\ t.monitoring <= clock
        /\ clock \in Nat
    BY UpdateKnown
  <1>1. CASE OutsideCalls
    BY <1>0, <1>1, CallsKept DEF MonitoredInv
  <1>2. CASE UNCHANGED monitored
    BY <1>2
  <1>3. CASE \E i \in Ingesters :
            \/ \E rows \in Payloads, m, s \in BOOLEAN : Call(i, rows, m, s)
            \/ IngestionStep(i)
    BY <1>2, <1>3 DEF Call, IngestionStep, LoadVersions, StoreVersions, RejectRows,
                      RetryOnConflict, TransactionFails, ReadMonitored, EnqueueScreenings
  <1> QED BY <1>1, <1>2, <1>3, ScreeningCases DEF OutsideCalls, ingestionVars

-----------------------------------------------------------------------------
(* The latest of some records.                                             *)

LEMMA LeastNumber ==
  ASSUME NEW T \in SUBSET Nat, T /= {}
  PROVE  \E x \in T : \A y \in T : x <= y
  <1> DEFINE R == OpToRel(<, Nat)
  <1>1. \A x, y \in Nat : x < y => <<x, y>> \in R
    BY DEF OpToRel
  <1>2. IsWellFoundedOn(R, Nat)
    BY NatLessThanWellFounded
  <1> HIDE DEF R
  <1>3. PICK x \in T : \A y \in T : <<y, x>> \notin R
    BY <1>2, WFMin
  <1>4. \A y \in T : ~(y < x) /\ y \in Nat /\ x \in Nat
    BY <1>1, <1>3
  <1> QED BY <1>4

LEMMA LatestOf ==
  ASSUME NEW some, some /= {}, NEW bound \in Nat,
         \A r \in some : r.at \in Nat /\ r.at <= bound
  PROVE  Latest(some) \in some /\ \A r \in some : r.at <= Latest(some).at
  <1> DEFINE gaps == {bound - r.at : r \in some}
  <1>1. gaps \in SUBSET Nat /\ gaps /= {}
    OBVIOUS
  <1>2. PICK x \in gaps : \A y \in gaps : x <= y
    BY <1>1, LeastNumber
  <1>3. PICK r \in some : x = bound - r.at
    BY <1>2
  <1>4. \A other \in some : other.at <= r.at
    <2>1. \A other \in some : bound - r.at <= bound - other.at
      BY <1>2, <1>3
    <2> QED BY <2>1
  <1> QED BY <1>3, <1>4 DEF Latest

\* The latest is determined if no two have the same time.
LEMMA LatestIs ==
  ASSUME NEW some, NEW r \in some, NEW bound \in Nat,
         \A x \in some : x.at \in Nat /\ x.at <= bound,
         \A x \in some : x /= r => x.at < r.at
  PROVE  Latest(some) = r
  <1>1. Latest(some) \in some /\ r.at <= Latest(some).at
    BY LatestOf
  <1> QED BY <1>1

-----------------------------------------------------------------------------
(* Screenings of changes.                                                  *)

\* One job for each change: no other will be about a version that a call has stored.
OnePerVersion ==
  /\ \A t, u \in DOMAIN tasks :
       t.kind = "update" /\ u.kind = "update" /\ t.object = u.object /\ t.new = u.new => t = u
  /\ \A i \in Ingesters : Settled(i) => \A o \in DOMAIN ingest[i].rows :
       /\ \A t \in DOMAIN tasks :
            t.kind = "update" /\ t.object = o => t.new /= ingest[i].stored[o]
       /\ \A j \in Ingesters \ {i} : Settled(j) /\ o \in DOMAIN ingest[j].rows =>
            ingest[j].stored[o] /= ingest[i].stored[o]

\* A call that has stored its rows had stored them before, or stores versions that
\* nothing knows of.
LEMMA SettledBefore ==
  ASSUME MonitoredInv, [ScreeningNext]_screeningVars, NEW i \in Ingesters, Settled(i)',
         NEW o \in DOMAIN ingest'[i].rows
  PROVE  /\ o \in Objects /\ Len(table[o]) \in Nat
         /\ \/ /\ Settled(i) /\ ingest'[i].rows = ingest[i].rows
               /\ ingest'[i].stored = ingest[i].stored
            \/ ingest'[i] /= ingest[i] /\ ingest'[i].stored[o] = Len(table[o]) + 1
               /\ UNCHANGED tasks
  <1>0. MonitoredInv' /\ CallMoves(i)
    BY MonitoredKept, CallsCases DEF MonitoredInv
  <1>1. o \in Objects
    BY <1>0, RowsTyped DEF MonitoredInv, CallsInv, Typed, CallType
  <1>2. Len(table[o]) \in Nat
    BY <1>1 DEF MonitoredInv, CallsInv, Chained, Chain
  <1>3. CASE /\ StoreVersions(i) /\ ingest'[i].pc = "watch"
             /\ ingest'[i].rows = [x \in Kept(i) |-> ingest[i].rows[x]]
             /\ ingest'[i].stored =
                  [x \in Objects |-> IF x \in Kept(i) THEN Len(table[x]) + 1 ELSE 0]
    <2>1. o \in Kept(i)
      BY <1>3
    <2>2. ingest'[i].stored[o] = Len(table[o]) + 1
      BY <1>1, <1>3, <2>1
    <2>3. ingest[i].pc = "store" /\ UNCHANGED tasks
      BY <1>3 DEF StoreVersions
    <2> QED BY <1>1, <1>2, <1>3, <2>2, <2>3
  <1> QED BY <1>0, <1>1, <1>2, <1>3 DEF CallMoves, Settled

LEMMA OneKept ==
  ASSUME MonitoredInv, OnePerVersion, [ScreeningNext]_screeningVars
  PROVE  OnePerVersion'
  <1> DEFINE Updates == {t \in DOMAIN tasks : t.kind = "update"}
             Updates1 == {t \in DOMAIN tasks' : t.kind = "update"}
  <1>1. CASE Updates1 \subseteq Updates
    <2>1. ASSUME NEW i \in Ingesters, Settled(i)', NEW o \in DOMAIN ingest'[i].rows,
                 NEW t \in Updates, t.object = o
          PROVE  t.new /= ingest'[i].stored[o]
      <3>1. t.new \in 1 .. Len(table[o])
        BY <2>1, UpdateKnown DEF Stored
      <3>2. /\ Len(table[o]) \in Nat
            /\ \/ /\ Settled(i) /\ ingest'[i].rows = ingest[i].rows
                  /\ ingest'[i].stored = ingest[i].stored
               \/ ingest'[i].stored[o] = Len(table[o]) + 1
        BY <2>1, SettledBefore
      <3> QED BY <2>1, <3>1, <3>2 DEF OnePerVersion
    <2>2. ASSUME NEW i \in Ingesters, Settled(i)', NEW o \in DOMAIN ingest'[i].rows,
                 NEW j \in Ingesters \ {i}, Settled(j)', o \in DOMAIN ingest'[j].rows
          PROVE  ingest'[j].stored[o] /= ingest'[i].stored[o]
      <3>1. \A k \in {i, j} :
              /\ Len(table[o]) \in Nat
              /\ \/ /\ Settled(k) /\ ingest'[k].rows = ingest[k].rows
                    /\ ingest'[k].stored = ingest[k].stored
                    /\ ingest'[k].stored[o] \in 1 .. Len(table[o])
                 \/ ingest'[k] /= ingest[k] /\ ingest'[k].stored[o] = Len(table[o]) + 1
        BY <2>2, SettledBefore DEF MonitoredInv, VersionsKnown, Stored
      <3>2. ingest'[i] = ingest[i] \/ ingest'[j] = ingest[j]
        BY OthersStay DEF MonitoredInv
      <3> QED BY <2>2, <3>1, <3>2 DEF OnePerVersion
    <2> QED BY <1>1, <2>1, <2>2 DEF OnePerVersion
  <1>2. CASE UNCHANGED tasks
    BY <1>1, <1>2
  <1>3. CASE \E t \in DOMAIN tasks : TaskStep(t)
    <2>1. DOMAIN tasks' = DOMAIN tasks
      BY <1>3, TaskMoves DEF Becomes, MonitoredInv, CallsInv, Typed
    <2> QED BY <1>1, <2>1
  <1>4. CASE tasks' = Enqueued({EnsureTask(user.object, user.version, Now)})
    <2>1. EnsureTask(user.object, user.version, Now).kind = "ensure"
      BY DEF EnsureTask
    <2>2. DOMAIN tasks' = DOMAIN tasks \cup {EnsureTask(user.object, user.version, Now)}
      BY <1>4 DEF Enqueued
    <2> QED BY <1>1, <2>1, <2>2
  <1>5. ASSUME NEW i \in Ingesters, EnqueueScreenings(i), tasks' = Enqueued(NewTasks(i))
        PROVE  OnePerVersion'
    <2>1. ingest[i].pc = "enqueue" /\ Settled(i)
      BY <1>5 DEF EnqueueScreenings, Settled
    <2>2. \A t \in NewTasks(i) :
              /\ t.object \in DOMAIN ingest[i].rows /\ t.new = ingest[i].stored[t.object]
              /\ t.kind = "update" => t = UpdateTask(t.object, ingest[i].seen[t.object],
                                           ingest[i].stored[t.object],
                                           ingest[i].watched[t.object])
      BY <2>1, NewTasksTyped DEF MonitoredInv
    <2>3. DOMAIN tasks' = DOMAIN tasks \cup NewTasks(i)
      BY <1>5 DEF Enqueued
    <2>4. ~Settled(i)' /\ \A j \in Ingesters \ {i} : ingest'[j] = ingest[j]
      BY <1>5 DEF EnqueueScreenings, Return, Settled, MonitoredInv, CallsInv, Typed, IdleCall
    <2>5. ASSUME NEW t \in DOMAIN tasks', NEW u \in DOMAIN tasks', t.kind = "update",
                 u.kind = "update", t.object = u.object, t.new = u.new
          PROVE  t = u
      <3>1. CASE t \in DOMAIN tasks /\ u \in DOMAIN tasks
        BY <2>5, <3>1 DEF OnePerVersion
      <3>2. CASE t \in NewTasks(i) /\ u \in NewTasks(i)
        BY <2>2, <2>5, <3>2
      <3>3. ASSUME NEW a \in NewTasks(i), NEW b \in DOMAIN tasks, a.object = b.object,
                   a.new = b.new, b.kind = "update"
            PROVE  FALSE
        BY <2>1, <2>2, <3>3 DEF OnePerVersion
      <3> QED BY <2>3, <2>5, <3>1, <3>2, <3>3
    <2>6. ASSUME NEW j \in Ingesters, Settled(j)', NEW o \in DOMAIN ingest'[j].rows
          PROVE  /\ \A t \in DOMAIN tasks' :
                      t.kind = "update" /\ t.object = o => t.new /= ingest'[j].stored[o]
                 /\ \A k \in Ingesters \ {j} : Settled(k)' /\ o \in DOMAIN ingest'[k].rows =>
                      ingest'[k].stored[o] /= ingest'[j].stored[o]
      <3>1. j /= i /\ ingest'[j] = ingest[j] /\ Settled(j)
        BY <2>4, <2>6 DEF Settled
      <3>2. \A t \in NewTasks(i) : t.object = o => t.new /= ingest[j].stored[o]
        BY <2>1, <2>2, <2>6, <3>1 DEF OnePerVersion
      <3>3. \A k \in Ingesters \ {j} :
              Settled(k)' => k /= i /\ ingest'[k] = ingest[k] /\ Settled(k)
        BY <2>4 DEF Settled
      <3> QED BY <2>3, <2>6, <3>1, <3>2, <3>3 DEF OnePerVersion
    <2> QED BY <2>5, <2>6 DEF OnePerVersion
  <1> QED BY <1>2, <1>3, <1>4, <1>5, TasksCases

\* No job has stored a screening of the version of this one.
NotScreened(t) == \A s \in DOMAIN screenings[t.object] :
  ~(/\ screenings[t.object][s].trigger = "updated"
    /\ screenings[t.object][s].version = t.new)

UpdateInv ==
  /\ \A t \in DOMAIN tasks :
       /\ tasks[t].state \in {"checked", "opened"} => NotScreened(t)
       /\ tasks[t].state = "opened" => table[t.object][t.new].from < tasks[t].at
  /\ \A o \in Objects : \A s \in DOMAIN screenings[o] :
       /\ screenings[o][s].at <= clock
       /\ screenings[o][s].trigger = "updated" =>
            /\ screenings[o][s].version \in Stored(o)
            /\ table[o][screenings[o][s].version].from < screenings[o][s].at
  /\ UpdateScreened

\* The screenings of an object.
LEMMA ScreeningKnown ==
  ASSUME MonitoredInv, NEW o \in Objects
  PROVE  /\ Len(screenings[o]) \in Nat /\ DOMAIN screenings[o] = 1 .. Len(screenings[o])
         /\ \A s \in DOMAIN screenings[o] : /\ screenings[o][s] \in ScreeningType
                                           /\ screenings[o][s].at \in Nat
         /\ \A k \in Stored(o) : table[o][k].from \in Nat
  <1>1. screenings[o] \in Seq(ScreeningType)
    BY DEF MonitoredInv, ScreeningsTyped
  <1>2. table[o] \in Seq(Version)
    BY DEF MonitoredInv, CallsInv, Chained, Chain
  <1>3. \A k \in Stored(o) : table[o][k] \in Version
    BY <1>2 DEF Stored
  <1>4. \A s \in DOMAIN screenings[o] : screenings[o][s] \in ScreeningType
    BY <1>1
  <1> QED BY <1>1, <1>3, <1>4 DEF Version, ScreeningType

\* The latest screening decides for all of them.
LEMMA SinceIs ==
  ASSUME MonitoredInv, UpdateInv, NEW t \in DOMAIN tasks
  PROVE  ScreenedSince(t) <=> \E s \in DOMAIN screenings[t.object] :
           screenings[t.object][s].at > table[t.object][t.new].from
  <1> DEFINE done == Range(screenings[t.object])
  <1>0. t.object \in Objects /\ t.new \in Stored(t.object) /\ clock \in Nat
    BY UpdateKnown
  <1>1. \A r \in done : r.at \in Nat /\ r.at <= clock
    BY <1>0, ScreeningKnown DEF UpdateInv, Range
  <1>2. table[t.object][t.new].from \in Nat
    BY <1>0, ScreeningKnown
  <1>3. done /= {} => Latest(done) \in done /\ \A r \in done : r.at <= Latest(done).at
    <2> HIDE DEF done
    <2> QED BY <1>0, <1>1, LatestOf
  <1>4. ASSUME NEW s \in DOMAIN screenings[t.object]
        PROVE  screenings[t.object][s] \in done
    BY DEF Range
  <1>5. \A r \in done : \E s \in DOMAIN screenings[t.object] : r = screenings[t.object][s]
    BY DEF Range
  <1>6. ScreenedSince(t) <=> done /= {} /\ Latest(done).at > table[t.object][t.new].from
    BY DEF ScreenedSince
  <1> HIDE DEF done
  <1>7. ScreenedSince(t) => \E s \in DOMAIN screenings[t.object] :
           screenings[t.object][s].at > table[t.object][t.new].from
    BY <1>3, <1>5, <1>6
  <1>8. ASSUME NEW s \in DOMAIN screenings[t.object],
               screenings[t.object][s].at > table[t.object][t.new].from
        PROVE  ScreenedSince(t)
    <2>1. /\ Latest(done).at \in Nat /\ screenings[t.object][s].at \in Nat
          /\ screenings[t.object][s].at <= Latest(done).at /\ done /= {}
      BY <1>1, <1>3, <1>4
    <2> QED BY <1>2, <1>6, <1>8, <2>1
  <1> QED BY <1>7, <1>8

\* The state of a job after a step of it.
LEMMA StepStates ==
  ASSUME TasksTyped, NEW t \in DOMAIN tasks
  PROVE  /\ \A st : JobStep(t, st) => tasks'[t].state = st
         /\ StartJob(t) => tasks'[t].state = "started"
         /\ JobFails(t) \/ JobRerun(t) => tasks'[t].state \in {"queued", "discarded"}
         /\ OpenTransaction(t) => /\ tasks'[t].state = "opened" /\ tasks'[t].at = Now
                                  /\ tasks'[t].skip = SameHits(t)
  <1>a. tasks[t] \in TaskState
    BY DEF TasksTyped
  <1>old. PICK old \in TaskState : old = tasks[t]
    BY <1>a
  <1>0. tasks = [u \in DOMAIN tasks |-> tasks[u]]
    BY DEF TasksTyped
  <1>1. ASSUME NEW st, JobStep(t, st)
        PROVE  tasks'[t].state = st
    <2>1. tasks' = [tasks EXCEPT ![t] = [old EXCEPT !.state = st]]
      BY <1>old, <1>0, <1>1 DEF JobStep
    <2>2. [old EXCEPT !.state = st].state = st
      BY DEF TaskState
    <2> QED BY <1>0, <2>1, <2>2
  <1>2. ASSUME StartJob(t)
        PROVE  tasks'[t].state = "started"
    <2>0. PICK n : n = old.attempts + 1
      OBVIOUS
    <2>1. tasks' = [tasks EXCEPT ![t] = [old EXCEPT !.state = "started", !.attempts = n]]
      BY <1>old, <1>0, <1>2, <2>0 DEF StartJob
    <2>2. [old EXCEPT !.state = "started", !.attempts = n].state = "started"
      BY DEF TaskState
    <2> QED BY <1>0, <2>1, <2>2
  <1>3. ASSUME JobFails(t) \/ JobRerun(t)
        PROVE  tasks'[t].state \in {"queued", "discarded"}
    <2> DEFINE st == IF old.attempts < MaxAttempts THEN "queued" ELSE "discarded"
    <2>1. tasks' = [tasks EXCEPT ![t] = [old EXCEPT !.at = 0, !.state = st]]
      BY <1>old, <1>0, <1>3 DEF JobFails, JobRerun, RequeueOrDiscard
    <2>2. st \in {"queued", "discarded"}
      OBVIOUS
    <2> HIDE DEF st
    <2>3. [old EXCEPT !.at = 0, !.state = st].state = st
      BY DEF TaskState
    <2> QED BY <1>0, <2>1, <2>2, <2>3
  <1>4. ASSUME OpenTransaction(t)
        PROVE  /\ tasks'[t].state = "opened" /\ tasks'[t].at = Now
               /\ tasks'[t].skip = SameHits(t)
    <2> DEFINE skip == SameHits(t)
               now == Now
    <2>1. tasks' = [tasks EXCEPT ![t] =
            [old EXCEPT !.state = "opened", !.at = now, !.skip = skip]]
      BY <1>old, <1>0, <1>4 DEF OpenTransaction
    <2> HIDE DEF skip, now
    <2>2. LET j == [old EXCEPT !.state = "opened", !.at = now, !.skip = skip]
          IN  j.state = "opened" /\ j.at = now /\ j.skip = skip
      BY DEF TaskState
    <2>3. tasks'[t] = [old EXCEPT !.state = "opened", !.at = now, !.skip = skip]
      BY <1>0, <2>1
    <2> QED BY <2>2, <2>3 DEF skip, now
  <1> QED BY <1>1, <1>2, <1>3, <1>4

\* The steps of a job about a change.
UpdateMoves(t) ==
  \/ tasks'[t].state \in {"queued", "started", "discarded"}
  \/ /\ tasks'[t].state = "done" /\ UNCHANGED <<table, monitored, screenings>>
     /\ monitored[t.object] /= t.monitoring \/ SameData(t) \/ ScreenedSince(t)
  \/ /\ tasks'[t].state = "checked" /\ UNCHANGED <<table, screenings>> /\ ~ScreenedSince(t)
  \/ /\ tasks[t].state = "checked" /\ tasks'[t].state = "opened"
     /\ UNCHANGED <<table, screenings>>
     /\ tasks'[t].at = Now /\ clock' = Now /\ tasks'[t].skip = SameHits(t)
  \/ /\ tasks[t].state = "opened" /\ tasks'[t].state = "done" /\ StoreUpdate(t)

LEMMA UpdateSteps ==
  ASSUME MonitoredInv, NEW t \in DOMAIN tasks, t.kind = "update", TaskStep(t)
  PROVE  UpdateMoves(t)
  <1>0. TasksTyped /\ tasks[t].state \notin {"registered", "tracked"}
    BY DEF MonitoredInv, TasksTyped, KindOfState
  <1>1. \A st : JobStep(t, st) => tasks'[t].state = st
    BY <1>0, StepStates
  <1>2. CASE StartJob(t) \/ JobFails(t) \/ JobRerun(t)
    BY <1>0, <1>2, StepStates DEF UpdateMoves
  <1>3. CASE CheckUpdate(t)
    <2>1. CASE monitored[t.object] /= t.monitoring \/ SameData(t) \/ ScreenedSince(t)
      <3>1. tasks'[t].state = "done"
        BY <1>1, <1>3, <2>1 DEF CheckUpdate
      <3> QED BY <1>3, <2>1, <3>1 DEF CheckUpdate, UpdateMoves, monitoringVars
    <2>2. CASE ~(monitored[t.object] /= t.monitoring \/ SameData(t) \/ ScreenedSince(t))
      <3>1. tasks'[t].state = "checked"
        BY <1>1, <1>3, <2>2 DEF CheckUpdate
      <3> QED BY <1>3, <2>2, <3>1 DEF CheckUpdate, UpdateMoves, monitoringVars
    <2> QED BY <2>1, <2>2
  <1>4. CASE OpenTransaction(t)
    <2>1. UNCHANGED <<table, screenings>> /\ clock' = Now /\ tasks[t].state = "checked"
      BY <1>4 DEF OpenTransaction, monitoringVars
    <2> QED BY <1>0, <1>4, <2>1, StepStates DEF UpdateMoves
  <1>5. CASE StoreUpdate(t)
    BY <1>1, <1>5 DEF StoreUpdate, UpdateMoves
  <1> QED BY <1>0, <1>2, <1>3, <1>4, <1>5
          DEF TaskStep, Register, TrackAddition, ScreenRegistered, EnsureTrack

\* Where a job comes from.
LEMMA JobBefore ==
  ASSUME MonitoredInv, [ScreeningNext]_screeningVars, NEW t \in DOMAIN tasks'
  PROVE  \/ t \in DOMAIN tasks /\ tasks'[t] = tasks[t]
         \/ t \in DOMAIN tasks /\ TaskStep(t)
         \/ t \notin DOMAIN tasks /\ tasks'[t] = QueuedTask
  <1>1. ASSUME NEW new, tasks' = Enqueued(new)
        PROVE  \/ t \in DOMAIN tasks /\ tasks'[t] = tasks[t]
               \/ t \notin DOMAIN tasks /\ tasks'[t] = QueuedTask
    BY <1>1 DEF Enqueued
  <1>2. ASSUME NEW u \in DOMAIN tasks, TaskStep(u)
        PROVE  t \in DOMAIN tasks /\ (t = u \/ tasks'[t] = tasks[t])
    BY <1>2, TaskMoves DEF Becomes, MonitoredInv, TasksTyped, CallsInv, Typed
  <1> QED BY <1>1, <1>2, TasksCases

\* A screening that a step stores: on request, for a registration or for a change.
NewScreening(o, s) ==
  /\ s = Len(screenings[o]) + 1
  /\ \/ /\ screenings'[o][s].trigger = "added" /\ screenings'[o][s].at = clock'
        /\ screenings'[o][s].inCase <=> screenings'[o][s].data \in Hits
     \/ \E t \in DOMAIN tasks :
          /\ StoreUpdate(t) /\ t.object = o /\ UNCHANGED <<table, clock>>
          /\ screenings'[o][s].trigger = "updated" /\ screenings'[o][s].version = t.new
          /\ screenings'[o][s].at = tasks[t].at
          /\ screenings'[o][s].data = DataOf(o, t.new)
          /\ screenings'[o][s].inCase <=> DataOf(o, t.new) \in Hits /\ ~tasks[t].skip

LEMMA ScreeningsGrow ==
  ASSUME MonitoredInv, [ScreeningNext]_screeningVars, NEW o \in Objects
  PROVE  /\ \A s \in DOMAIN screenings[o] :
              s \in DOMAIN screenings'[o] /\ screenings'[o][s] = screenings[o][s]
         /\ \A s \in DOMAIN screenings'[o] :
              s \in DOMAIN screenings[o] \/ NewScreening(o, s)
  <1>0. /\ DOMAIN screenings[o] = 1 .. Len(screenings[o]) /\ Len(screenings[o]) \in Nat
        /\ clock \in Nat
    BY ScreeningKnown DEF MonitoredInv, CallsInv, Typed
  <1>1. CASE UNCHANGED screenings
    BY <1>1
  <1>2. ASSUME NEW p \in Objects, NEW v \in Stored(p),
               StoreScreening(p, v, "added", Now, FALSE), clock' = Now, p = o
        PROVE  /\ \A s \in DOMAIN screenings[o] :
                    s \in DOMAIN screenings'[o] /\ screenings'[o][s] = screenings[o][s]
               /\ \A s \in DOMAIN screenings'[o] :
                    s \in DOMAIN screenings[o] \/ NewScreening(o, s)
    <2> DEFINE n == Len(screenings[o])
               new == Screening(o, v, "added", Now, DataOf(o, v) \in Hits /\ ~FALSE)
    <2>1. /\ DOMAIN screenings'[o] = 1 .. n + 1
          /\ \A s \in 1 .. n : screenings'[o][s] = screenings[o][s]
          /\ screenings'[o][n + 1] = new
      <3>1. Now \in Nat
        BY <1>0 DEF Now
      <3> QED BY <1>0, <1>2, <3>1, ScreeningAdded DEF MonitoredInv
    <2>2. /\ new.trigger = "added" /\ new.at = Now
          /\ new.inCase <=> new.data \in Hits
      BY DEF Screening
    <2> HIDE DEF new
    <2>3. NewScreening(o, n + 1)
      BY <1>2, <2>1, <2>2 DEF NewScreening
    <2> QED BY <1>0, <2>1, <2>3
  <1>3. ASSUME NEW p \in Objects, NEW v \in Stored(p),
               NEW trigger \in {"added", "updated"}, NEW at \in Nat, NEW skip \in BOOLEAN,
               StoreScreening(p, v, trigger, at, skip), p /= o
        PROVE  screenings'[o] = screenings[o]
    BY <1>3, ScreeningAdded DEF MonitoredInv
  <1>4. ASSUME NEW t \in DOMAIN tasks, StoreUpdate(t), t.object = o
        PROVE  /\ \A s \in DOMAIN screenings[o] :
                    s \in DOMAIN screenings'[o] /\ screenings'[o][s] = screenings[o][s]
               /\ \A s \in DOMAIN screenings'[o] :
                    s \in DOMAIN screenings[o] \/ NewScreening(o, s)
    <2> DEFINE n == Len(screenings[o])
               new == Screening(o, t.new, "updated", tasks[t].at,
                                DataOf(o, t.new) \in Hits /\ ~tasks[t].skip)
    <2>0. /\ StoreScreening(o, t.new, "updated", tasks[t].at, tasks[t].skip)
          /\ UNCHANGED <<table, clock>>
      BY <1>4 DEF StoreUpdate
    <2>1. /\ DOMAIN screenings'[o] = 1 .. n + 1
          /\ \A s \in 1 .. n : screenings'[o][s] = screenings[o][s]
          /\ screenings'[o][n + 1] = new
      BY <1>0, <1>4, <2>0, UpdateKnown, ScreeningAdded DEF MonitoredInv
    <2>2. /\ new.trigger = "updated" /\ new.at = tasks[t].at /\ new.version = t.new
          /\ new.data = DataOf(o, t.new)
          /\ new.inCase <=> DataOf(o, t.new) \in Hits /\ ~tasks[t].skip
      BY DEF Screening
    <2> HIDE DEF new
    <2>3. NewScreening(o, n + 1)
      BY <1>4, <2>0, <2>1, <2>2 DEF NewScreening
    <2> QED BY <1>0, <2>1, <2>3
  <1>5. ASSUME NEW t \in DOMAIN tasks, StoreUpdate(t), t.object /= o
        PROVE  screenings'[o] = screenings[o]
    BY <1>3, <1>5, UpdateKnown DEF StoreUpdate
  <1>6. Now \in Nat
    BY <1>0 DEF Now
  <1> QED BY <1>1, <1>2, <1>3, <1>4, <1>5, <1>6, ScreeningsCases

LEMMA UpdateKept ==
  ASSUME MonitoredInv, OnePerVersion, UpdateInv, [ScreeningNext]_screeningVars
  PROVE  UpdateInv'
  <1>0. MonitoredInv' /\ VersionsStay /\ clock \in Nat /\ clock' \in Nat /\ clock <= clock'
    <2>1. MonitoredInv'
      BY MonitoredKept
    <2>2. CallsInv /\ CallsInv'
      BY <2>1 DEF MonitoredInv
    <2> QED BY <2>1, <2>2, TableMoves DEF MonitoredInv, CallsInv, Typed
  <1>1. ASSUME NEW t \in DOMAIN tasks', tasks'[t].state \in {"checked", "opened"}
        PROVE  NotScreened(t)' /\ (tasks'[t].state = "opened" =>
                                      table'[t.object][t.new].from < tasks'[t].at)
    <2>0. t \in DOMAIN tasks /\ t.kind = "update"
      <3>1. t \in DOMAIN tasks
        BY <1>1, JobBefore DEF QueuedTask
      <3> QED BY <1>0, <1>1, <3>1 DEF MonitoredInv, KindOfState
    <2>1. /\ t.object \in Objects /\ t.new \in Stored(t.object)
          /\ table'[t.object][t.new].from = table[t.object][t.new].from
          /\ table[t.object][t.new].from \in Nat /\ table[t.object][t.new].from <= clock
      BY <1>0, <2>0, UpdateKnown, ScreeningKnown DEF VersionsStay, MonitoredInv, TimesPast
    <2>2. CASE tasks'[t] = tasks[t] /\ ~ StoreUpdate(t)
      <3>1. NotScreened(t) /\ (tasks[t].state = "opened" =>
                                  table[t.object][t.new].from < tasks[t].at)
        BY <1>1, <2>0, <2>2 DEF UpdateInv
      <3>2. ASSUME NEW s \in DOMAIN screenings'[t.object],
                   screenings'[t.object][s].trigger = "updated",
                   screenings'[t.object][s].version = t.new
            PROVE  FALSE
        <4>1. CASE s \in DOMAIN screenings[t.object]
          BY <2>1, <3>1, <3>2, <4>1, ScreeningsGrow DEF NotScreened
        <4>2. CASE NewScreening(t.object, s)
          <5>1. PICK u \in DOMAIN tasks :
                  /\ StoreUpdate(u) /\ u.object = t.object /\ u.new = t.new
            BY <3>2, <4>2 DEF NewScreening
          <5>2. u.kind = "update"
            BY <5>1 DEF StoreUpdate, MonitoredInv, KindOfState
          <5> QED BY <2>0, <2>2, <5>1, <5>2 DEF OnePerVersion
        <4> QED BY <2>1, <3>2, <4>1, <4>2, ScreeningsGrow
      <3> QED BY <2>1, <2>2, <3>1, <3>2 DEF NotScreened
    <2>3. CASE TaskStep(t)
      <3>1. UpdateMoves(t)
        BY <2>0, <2>3, UpdateSteps
      <3>2. CASE /\ tasks'[t].state = "checked" /\ ~ScreenedSince(t)
                 /\ UNCHANGED <<table, screenings>>
        <4>1. ASSUME NEW s \in DOMAIN screenings[t.object],
                     screenings[t.object][s].trigger = "updated",
                     screenings[t.object][s].version = t.new
              PROVE  FALSE
          <5>1. screenings[t.object][s].at > table[t.object][t.new].from
            <6>1. table[t.object][t.new].from < screenings[t.object][s].at
              BY <2>1, <4>1 DEF UpdateInv
            <6>2. screenings[t.object][s].at \in Nat
              BY <2>1, ScreeningKnown
            <6> QED BY <2>1, <6>1, <6>2
          <5> QED BY <2>0, <3>2, <5>1, SinceIs
        <4> QED BY <3>2, <4>1 DEF NotScreened
      <3>3. CASE /\ tasks[t].state = "checked" /\ tasks'[t].state = "opened"
                 /\ UNCHANGED <<table, screenings>>
                 /\ tasks'[t].at = Now /\ clock' = Now
        <4>1. NotScreened(t)
          BY <2>0, <3>3 DEF UpdateInv
        <4> QED BY <1>0, <2>1, <3>3, <4>1 DEF NotScreened, Now
      <3> QED BY <1>1, <3>1, <3>2, <3>3 DEF UpdateMoves
    <2>4. CASE StoreUpdate(t)
      BY <1>1, <2>0, <2>3, <2>4 DEF TaskStep
    <2> QED BY <1>1, <2>0, <2>2, <2>3, <2>4, JobBefore
  <1>2. ASSUME NEW o \in Objects, NEW s \in DOMAIN screenings'[o]
        PROVE  /\ screenings'[o][s].at <= clock'
               /\ screenings'[o][s].trigger = "updated" =>
                    /\ screenings'[o][s].version \in Stored(o)'
                    /\ table'[o][screenings'[o][s].version].from < screenings'[o][s].at
    <2>1. CASE s \in DOMAIN screenings[o]
      <3>1. /\ screenings'[o][s] = screenings[o][s] /\ screenings[o][s].at <= clock
            /\ screenings[o][s].at \in Nat
            /\ screenings[o][s].trigger = "updated" =>
                    /\ screenings[o][s].version \in Stored(o)
                    /\ table[o][screenings[o][s].version].from < screenings[o][s].at
        BY <2>1, ScreeningsGrow, ScreeningKnown DEF UpdateInv
      <3> QED BY <1>0, <3>1 DEF VersionsStay
    <2>2. CASE NewScreening(o, s)
      <3>1. CASE screenings'[o][s].trigger = "added" /\ screenings'[o][s].at = clock'
        BY <1>0, <3>1
      <3>2. ASSUME NEW t \in DOMAIN tasks, StoreUpdate(t), t.object = o,
                   UNCHANGED <<table, clock>>, screenings'[o][s].version = t.new,
                   screenings'[o][s].at = tasks[t].at
            PROVE  /\ screenings'[o][s].at <= clock'
                   /\ screenings'[o][s].version \in Stored(o)'
                   /\ table'[o][screenings'[o][s].version].from < screenings'[o][s].at
        <4>1. tasks[t].state = "opened"
          BY <3>2 DEF StoreUpdate
        <4>2. /\ t.new \in Stored(o) /\ tasks[t].at <= clock
              /\ table[o][t.new].from < tasks[t].at
          BY <3>2, <4>1, UpdateKnown DEF UpdateInv
        <4> QED BY <3>2, <4>2 DEF Stored
      <3> QED BY <2>2, <3>1, <3>2 DEF NewScreening
    <2> QED BY <1>2, <2>1, <2>2, ScreeningsGrow
  <1>3. ASSUME NEW t \in DOMAIN tasks', ChangeHandled(t)'
        PROVE  \E s \in DOMAIN screenings'[t.object] :
                 screenings'[t.object][s].at > table'[t.object][t.new].from
    <2>0. /\ t \in DOMAIN tasks /\ t.kind = "update" /\ tasks'[t].state = "done"
          /\ monitored'[t.object] = t.monitoring /\ ~SameData(t)'
      BY <1>3, JobBefore DEF ChangeHandled, QueuedTask
    <2>1. /\ t.object \in Objects /\ t.new \in Stored(t.object)
          /\ t.previous \in Stored(t.object) /\ t.monitoring /= 0
      BY <2>0, UpdateKnown DEF MonitoredInv, VersionsKnown
    <2>2. /\ table'[t.object][t.new].from = table[t.object][t.new].from
          /\ SameData(t)' <=> SameData(t)
      BY <1>0, <2>1 DEF VersionsStay, SameData, DataOf
    <2>3. monitored[t.object] = t.monitoring
      BY <2>0, <2>1, MonitoringFresh
    <2>4. CASE \E s \in DOMAIN screenings[t.object] :
                 screenings[t.object][s].at > table[t.object][t.new].from
      BY <2>1, <2>2, <2>4, ScreeningsGrow
    <2>5. CASE tasks'[t] = tasks[t]
      <3>1. ChangeHandled(t)
        BY <2>0, <2>2, <2>3, <2>5 DEF ChangeHandled
      <3> QED BY <2>0, <2>4, <3>1 DEF UpdateInv, UpdateScreened
    <2>6. CASE TaskStep(t)
      <3>1. UpdateMoves(t)
        BY <2>0, <2>6, UpdateSteps
      <3>2. CASE ScreenedSince(t)
        BY <2>0, <2>4, <3>2, SinceIs
      <3>3. CASE tasks[t].state = "opened" /\ StoreUpdate(t)
        <4> DEFINE s == Len(screenings[t.object]) + 1
        <4>1. StoreScreening(t.object, t.new, "updated", tasks[t].at, tasks[t].skip)
          BY <3>3 DEF StoreUpdate
        <4>2. s \in DOMAIN screenings'[t.object] /\ s \notin DOMAIN screenings[t.object]
          <5>1. /\ DOMAIN screenings'[t.object] = 1 .. s /\ s \in 1 .. s
                /\ DOMAIN screenings[t.object] = 1 .. Len(screenings[t.object])
                /\ Len(screenings[t.object]) \in Nat
            BY <2>0, <2>1, <4>1, UpdateKnown, ScreeningAdded, ScreeningKnown DEF MonitoredInv
          <5> QED BY <5>1
        <4> HIDE DEF s
        <4>3. /\ screenings'[t.object][s].at = tasks[t].at
          <5>1. screenings'[t.object][s] = Screening(t.object, t.new, "updated", tasks[t].at,
                  DataOf(t.object, t.new) \in Hits /\ ~tasks[t].skip)
            BY <2>0, <2>1, <4>1, UpdateKnown, ScreeningAdded DEF MonitoredInv, s
          <5> QED BY <5>1 DEF Screening
        <4>4. table[t.object][t.new].from < tasks[t].at
          BY <2>0, <3>3 DEF UpdateInv
        <4>5. tasks[t].at \in Nat /\ table[t.object][t.new].from \in Nat
          BY <2>0, <2>1, UpdateKnown, ScreeningKnown
        <4> QED BY <2>2, <4>2, <4>3, <4>4, <4>5
      <3> QED BY <2>0, <2>2, <2>3, <3>1, <3>2, <3>3 DEF UpdateMoves
    <2> QED BY <2>0, <2>5, <2>6, JobBefore
  <1>4. ASSUME NEW o \in Objects, NEW j \in DOMAIN screenings'[o],
               NEW k \in DOMAIN screenings'[o],
               screenings'[o][j].trigger = "updated", screenings'[o][k].trigger = "updated",
               screenings'[o][j].version = screenings'[o][k].version
        PROVE  j = k
    <2>1. CASE j \in DOMAIN screenings[o] /\ k \in DOMAIN screenings[o]
      BY <1>4, <2>1, ScreeningsGrow DEF UpdateInv, UpdateScreened
    <2>2. ASSUME NEW a \in DOMAIN screenings[o], NEW b \in DOMAIN screenings'[o],
                 NewScreening(o, b), screenings'[o][b].trigger = "updated",
                 screenings[o][a].trigger = "updated",
                 screenings[o][a].version = screenings'[o][b].version
          PROVE  FALSE
      <3>1. PICK t \in DOMAIN tasks :
              StoreUpdate(t) /\ t.object = o /\ screenings'[o][b].version = t.new
        BY <2>2 DEF NewScreening
      <3>2. NotScreened(t)
        BY <3>1 DEF StoreUpdate, UpdateInv
      <3> QED BY <2>2, <3>1, <3>2 DEF NotScreened
    <2>3. CASE NewScreening(o, j) /\ NewScreening(o, k)
      BY <2>3 DEF NewScreening
    <2>4. /\ j \in DOMAIN screenings[o] => screenings'[o][j] = screenings[o][j]
          /\ k \in DOMAIN screenings[o] => screenings'[o][k] = screenings[o][k]
          /\ j \in DOMAIN screenings[o] \/ NewScreening(o, j)
          /\ k \in DOMAIN screenings[o] \/ NewScreening(o, k)
      BY ScreeningsGrow
    <2> QED BY <1>4, <2>1, <2>2, <2>3, <2>4
  <1>5. UpdateScreened'
    BY <1>3, <1>4 DEF UpdateScreened
  <1> QED BY <1>1, <1>2, <1>5 DEF UpdateInv

\* The case of the matches of a job whose answer will open none.
HitsInv ==
  /\ CaseForHits
  /\ \A t \in DOMAIN tasks : tasks[t].state = "opened" /\ tasks[t].skip =>
       \E r \in DOMAIN screenings[t.object] :
         screenings[t.object][r].inCase /\ screenings[t.object][r].data = DataOf(t.object, t.new)

LEMMA SameHitsMeans ==
  ASSUME MonitoredInv, UpdateInv, NEW t \in DOMAIN tasks, SameHits(t)
  PROVE  \E r \in DOMAIN screenings[t.object] :
           /\ screenings[t.object][r].inCase
           /\ screenings[t.object][r].data = DataOf(t.object, t.new)
  <1> DEFINE inCase == {s \in Range(screenings[t.object]) : s.inCase}
  <1>0. t.object \in Objects /\ clock \in Nat
    BY UpdateKnown
  <1>1. \A r \in inCase : r.at \in Nat /\ r.at <= clock
    BY <1>0, ScreeningKnown DEF UpdateInv, Range
  <1>2. \A r \in inCase :
          r.inCase /\ \E s \in DOMAIN screenings[t.object] : r = screenings[t.object][s]
    BY DEF Range
  <1>3. inCase /= {} /\ Latest(inCase).data = DataOf(t.object, t.new)
    BY DEF SameHits
  <1> HIDE DEF inCase
  <1>4. Latest(inCase) \in inCase
    BY <1>0, <1>1, <1>3, LatestOf
  <1> QED BY <1>2, <1>3, <1>4

LEMMA HitsKept ==
  ASSUME MonitoredInv, OnePerVersion, UpdateInv, HitsInv, [ScreeningNext]_screeningVars
  PROVE  HitsInv'
  <1>0. MonitoredInv' /\ VersionsStay
    BY MonitoredKept, TableMoves DEF MonitoredInv
  <1>1. ASSUME NEW t \in DOMAIN tasks', tasks'[t].state = "opened", tasks'[t].skip
        PROVE  \E r \in DOMAIN screenings'[t.object] :
                 /\ screenings'[t.object][r].inCase
                 /\ screenings'[t.object][r].data = DataOf(t.object, t.new)'
    <2>0. t \in DOMAIN tasks /\ t.kind = "update"
      <3>1. t \in DOMAIN tasks
        BY <1>1, JobBefore DEF QueuedTask
      <3> QED BY <1>0, <1>1, <3>1 DEF MonitoredInv, KindOfState
    <2>1. /\ t.object \in Objects /\ t.new \in Stored(t.object)
          /\ DataOf(t.object, t.new)' = DataOf(t.object, t.new)
      BY <1>0, <2>0, UpdateKnown DEF VersionsStay, DataOf
    <2>2. \E r \in DOMAIN screenings[t.object] :
            /\ screenings[t.object][r].inCase
            /\ screenings[t.object][r].data = DataOf(t.object, t.new)
      <3>1. CASE tasks'[t] = tasks[t]
        BY <1>1, <2>0, <3>1 DEF HitsInv
      <3>2. CASE TaskStep(t)
        <4>1. SameHits(t)
          BY <1>1, <2>0, <3>2, UpdateSteps DEF UpdateMoves
        <4> QED BY <2>0, <4>1, SameHitsMeans
      <3> QED BY <2>0, <3>1, <3>2, JobBefore
    <2> QED BY <2>1, <2>2, ScreeningsGrow
  <1>2. ASSUME NEW o \in Objects, NEW s \in DOMAIN screenings'[o],
               screenings'[o][s].data \in Hits, ~screenings'[o][s].inCase
        PROVE  \E r \in 1 .. s - 1 : /\ screenings'[o][r].inCase
                                     /\ screenings'[o][r].data = screenings'[o][s].data
    <2>0. /\ DOMAIN screenings[o] = 1 .. Len(screenings[o]) /\ Len(screenings[o]) \in Nat
          /\ \A r \in DOMAIN screenings[o] : screenings'[o][r] = screenings[o][r]
      BY ScreeningKnown, ScreeningsGrow
    <2>1. CASE s \in DOMAIN screenings[o]
      <3>1. PICK r \in 1 .. s - 1 :
              screenings[o][r].inCase /\ screenings[o][r].data = screenings[o][s].data
        BY <1>2, <2>0, <2>1 DEF HitsInv, CaseForHits
      <3>2. r \in DOMAIN screenings[o]
        BY <2>0, <2>1
      <3> QED BY <2>0, <2>1, <3>1, <3>2
    <2>2. CASE NewScreening(o, s)
      <3>1. PICK t \in DOMAIN tasks :
              /\ StoreUpdate(t) /\ t.object = o
              /\ screenings'[o][s].data = DataOf(o, t.new) /\ tasks[t].skip
        BY <1>2, <2>2 DEF NewScreening
      <3>2. PICK r \in DOMAIN screenings[o] :
              screenings[o][r].inCase /\ screenings[o][r].data = DataOf(o, t.new)
        BY <3>1 DEF HitsInv, StoreUpdate
      <3>3. r \in 1 .. s - 1
        BY <2>0, <2>2, <3>2 DEF NewScreening
      <3> QED BY <2>0, <3>1, <3>2, <3>3
    <2> QED BY <2>1, <2>2, ScreeningsGrow
  <1> QED BY <1>1, <1>2 DEF HitsInv, CaseForHits

-----------------------------------------------------------------------------
(* The dataset and its tracks.                                             *)

TrackType == [object : Objects, version : Nat, at : Nat, filed : BOOLEAN, late : BOOLEAN]

BuildType == [pc : {"idle", "list", "commit", "close"}, now : Nat, content : [Objects -> Nat]]

\* An open transaction will store a track with a time of its own.
TracksInv ==
  /\ tracks \subseteq TrackType /\ dataset \in [Objects -> Nat] /\ build \in BuildType
  /\ build.now <= clock
  /\ \A r \in tracks : r.at <= clock /\ (r.filed => r.at < build.now)
  /\ \A r, s \in tracks : r.object = s.object /\ r.at = s.at => r = s
  /\ \A t \in DOMAIN tasks : tasks[t].state = "opened" =>
       /\ \A r \in TracksOf(t.object) : r.at /= tasks[t].at
       /\ \A u \in DOMAIN tasks :
            tasks[u].state = "opened" /\ u.object = t.object /\ tasks[u].at = tasks[t].at => u = t

FiledOf(o) == {r \in TracksOf(o) : r.filed}

UnfiledOf(o) == {r \in Unfiled : r.object = o}

NoneLate(o) == \A r \in TracksOf(o) : ~r.late

\* What is filed is older than what is not, and a build that has listed its tracks will
\* write the last of them.
FilesInv == \A o \in Objects : NoneLate(o) =>
  /\ \A f \in FiledOf(o) : \A r \in TracksOf(o) \ FiledOf(o) : f.at < r.at
  /\ dataset[o] = IF FiledOf(o) = {} THEN 0 ELSE Latest(FiledOf(o)).version
  /\ build.pc = "commit" =>
       build.content[o] = IF UnfiledOf(o) = {} THEN dataset[o] ELSE LastUnfiled(o).version

\* A job answers for each row of the client database.
RowsHaveJobs ==
  /\ \A o \in Objects : monitored[o] /= 0 => \E t \in DOMAIN tasks :
       /\ t.object = o
       /\ (t.kind = "ensure" /\ t.monitoring = monitored[o]) \/ t.kind = "register"
  /\ \A t \in DOMAIN tasks :
       /\ t.kind = "register" /\ tasks[t].state \in {"tracked", "done"} =>
            TracksOf(t.object) /= {}
       /\ t.kind = "ensure" => t.monitoring /= 0
       /\ t.kind = "ensure" /\ tasks[t].state = "done" /\ monitored[t.object] = t.monitoring =>
            TracksOf(t.object) /= {}

\* A step stores a track, or is one of a build, or leaves both alone.
StoresTrack(o, at) ==
  /\ UNCHANGED buildVars
  /\ UNCHANGED tracks \/ \E v \in Nat : tracks' = tracks \cup {Track(o, v, at)}
  /\ \A t \in DOMAIN tasks : ~OpenTransaction(t)
  /\ \/ at = Now /\ clock' = Now
     \/ \E t \in DOMAIN tasks : StoreUpdate(t) /\ t.object = o /\ at = tasks[t].at

LEMMA TracksCases ==
  ASSUME MonitoredInv, [ScreeningNext]_screeningVars
  PROVE  \/ UNCHANGED <<tracks, buildVars>>
         \/ \E o \in Objects, at \in Nat : StoresTrack(o, at)
         \/ BuildStep /\ UNCHANGED <<tasks, monitored>>
  <1>0. Now \in Nat /\ \A t \in DOMAIN tasks : t \in TaskType /\ tasks[t] \in TaskState
    BY UpdateKnown DEF Now, MonitoredInv, TasksTyped, CallsInv, Typed
  <1>1. ASSUME NEW t \in DOMAIN tasks, TaskStep(t)
        PROVE  \/ UNCHANGED <<tracks, buildVars>>
               \/ \E o \in Objects, at \in Nat : StoresTrack(o, at)
    <2>0. t.object \in Objects /\ t.new \in Nat /\ tasks[t].at \in Nat
      BY <1>0 DEF TaskType, TaskState
    <2>1. CASE StartJob(t) \/ JobFails(t) \/ JobRerun(t) \/ Register(t) \/ ScreenRegistered(t)
                 \/ CheckUpdate(t) \/ OpenTransaction(t)
      BY <2>1 DEF StartJob, JobFails, JobRerun, Register, ScreenRegistered, CheckUpdate,
                  OpenTransaction, datasetVars
    <2>2. CASE TrackAddition(t) \/ EnsureTrack(t)
      <3>1. UNCHANGED buildVars /\ clock' = Now /\ ~StoreUpdate(t)
        BY <2>2 DEF TrackAddition, EnsureTrack, StoreUpdate
      <3>2. UNCHANGED tracks \/ \E v \in Nat : tracks' = tracks \cup {Track(t.object, v, Now)}
        BY <2>0, <2>2 DEF TrackAddition, EnsureTrack, WithTrack
      <3>3. \A u \in DOMAIN tasks : ~OpenTransaction(u) \/ UNCHANGED tracks
        BY DEF OpenTransaction, datasetVars
      <3>4. CASE UNCHANGED tracks
        BY <3>1, <3>4
      <3>5. CASE \A u \in DOMAIN tasks : ~OpenTransaction(u)
        BY <1>0, <2>0, <3>1, <3>2, <3>5 DEF StoresTrack
      <3> QED BY <3>3, <3>4, <3>5
    <2>3. CASE StoreUpdate(t)
      <3>1. UNCHANGED buildVars
        BY <2>3 DEF StoreUpdate
      <3>2. \/ UNCHANGED tracks
            \/ \E v \in Nat : tracks' = tracks \cup {Track(t.object, v, tasks[t].at)}
        BY <2>0, <2>3 DEF StoreUpdate, WithTrack
      <3>3. \A u \in DOMAIN tasks : ~OpenTransaction(u) \/ UNCHANGED tracks
        BY DEF OpenTransaction, datasetVars
      <3>4. CASE UNCHANGED tracks
        BY <3>1, <3>4
      <3>5. CASE \A u \in DOMAIN tasks : ~OpenTransaction(u)
        BY <2>0, <2>3, <3>1, <3>2, <3>5 DEF StoresTrack
      <3> QED BY <3>3, <3>4, <3>5
    <2> QED BY <1>1, <2>1, <2>2, <2>3 DEF TaskStep
  <1>2. CASE RequestStep
    <2>1. CASE TrackDeletion
      <3>1. /\ UNCHANGED <<buildVars, tasks>> /\ clock' = Now /\ user.pc = "untrack"
            /\ tracks' = tracks \cup {Track(user.object, 0, Now)}
        BY <2>1 DEF TrackDeletion, WithDeletion
      <3>2. user.object \in Objects
        BY <3>1 DEF MonitoredInv, VersionsKnown
      <3>3. \A u \in DOMAIN tasks : ~OpenTransaction(u) \/ UNCHANGED tracks
        BY DEF OpenTransaction, datasetVars
      <3> QED BY <1>0, <3>1, <3>2, <3>3 DEF StoresTrack
    <2>2. CASE ~TrackDeletion
      BY <1>2, <2>2 DEF RequestStep, AskToMonitor, StopMonitoring, InsertMonitored,
                        AlreadyMonitored, ScreenOnRequest, RequestFails, datasetVars
    <2> QED BY <2>1, <2>2
  <1>3. CASE BuildStep
    BY <1>3 DEF BuildStep, StartBuild, NoPreviousFile, ListTracks, CommitBuild, CloseFile,
                BuildFails, ingestionVars
  <1> QED BY <1>1, <1>2, <1>3, ScreeningCases DEF datasetVars

\* Where an open transaction comes from.
LEMMA OpenedBefore ==
  ASSUME MonitoredInv, [ScreeningNext]_screeningVars, NEW t \in DOMAIN tasks',
         tasks'[t].state = "opened"
  PROVE  /\ t \in DOMAIN tasks /\ t.kind = "update"
         /\ \/ tasks'[t] = tasks[t] /\ ~StoreUpdate(t)
            \/ OpenTransaction(t) /\ tasks'[t].at = Now /\ clock' = Now
  <1>0. MonitoredInv'
    BY MonitoredKept
  <1>1. t \in DOMAIN tasks
    BY JobBefore DEF QueuedTask
  <1>2. t.kind = "update"
    BY <1>0, <1>1 DEF MonitoredInv, KindOfState
  <1>3. /\ \A st : JobStep(t, st) => st = "opened"
        /\ ~StartJob(t) /\ ~JobFails(t) /\ ~JobRerun(t)
        /\ OpenTransaction(t) => tasks'[t].at = Now /\ clock' = Now
    BY <1>1, StepStates DEF MonitoredInv, OpenTransaction
  <1>4. ~StoreUpdate(t)
    BY <1>3 DEF StoreUpdate
  <1>5. TaskStep(t) => OpenTransaction(t)
    BY <1>3, <1>4 DEF TaskStep, Register, TrackAddition, ScreenRegistered, EnsureTrack,
                      CheckUpdate
  <1> QED BY <1>1, <1>2, <1>3, <1>4, <1>5, JobBefore

LEMMA TracksKept ==
  ASSUME MonitoredInv, TracksInv, [ScreeningNext]_screeningVars
  PROVE  TracksInv'
  <1>0. /\ clock \in Nat /\ clock' \in Nat /\ clock <= clock' /\ Now \in Nat /\ Now > clock
        /\ \A r \in tracks : r \in TrackType /\ r.at \in Nat
        /\ build.now \in Nat
    BY TableMoves DEF MonitoredInv, CallsInv, Typed, Now, TracksInv, TrackType, BuildType
  <1>1. ASSUME NEW t \in DOMAIN tasks', tasks'[t].state = "opened"
        PROVE  /\ t \in DOMAIN tasks
               /\ \A r \in TracksOf(t.object) : r.at /= tasks'[t].at
               /\ \A u \in DOMAIN tasks' :
                    /\ tasks'[u].state = "opened" /\ u.object = t.object
                    /\ tasks'[u].at = tasks'[t].at
                    => u = t
    <2> DEFINE Before(u) == u \in DOMAIN tasks /\ tasks'[u] = tasks[u]
               Opens(u) == u \in DOMAIN tasks /\ OpenTransaction(u) /\ tasks'[u].at = Now
    <2>1. \A u \in DOMAIN tasks' : tasks'[u].state = "opened" => Before(u) \/ Opens(u)
      BY OpenedBefore
    <2>2. \A u \in DOMAIN tasks : tasks[u].at \in Nat /\ tasks[u].at <= clock
      BY UpdateKnown
    <2>3. \A u, w \in DOMAIN tasks : OpenTransaction(u) /\ u /= w => tasks'[w] = tasks[w]
      BY DEF OpenTransaction, MonitoredInv, TasksTyped
    <2>4. \A r \in TracksOf(t.object) : r \in tracks /\ r.at <= clock /\ r.at \in Nat
      BY <1>0 DEF TracksInv, TracksOf
    <2>5. \A u, w \in DOMAIN tasks : OpenTransaction(u) /\ OpenTransaction(w) => u = w
      <3> SUFFICES ASSUME NEW u \in DOMAIN tasks, NEW w \in DOMAIN tasks, OpenTransaction(u),
                          OpenTransaction(w), u /= w
                   PROVE  FALSE
        OBVIOUS
      <3>1. tasks'[u] = tasks[u]
        BY <2>3
      <3>2. tasks'[u].state = "opened" /\ tasks[u].state = "checked"
        BY StepStates DEF MonitoredInv, OpenTransaction
      <3> QED BY <3>1, <3>2
    <2>6. ASSUME NEW u \in DOMAIN tasks', tasks'[u].state = "opened", u.object = t.object,
                 tasks'[u].at = tasks'[t].at
          PROVE  u = t
      <3>1. CASE Before(t) /\ Before(u)
        BY <1>1, <2>6, <3>1 DEF TracksInv
      <3>2. CASE Opens(t) /\ Opens(u)
        BY <2>5, <3>2
      <3>3. CASE (Opens(t) /\ Before(u)) \/ (Before(t) /\ Opens(u))
        BY <1>0, <2>2, <2>6, <3>3
      <3> QED BY <1>1, <2>1, <2>6, <3>1, <3>2, <3>3
    <2>7. ASSUME NEW r \in TracksOf(t.object), r.at = tasks'[t].at
          PROVE  FALSE
      <3>1. CASE Before(t)
        BY <1>1, <2>7, <3>1 DEF TracksInv
      <3>2. CASE Opens(t)
        BY <1>0, <2>4, <2>7, <3>2
      <3> QED BY <1>1, <2>1, <3>1, <3>2
    <2> QED BY <1>1, <2>1, <2>6, <2>7
  <1>2. CASE UNCHANGED <<tracks, buildVars>>
    <2>1. /\ tracks' = tracks /\ dataset' = dataset /\ build' = build
          /\ \A o \in Objects : TracksOf(o)' = TracksOf(o)
      BY <1>2 DEF buildVars, TracksOf
    <2>2. \A t \in DOMAIN tasks' : tasks'[t].state = "opened" => t.object \in Objects
      BY <1>1, UpdateKnown
    <2>3. /\ build.now <= clock' /\ \A r \in tracks : r.at <= clock'
      BY <1>0 DEF TracksInv
    <2> QED BY <1>1, <2>1, <2>2, <2>3 DEF TracksInv
  <1>3. ASSUME NEW o \in Objects, NEW at \in Nat, StoresTrack(o, at), ~UNCHANGED tracks
        PROVE  TracksInv'
    <2>1. PICK v \in Nat : tracks' = tracks \cup {Track(o, v, at)}
      BY <1>3 DEF StoresTrack
    <2> DEFINE new == Track(o, v, at)
    <2>2. /\ new \in TrackType /\ new.object = o /\ new.at = at /\ ~new.filed
      <3>1. (at < build.now) \in BOOLEAN
        OBVIOUS
      <3> QED BY <3>1 DEF Track, TrackType
    <2>3. UNCHANGED <<dataset, build>> /\ \A t \in DOMAIN tasks : ~OpenTransaction(t)
      BY <1>3 DEF StoresTrack, buildVars
    <2>4. at <= clock'
      <3>1. \A t \in DOMAIN tasks : tasks[t].at \in Nat /\ tasks[t].at <= clock
        BY UpdateKnown
      <3> QED BY <1>0, <1>3, <3>1 DEF StoresTrack
    <2>5. \A r \in TracksOf(o) : r.at /= at
      <3>1. CASE at = Now
        BY <1>0, <3>1 DEF TracksInv, TracksOf
      <3>2. ASSUME NEW t \in DOMAIN tasks, StoreUpdate(t), t.object = o, at = tasks[t].at
            PROVE  \A r \in TracksOf(o) : r.at /= at
        BY <3>2 DEF StoreUpdate, TracksInv
      <3> QED BY <1>3, <3>1, <3>2 DEF StoresTrack
    <2>6. ASSUME NEW t \in DOMAIN tasks', tasks'[t].state = "opened", t.object = o
          PROVE  tasks'[t].at /= at
      <3>1. t \in DOMAIN tasks /\ tasks'[t] = tasks[t] /\ ~StoreUpdate(t)
        BY <2>3, <2>6, OpenedBefore
      <3>2. CASE at = Now
        <4>1. tasks[t].at \in Nat /\ tasks[t].at <= clock
          BY <3>1, UpdateKnown
        <4> QED BY <1>0, <3>1, <3>2, <4>1
      <3>3. ASSUME NEW u \in DOMAIN tasks, StoreUpdate(u), u.object = o, at = tasks[u].at
            PROVE  tasks'[t].at /= at
        BY <2>6, <3>1, <3>3 DEF StoreUpdate, TracksInv
      <3> QED BY <1>3, <3>2, <3>3 DEF StoresTrack
    <2> HIDE DEF new
    <2>7. tracks' = tracks \cup {new}
      BY <2>1 DEF new
    <2>8. /\ tracks' \subseteq TrackType /\ dataset' \in [Objects -> Nat] /\ build' \in BuildType
          /\ build'.now <= clock'
      BY <1>0, <2>2, <2>3, <2>7 DEF TracksInv
    <2>9. \A r \in tracks' : r.at <= clock' /\ (r.filed => r.at < build'.now)
      <3>1. \A r \in tracks : r.at <= clock'
        BY <1>0 DEF TracksInv
      <3> QED BY <2>2, <2>3, <2>4, <2>7, <3>1 DEF TracksInv
    <2>10. \A r, s \in tracks' : r.object = s.object /\ r.at = s.at => r = s
      BY <2>2, <2>5, <2>7 DEF TracksInv, TracksOf
    <2>11. ASSUME NEW t \in DOMAIN tasks', tasks'[t].state = "opened",
                  NEW r \in TracksOf(t.object)'
           PROVE  r.at /= tasks'[t].at
      BY <1>1, <2>2, <2>6, <2>7, <2>11 DEF TracksOf
    <2> QED BY <1>1, <2>8, <2>9, <2>10, <2>11 DEF TracksInv
  <1>4. CASE BuildStep /\ UNCHANGED tasks /\ ~CommitBuild
    <2>1. /\ UNCHANGED <<tracks, dataset>> /\ build' \in BuildType
          /\ build'.now \in Nat /\ build'.now <= clock' /\ build.now <= build'.now
      <3>1. build \in BuildType
        BY DEF TracksInv
      <3>2. CASE StartBuild
        <4>1. PICK now \in Nat : now = Now /\ clock' = now
          BY <1>0, <3>2 DEF StartBuild
        <4>2. build' = [build EXCEPT !.pc = "list", !.now = now] /\ UNCHANGED <<tracks, dataset>>
          BY <3>2, <4>1 DEF StartBuild
        <4>3. build' \in BuildType /\ build'.now = now
          BY <3>1, <4>2 DEF BuildType
        <4>4. build.now <= clock
          BY DEF TracksInv
        <4> QED BY <1>0, <4>1, <4>2, <4>3, <4>4
      <3>3. CASE NoPreviousFile \/ CloseFile \/ BuildFails
        BY <1>0, <3>1, <3>3 DEF NoPreviousFile, CloseFile, BuildFails, BuildType, TracksInv,
                                ingestionVars
      <3>4. CASE ListTracks
        <4> DEFINE content == [o \in Objects |->
              IF \E t \in Unfiled : t.object = o THEN LastUnfiled(o).version ELSE dataset[o]]
        <4>1. content \in [Objects -> Nat]
          <5> SUFFICES ASSUME NEW o \in Objects, \E t \in Unfiled : t.object = o
                       PROVE  LastUnfiled(o).version \in Nat
            BY DEF TracksInv
          <5>1. {t \in Unfiled : t.object = o} /= {}
            OBVIOUS
          <5>2. \A t \in {u \in Unfiled : u.object = o} :
                  t \in TrackType /\ t.at \in Nat /\ t.at <= clock
            BY <1>0 DEF Unfiled, TracksInv
          <5>3. LastUnfiled(o) \in {t \in Unfiled : t.object = o}
            BY <1>0, <5>1, <5>2, LatestOf DEF LastUnfiled
          <5> QED BY <5>2, <5>3 DEF TrackType
        <4> HIDE DEF content
        <4>2. \/ build' = [build EXCEPT !.pc = "idle"]
              \/ build' = [build EXCEPT !.pc = "commit", !.content = content]
          BY <3>4 DEF ListTracks, content
        <4>3. UNCHANGED <<tracks, dataset, clock>>
          BY <3>4 DEF ListTracks, ingestionVars
        <4>4. build' \in BuildType /\ build'.now = build.now
          BY <3>1, <4>1, <4>2 DEF BuildType
        <4>5. build.now <= clock
          BY DEF TracksInv
        <4> QED BY <1>0, <4>3, <4>4, <4>5
      <3> QED BY <1>4, <3>2, <3>3, <3>4 DEF BuildStep
    <2>2. \A o \in Objects : TracksOf(o)' = TracksOf(o)
      BY <2>1 DEF TracksOf
    <2>3. \A t \in DOMAIN tasks' : tasks'[t].state = "opened" => t.object \in Objects
      BY <1>1, UpdateKnown
    <2>4. \A r \in tracks : r.at <= clock' /\ (r.filed => r.at < build'.now)
      BY <1>0, <2>1 DEF TracksInv
    <2> QED BY <1>1, <2>1, <2>2, <2>3, <2>4 DEF TracksInv
  <1>5. CASE CommitBuild /\ UNCHANGED tasks
    <2>1. /\ dataset' = build.content /\ tracks' = Filed /\ clock' = clock
          /\ build' = [build EXCEPT !.pc = "close"]
      BY <1>5 DEF CommitBuild, ingestionVars
    <2>2. /\ dataset' \in [Objects -> Nat] /\ build' \in BuildType /\ build'.now = build.now
          /\ build'.now <= clock'
      BY <2>1 DEF TracksInv, BuildType
    <2>3. ASSUME NEW r \in tracks'
          PROVE  \E s \in tracks : /\ r \in TrackType /\ r.object = s.object /\ r.at = s.at
                                   /\ r = [s EXCEPT !.filed = @ \/ s.at < build.now]
                                   /\ r.filed <=> s.filed \/ s.at < build.now
      <3>1. PICK s \in tracks : r = [s EXCEPT !.filed = @ \/ s.at < build.now]
        BY <2>1, <2>3 DEF Filed
      <3>2. s \in TrackType
        BY <1>0
      <3> QED BY <3>1, <3>2 DEF TrackType
    <2>4. \A r \in tracks' : r \in TrackType /\ r.at <= clock' /\ (r.filed => r.at < build'.now)
      BY <2>1, <2>2, <2>3 DEF TracksInv
    <2>5. \A r, s \in tracks' : r.object = s.object /\ r.at = s.at => r = s
      BY <2>3 DEF TracksInv
    <2>6. ASSUME NEW t \in DOMAIN tasks', tasks'[t].state = "opened",
                 NEW r \in TracksOf(t.object)'
          PROVE  r.at /= tasks'[t].at
      BY <1>1, <2>3, <2>6 DEF TracksOf
    <2> QED BY <1>1, <2>2, <2>4, <2>5, <2>6 DEF TracksInv
  <1> QED BY <1>2, <1>3, <1>4, <1>5, TracksCases DEF StoresTrack

LEMMA FilesKept ==
  ASSUME MonitoredInv, TracksInv, FilesInv, [ScreeningNext]_screeningVars
  PROVE  FilesInv'
  <1>0. /\ TracksInv' /\ clock \in Nat /\ build.now \in Nat
        /\ \A r \in tracks : r \in TrackType /\ r.at \in Nat /\ r.at <= clock
    BY TracksKept DEF MonitoredInv, CallsInv, Typed, TracksInv, TrackType, BuildType
  <1>1. ASSUME NEW o \in Objects, FiledOf(o)' = FiledOf(o), UnfiledOf(o)' = UnfiledOf(o),
               NoneLate(o)' => NoneLate(o), UNCHANGED <<dataset, build>>, NoneLate(o)',
               \A r \in TracksOf(o)' : r \in TracksOf(o) \/ r.at >= build.now
        PROVE  /\ \A f \in FiledOf(o)' : \A r \in TracksOf(o)' \ FiledOf(o)' : f.at < r.at
               /\ dataset'[o] = IF FiledOf(o)' = {} THEN 0 ELSE Latest(FiledOf(o)').version
               /\ build'.pc = "commit" =>
                    build'.content[o] = IF UnfiledOf(o)' = {} THEN dataset'[o]
                                        ELSE Latest(UnfiledOf(o)').version
    <2>1. ASSUME NEW f \in FiledOf(o), NEW r \in TracksOf(o)', r \notin FiledOf(o)
          PROVE  f.at < r.at
      <3>1. CASE r \in TracksOf(o)
        BY <1>1, <2>1, <3>1 DEF FilesInv
      <3>2. CASE r.at >= build.now
        <4>1. f.at < build.now /\ f.at \in Nat
          BY <1>0 DEF FiledOf, TracksOf, TracksInv
        <4>2. r.at \in Nat
          BY <1>0 DEF TracksOf, TracksInv, TrackType
        <4> QED BY <1>0, <3>2, <4>1, <4>2
      <3> QED BY <1>1, <3>1, <3>2
    <2>2. /\ dataset[o] = IF FiledOf(o) = {} THEN 0 ELSE Latest(FiledOf(o)).version
          /\ build.pc = "commit" =>
               build.content[o] = IF UnfiledOf(o) = {} THEN dataset[o]
                                  ELSE Latest(UnfiledOf(o)).version
      BY <1>1 DEF FilesInv, LastUnfiled, UnfiledOf
    <2> QED BY <1>1, <2>1, <2>2
  <1>2. CASE UNCHANGED <<tracks, buildVars>>
    <2>1. ASSUME NEW o \in Objects
          PROVE  /\ FiledOf(o)' = FiledOf(o) /\ UnfiledOf(o)' = UnfiledOf(o)
                 /\ NoneLate(o)' => NoneLate(o)
                 /\ TracksOf(o)' = TracksOf(o)
      BY <1>2 DEF FiledOf, UnfiledOf, NoneLate, TracksOf, Unfiled, buildVars
    <2>2. UNCHANGED <<dataset, build>>
      BY <1>2 DEF buildVars
    <2> QED BY <1>1, <2>1, <2>2 DEF FilesInv, LastUnfiled, UnfiledOf
  <1>3. ASSUME NEW p \in Objects, NEW at \in Nat, StoresTrack(p, at), ~UNCHANGED tracks
        PROVE  FilesInv'
    <2>1. PICK v \in Nat : tracks' = tracks \cup {Track(p, v, at)}
      BY <1>3 DEF StoresTrack
    <2>2. /\ Track(p, v, at).object = p /\ Track(p, v, at).at = at /\ ~Track(p, v, at).filed
          /\ Track(p, v, at).late <=> at < build.now
      BY DEF Track
    <2>3. UNCHANGED <<dataset, build>>
      BY <1>3 DEF StoresTrack, buildVars
    <2>4. ASSUME NEW o \in Objects, NoneLate(o)'
          PROVE  /\ FiledOf(o)' = FiledOf(o) /\ UnfiledOf(o)' = UnfiledOf(o)
                 /\ NoneLate(o)
                 /\ \A r \in TracksOf(o)' : r \in TracksOf(o) \/ r.at >= build.now
      <3> DEFINE new == Track(p, v, at)
      <3> HIDE DEF new
      <3>1. tracks' = tracks \cup {new} /\ new.object = p /\ new.at = at /\ ~new.filed
        BY <2>1, <2>2 DEF new
      <3>2. p = o => at >= build.now
        <4>1. p = o => ~new.late
          BY <2>4, <3>1 DEF NoneLate, TracksOf
        <4> QED BY <1>0, <2>2, <4>1 DEF new
      <3>3. p = o => ~(at < build.now)
        BY <1>0, <3>2
      <3>4. FiledOf(o)' = FiledOf(o)
        BY <3>1 DEF FiledOf, TracksOf
      <3>5. UnfiledOf(o)' = UnfiledOf(o)
        BY <2>3, <3>1, <3>3 DEF UnfiledOf, Unfiled
      <3>6. NoneLate(o)
        BY <2>4, <3>1 DEF NoneLate, TracksOf
      <3>7. \A r \in TracksOf(o)' : r \in TracksOf(o) \/ r.at >= build.now
        BY <3>1, <3>2 DEF TracksOf
      <3> QED BY <3>4, <3>5, <3>6, <3>7
    <2> QED BY <1>1, <2>3, <2>4 DEF FilesInv, LastUnfiled, UnfiledOf
  <1>4. CASE BuildStep /\ ~CommitBuild
    <2>1. UNCHANGED <<tracks, dataset>>
      BY <1>4 DEF BuildStep, StartBuild, NoPreviousFile, ListTracks, CloseFile, BuildFails
    <2>2. ASSUME NEW o \in Objects
          PROVE  /\ FiledOf(o)' = FiledOf(o) /\ TracksOf(o)' = TracksOf(o)
                 /\ NoneLate(o)' = NoneLate(o)
      BY <2>1 DEF FiledOf, NoneLate, TracksOf
    <2>3. ASSUME build'.pc = "commit", NEW o \in Objects
          PROVE  build'.content[o] = IF UnfiledOf(o)' = {} THEN dataset'[o]
                                     ELSE Latest(UnfiledOf(o)').version
      <3> DEFINE content == [x \in Objects |->
            IF \E t \in Unfiled : t.object = x THEN LastUnfiled(x).version ELSE dataset[x]]
      <3>0. build \in BuildType
        BY DEF TracksInv
      <3>1. build' = [build EXCEPT !.pc = "commit", !.content = content]
        BY <1>4, <2>3, <3>0 DEF BuildStep, StartBuild, NoPreviousFile, ListTracks, CloseFile,
                                BuildFails, BuildType
      <3>2. content[o] = IF UnfiledOf(o) = {} THEN dataset[o] ELSE Latest(UnfiledOf(o)).version
        BY DEF UnfiledOf, LastUnfiled
      <3> HIDE DEF content
      <3>3. build'.now = build.now /\ build'.content = content
        BY <3>0, <3>1 DEF BuildType
      <3>4. UnfiledOf(o)' = UnfiledOf(o)
        BY <2>1, <3>3 DEF UnfiledOf, Unfiled
      <3> QED BY <2>1, <3>2, <3>3, <3>4
    <2> QED BY <2>1, <2>2, <2>3 DEF FilesInv, LastUnfiled, UnfiledOf
  <1>5. CASE CommitBuild
    <2> SUFFICES ASSUME NEW o \in Objects, NoneLate(o)'
                 PROVE  /\ \A f \in FiledOf(o)' :
                             \A r \in TracksOf(o)' \ FiledOf(o)' : f.at < r.at
                        /\ dataset'[o] = IF FiledOf(o)' = {} THEN 0
                                         ELSE Latest(FiledOf(o)').version
                        /\ build'.pc /= "commit"
      BY DEF FilesInv
    <2> DEFINE Image(s) == [s EXCEPT !.filed = @ \/ s.at < build.now]
    <2>1. /\ dataset' = build.content /\ build.pc = "commit"
          /\ build'.now = build.now /\ build'.pc = "close"
      BY <1>5 DEF CommitBuild, TracksInv, BuildType
    <2>2. tracks' = {Image(s) : s \in tracks}
      BY <1>5 DEF CommitBuild, Filed
    <2>3. ASSUME NEW s \in tracks
          PROVE  /\ Image(s).object = s.object /\ Image(s).at = s.at
                 /\ Image(s).version = s.version /\ Image(s).late = s.late
                 /\ Image(s).filed <=> s.filed \/ s.at < build.now
                 /\ s.filed \/ ~(s.at < build.now) => Image(s) = s
      <3>1. s \in TrackType
        BY <1>0
      <3>2. (s.filed \/ s.at < build.now) \in BOOLEAN /\ s.filed \in BOOLEAN
        BY <3>1 DEF TrackType
      <3> DEFINE b == s.filed \/ s.at < build.now
      <3>3. Image(s) = [s EXCEPT !.filed = b] /\ b \in BOOLEAN
        BY <3>2
      <3>4. s.filed \/ ~(s.at < build.now) => b = s.filed
        BY <3>2
      <3>5. b <=> s.filed \/ s.at < build.now
        OBVIOUS
      <3> HIDE DEF b, Image
      <3> QED BY <3>1, <3>3, <3>4, <3>5 DEF TrackType
    <2> HIDE DEF Image
    <2>4. NoneLate(o)
      <3>1. ASSUME NEW s \in TracksOf(o)
            PROVE  ~s.late
        <4>1. s \in tracks /\ s.object = o
          BY DEF TracksOf
        <4>2. Image(s) \in TracksOf(o)'
          BY <2>2, <2>3, <4>1 DEF TracksOf
        <4> QED BY <2>3, <4>1, <4>2 DEF NoneLate
      <3> QED BY <3>1 DEF NoneLate
    <2>5. \A f \in FiledOf(o)' : \A r \in TracksOf(o)' \ FiledOf(o)' : f.at < r.at
      <3> SUFFICES ASSUME NEW f \in FiledOf(o)', NEW r \in TracksOf(o)', r \notin FiledOf(o)'
                   PROVE  f.at < r.at
        OBVIOUS
      <3>1. f \in tracks' /\ f.filed
        BY DEF FiledOf, TracksOf
      <3>2. f.at < build.now /\ f.at \in Nat
        BY <1>0, <2>1, <3>1 DEF TracksInv, TrackType
      <3>3. r \in tracks' /\ ~r.filed /\ r.at \in Nat
        BY <1>0 DEF FiledOf, TracksOf, TracksInv, TrackType
      <3>4. ~(r.at < build.now)
        BY <2>2, <2>3, <3>3
      <3> QED BY <1>0, <3>2, <3>3, <3>4
    <2>6. dataset'[o] = IF FiledOf(o)' = {} THEN 0 ELSE Latest(FiledOf(o)').version
      <3>0. dataset'[o] = IF UnfiledOf(o) = {} THEN dataset[o] ELSE LastUnfiled(o).version
        BY <2>1, <2>4 DEF FilesInv
      <3>1. CASE UnfiledOf(o) = {}
        <4>1. \A s \in TracksOf(o) : s \in tracks /\ Image(s) = s
          BY <2>3, <3>1 DEF UnfiledOf, Unfiled, TracksOf
        <4>2. TracksOf(o)' = TracksOf(o)
          BY <2>2, <2>3, <4>1 DEF TracksOf
        <4>3. FiledOf(o)' = FiledOf(o)
          BY <4>2 DEF FiledOf
        <4> QED BY <2>4, <3>0, <3>1, <4>3 DEF FilesInv
      <3>2. CASE UnfiledOf(o) /= {}
        <4> DEFINE u == LastUnfiled(o)
        <4>1. \A s \in UnfiledOf(o) : s \in tracks /\ s.object = o /\ ~s.filed /\ s.at < build.now
          BY DEF UnfiledOf, Unfiled
        <4>2. u \in UnfiledOf(o) /\ \A s \in UnfiledOf(o) : s.at <= u.at
          <5>1. u = Latest(UnfiledOf(o))
            BY DEF LastUnfiled, UnfiledOf
          <5> HIDE DEF u
          <5> QED BY <1>0, <3>2, <4>1, <5>1, LatestOf
        <4> HIDE DEF u
        <4>3. /\ u \in tracks /\ u.at \in Nat /\ u \in TracksOf(o) \ FiledOf(o)
              /\ Image(u) \in FiledOf(o)'
              /\ Image(u).at = u.at /\ Image(u).version = u.version
          BY <1>0, <2>2, <2>3, <4>1, <4>2 DEF FiledOf, TracksOf
        <4>4. ASSUME NEW x \in FiledOf(o)', x /= Image(u)
              PROVE  x.at < u.at
          <5>1. PICK s \in tracks : x = Image(s)
            BY <2>2 DEF FiledOf, TracksOf
          <5>2. /\ s.object = o /\ x.at = s.at /\ s /= u /\ s.at \in Nat
                /\ s.filed \/ s.at < build.now
            BY <1>0, <2>3, <4>4, <5>1 DEF FiledOf, TracksOf
          <5>3. CASE s.filed
            <6>1. s \in FiledOf(o)
              BY <5>2, <5>3 DEF FiledOf, TracksOf
            <6> QED BY <2>4, <4>3, <5>2, <6>1 DEF FilesInv
          <5>4. CASE ~s.filed
            <6>1. s \in UnfiledOf(o)
              BY <5>2, <5>4 DEF UnfiledOf, Unfiled
            <6>2. s.at /= u.at
              BY <4>1, <4>2, <5>2 DEF TracksInv
            <6> QED BY <4>2, <4>3, <5>2, <6>1, <6>2
          <5> QED BY <5>3, <5>4
        <4>5. \A x \in FiledOf(o)' : x.at \in Nat /\ x.at <= clock
          <5>1. \A x \in FiledOf(o)' : \E s \in tracks : x = Image(s)
            BY <2>2 DEF FiledOf, TracksOf
          <5> QED BY <1>0, <2>3, <5>1
        <4>6. Latest(FiledOf(o)') = Image(u)
          BY <1>0, <4>3, <4>4, <4>5, LatestIs
        <4> QED BY <3>0, <3>2, <4>3, <4>6 DEF u
      <3> QED BY <3>1, <3>2
    <2> QED BY <2>1, <2>5, <2>6
  <1> QED BY <1>2, <1>3, <1>4, <1>5, TracksCases DEF StoresTrack, BuildStep

\* A track is only ever filed.
LEMMA TracksStay ==
  ASSUME MonitoredInv, [ScreeningNext]_screeningVars, NEW o, TracksOf(o) /= {}
  PROVE  TracksOf(o)' /= {}
  <1>1. CASE tracks \subseteq tracks'
    BY <1>1 DEF TracksOf
  <1>2. CASE CommitBuild
    <2>1. PICK r \in tracks : r.object = o
      BY DEF TracksOf
    <2>2. [r EXCEPT !.filed = @ \/ r.at < build.now] \in tracks'
      BY <1>2 DEF CommitBuild, Filed
    <2>3. [r EXCEPT !.filed = @ \/ r.at < build.now].object = o
      BY <2>1
    <2> QED BY <2>2, <2>3 DEF TracksOf
  <1>3. CASE BuildStep /\ ~CommitBuild
    BY <1>1, <1>3 DEF BuildStep, StartBuild, NoPreviousFile, ListTracks, CloseFile, BuildFails
  <1> QED BY <1>1, <1>2, <1>3, TracksCases DEF StoresTrack

LEMMA RowsCases ==
  ASSUME MonitoredInv, [ScreeningNext]_screeningVars, NEW o \in Objects
  PROVE  \/ monitored'[o] \in {monitored[o], 0}
         \/ /\ InsertMonitored /\ user.object = o /\ monitored'[o] = Now
            /\ tasks' = Enqueued({EnsureTask(user.object, user.version, Now)})
         \/ \E t \in DOMAIN tasks : Register(t) /\ t.object = o
  <1>0. monitored \in [Objects -> Nat]
    BY DEF MonitoredInv, CallsInv, Typed
  <1>1. CASE RequestStep
    <2>1. CASE InsertMonitored
      BY <1>0, <2>1 DEF InsertMonitored
    <2>2. CASE ~InsertMonitored
      BY <1>0, <1>1, <2>2 DEF RequestStep, AskToMonitor, StopMonitoring, AlreadyMonitored,
                              ScreenOnRequest, RequestFails, TrackDeletion, ingestionVars
    <2> QED BY <2>1, <2>2
  <1>2. ASSUME NEW t \in DOMAIN tasks, TaskStep(t)
        PROVE  \/ monitored'[o] = monitored[o]
               \/ Register(t) /\ t.object = o
    <2>1. CASE Register(t)
      BY <1>0, <2>1 DEF Register
    <2>2. CASE ~Register(t)
      BY <1>2, <2>2 DEF TaskStep, StartJob, JobFails, JobRerun, TrackAddition, ScreenRegistered,
                        EnsureTrack, CheckUpdate, OpenTransaction, StoreUpdate
    <2> QED BY <2>1, <2>2
  <1>3. CASE BuildStep
    BY <1>3 DEF BuildStep, StartBuild, NoPreviousFile, ListTracks, CommitBuild, CloseFile,
                BuildFails, ingestionVars
  <1>4. CASE \E i \in Ingesters :
            \/ \E rows \in Payloads, m, s \in BOOLEAN : Call(i, rows, m, s)
            \/ IngestionStep(i)
    BY <1>4 DEF Call, IngestionStep, LoadVersions, StoreVersions, RejectRows,
                RetryOnConflict, TransactionFails, ReadMonitored, EnqueueScreenings
  <1> QED BY <1>1, <1>2, <1>3, <1>4, ScreeningCases DEF ingestionVars

\* What is left once a job that adds an object to the dataset is done.
LEMMA AddingDone ==
  ASSUME MonitoredInv, RowsHaveJobs, NEW t \in DOMAIN tasks, TaskStep(t)
  PROVE  /\ t.kind = "register" /\ tasks'[t].state \in {"tracked", "done"} =>
              TracksOf(t.object) /= {} \/ TracksOf(t.object)' /= {}
         /\ t.kind = "ensure" /\ tasks'[t].state = "done" /\ monitored[t.object] = t.monitoring =>
              TracksOf(t.object) /= {} \/ TracksOf(t.object)' /= {}
  <1>1. /\ \A st : JobStep(t, st) => tasks'[t].state = st
        /\ StartJob(t) => tasks'[t].state = "started"
        /\ JobFails(t) \/ JobRerun(t) => tasks'[t].state \in {"queued", "discarded"}
        /\ OpenTransaction(t) => tasks'[t].state = "opened"
    BY StepStates DEF MonitoredInv
  <1>2. ASSUME NEW o, NEW v, NEW at, tracks' = WithTrack(o, v, at)
        PROVE  TracksOf(o)' /= {}
    <2>1. Track(o, v, at).object = o
      BY DEF Track
    <2> QED BY <1>2, <2>1 DEF WithTrack, TracksOf
  <1>3. CASE TrackAddition(t)
    BY <1>2, <1>3 DEF TrackAddition
  <1>4. CASE EnsureTrack(t)
    BY <1>2, <1>4 DEF EnsureTrack, TracksOf
  <1>5. CASE ScreenRegistered(t)
    BY <1>5 DEF ScreenRegistered, RowsHaveJobs, MonitoredInv, KindOfState
  <1>6. CASE Register(t)
    BY <1>1, <1>6 DEF Register
  <1>7. CASE CheckUpdate(t) \/ OpenTransaction(t) \/ StoreUpdate(t)
    BY <1>7 DEF CheckUpdate, OpenTransaction, StoreUpdate, MonitoredInv, KindOfState
  <1> QED BY <1>1, <1>3, <1>4, <1>5, <1>6, <1>7 DEF TaskStep

LEMMA RowsKept ==
  ASSUME MonitoredInv, RowsHaveJobs, [ScreeningNext]_screeningVars
  PROVE  RowsHaveJobs'
  <1>0. DOMAIN tasks \subseteq DOMAIN tasks' /\ Now \in Nat /\ Now /= 0
    BY TasksKept DEF MonitoredInv, CallsInv, Typed, Now
  <1>1. ASSUME NEW o \in Objects, monitored'[o] /= 0
        PROVE  \E t \in DOMAIN tasks' :
                 /\ t.object = o
                 /\ (t.kind = "ensure" /\ t.monitoring = monitored'[o]) \/ t.kind = "register"
    <2>1. CASE monitored'[o] = monitored[o]
      BY <1>0, <1>1, <2>1 DEF RowsHaveJobs
    <2>2. CASE /\ InsertMonitored /\ user.object = o /\ monitored'[o] = Now
               /\ tasks' = Enqueued({EnsureTask(user.object, user.version, Now)})
      <3>1. EnsureTask(user.object, user.version, Now) \in DOMAIN tasks'
        BY <2>2 DEF Enqueued
      <3>2. LET t == EnsureTask(user.object, user.version, Now)
            IN  t.object = o /\ t.kind = "ensure" /\ t.monitoring = monitored'[o]
        BY <2>2 DEF EnsureTask
      <3> QED BY <3>1, <3>2
    <2>3. ASSUME NEW t \in DOMAIN tasks, Register(t), t.object = o
          PROVE  t.object = o /\ t.kind = "register" /\ t \in DOMAIN tasks'
      BY <1>0, <2>3 DEF Register
    <2> QED BY <1>1, <2>1, <2>2, <2>3, RowsCases
  <1>2. ASSUME NEW t \in DOMAIN tasks', t.kind = "ensure"
        PROVE  t.monitoring /= 0
    <2>1. CASE t \in DOMAIN tasks
      BY <1>2, <2>1 DEF RowsHaveJobs
    <2>2. ASSUME NEW i \in Ingesters, EnqueueScreenings(i), tasks' = Enqueued(NewTasks(i))
          PROVE  t \in DOMAIN tasks
      <3>1. \A u \in NewTasks(i) : u.kind \in {"update", "register"}
        BY <2>2, NewTasksTyped DEF MonitoredInv, EnqueueScreenings
      <3> QED BY <1>2, <2>2, <3>1 DEF Enqueued
    <2>3. ASSUME tasks' = Enqueued({EnsureTask(user.object, user.version, Now)})
          PROVE  t \in DOMAIN tasks \/ t.monitoring /= 0
      <3>1. EnsureTask(user.object, user.version, Now).monitoring = Now
        BY DEF EnsureTask
      <3>2. t \in DOMAIN tasks \/ t = EnsureTask(user.object, user.version, Now)
        BY <2>3 DEF Enqueued
      <3> QED BY <1>0, <3>1, <3>2
    <2>4. CASE \E u \in DOMAIN tasks : TaskStep(u)
      <3>1. DOMAIN tasks' = DOMAIN tasks
        BY <2>4, TaskMoves DEF Becomes, MonitoredInv, CallsInv, Typed
      <3> QED BY <2>1, <3>1
    <2> QED BY <2>1, <2>2, <2>3, <2>4, TasksCases
  <1>3. ASSUME NEW t \in DOMAIN tasks', t.kind = "register",
               tasks'[t].state \in {"tracked", "done"}
        PROVE  TracksOf(t.object)' /= {}
    <2>1. CASE t \in DOMAIN tasks /\ tasks'[t] = tasks[t]
      BY <1>3, <2>1, TracksStay DEF RowsHaveJobs
    <2>2. CASE t \in DOMAIN tasks /\ TaskStep(t)
      BY <1>3, <2>2, TracksStay, AddingDone
    <2> QED BY <1>3, <2>1, <2>2, JobBefore DEF QueuedTask
  <1>4. ASSUME NEW t \in DOMAIN tasks', t.kind = "ensure", tasks'[t].state = "done",
               monitored'[t.object] = t.monitoring
        PROVE  TracksOf(t.object)' /= {}
    <2>1. t \in DOMAIN tasks
      BY <1>4, JobBefore DEF QueuedTask
    <2>2. monitored[t.object] = t.monitoring
      BY <1>2, <1>4, <2>1, MonitoringFresh
    <2>3. CASE tasks'[t] = tasks[t]
      BY <1>4, <2>1, <2>2, <2>3, TracksStay DEF RowsHaveJobs
    <2>4. CASE TaskStep(t)
      BY <1>4, <2>1, <2>2, <2>4, TracksStay, AddingDone
    <2> QED BY <2>1, <2>3, <2>4, JobBefore
  <1> QED BY <1>1, <1>2, <1>3, <1>4 DEF RowsHaveJobs

\* The inductive invariant of the system.
ScreeningInv ==
  MonitoredInv /\ OnePerVersion /\ UpdateInv /\ HitsInv /\ TracksInv /\ FilesInv /\ RowsHaveJobs

LEMMA InitScreening == ScreeningInit => ScreeningInv
  <1> SUFFICES ASSUME ScreeningInit PROVE ScreeningInv
    OBVIOUS
  <1>1. MonitoredInv
    BY InitMonitored
  <1>2. /\ DOMAIN tasks = {} /\ tracks = {} /\ dataset = [o \in Objects |-> 0]
        /\ build = [pc |-> "idle", now |-> 0, content |-> [o \in Objects |-> 0]] /\ clock = 0
        /\ monitored = [o \in Objects |-> 0] /\ \A o \in Objects : DOMAIN screenings[o] = {}
        /\ \A i \in Ingesters : ingest[i].pc = "idle"
    BY DEF ScreeningInit, IngestionInit, DatasetsInit, MonitoringInit, IdleBuild, IdleCall
  <1>3. OnePerVersion
    BY <1>2 DEF OnePerVersion, Settled
  <1>4. UpdateInv
    BY <1>2 DEF UpdateInv, UpdateScreened
  <1>5. HitsInv
    BY <1>2 DEF HitsInv, CaseForHits
  <1>6. TracksInv
    BY <1>2 DEF TracksInv, BuildType
  <1>7. FilesInv
    BY <1>2 DEF FilesInv, FiledOf, TracksOf
  <1>8. RowsHaveJobs
    BY <1>2 DEF RowsHaveJobs
  <1> QED BY <1>1, <1>3, <1>4, <1>5, <1>6, <1>7, <1>8 DEF ScreeningInv

LEMMA ScreeningKept == ScreeningInv /\ [ScreeningNext]_screeningVars => ScreeningInv'
  BY MonitoredKept, OneKept, UpdateKept, HitsKept, TracksKept, FilesKept, RowsKept
  DEF ScreeningInv

LEMMA ScreeningInvariant == ScreeningSpec => []ScreeningInv
  BY InitScreening, ScreeningKept, PTL DEF ScreeningSpec

LEMMA FollowsTracks == ScreeningInv => DatasetFollowsTracks
  <1> SUFFICES ASSUME ScreeningInv, NEW o \in Objects
               PROVE  LET filed == {t \in TracksOf(o) : t.filed}
                      IN  /\ stored /\ (\A t \in TracksOf(o) : ~t.late) =>
                               dataset[o] = IF filed = {} THEN 0 ELSE Latest(filed).version
                          /\ monitored[o] /= 0 /\ Quiet(o) => TracksOf(o) /= {}
    BY DEF DatasetFollowsTracks
  <1>1. NoneLate(o) =>
          dataset[o] = IF FiledOf(o) = {} THEN 0 ELSE Latest(FiledOf(o)).version
    BY DEF ScreeningInv, FilesInv
  <1>2. ASSUME monitored[o] /= 0, Quiet(o)
        PROVE  TracksOf(o) /= {}
    <2>1. PICK t \in DOMAIN tasks :
            /\ t.object = o
            /\ (t.kind = "ensure" /\ t.monitoring = monitored[o]) \/ t.kind = "register"
      BY <1>2 DEF ScreeningInv, RowsHaveJobs
    <2>2. tasks[t].state = "done"
      BY <1>2, <2>1 DEF Quiet
    <2> QED BY <2>1, <2>2 DEF ScreeningInv, RowsHaveJobs
  <1> QED BY <1>1, <1>2 DEF NoneLate, FiledOf

-----------------------------------------------------------------------------
(* The theorems.                                                           *)

\* Transactions that read the same versions and write one after the other leave one
\* valid version of each object, the most recent by updated_at.
THEOREM NewestIsValid == Spec => []NewestValid
  <1>1. TableInv => NewestValid
    BY TableImplies
  <1> QED BY <1>1, SystemInvariant, PTL

\* A row that leaves fields out is merged with the version it replaces, even if
\* another transaction replaced the one it had read.
THEOREM PatchesAreMerged == Spec => []PatchesBuildOn
  <1>1. TableInv => PatchesBuildOn
    BY TableImplies
  <1> QED BY <1>1, SystemInvariant, PTL

\* However many attempts overlap, the offset of an upload never moves back and what
\* a user was told of its end does not change.
THEOREM UploadOnlyAdvances == Spec => UploadAdvances
  <1>1. Init => UploadTyped
    BY InitUpload
  <1>2. UploadTyped /\ [Next]_vars => UploadTyped' /\ [UploadMoves]_uploadVars
    BY NextUpload
  <1>3. Init /\ [][Next]_vars => [][UploadMoves]_uploadVars
    BY <1>1, <1>2, PTL
  <1> QED BY <1>3, PTL DEF Spec, UploadAdvances, UploadMoves

\* However often its job runs again, an execution is decided once, completed only
\* with its decisions, and not before the table holds its object or a newer version.
THEOREM DecisionFollowsIngestion == Spec => []DecidedOnIngested
  <1>1. Init => DecisionInv
    BY InitDecision
  <1>2. TableInv /\ UploadTyped /\ DecisionInv /\ [Next]_vars => DecisionInv'
    BY NextDecision
  <1>3. TableInv /\ DecisionInv => DecidedOnIngested
    BY DecisionImplies
  <1> QED BY <1>1, <1>2, <1>3, SystemInvariant, PTL DEF Spec

\* A failure is announced once, and nothing else is announced.
THEOREM FailureIsTold == Spec => []FailureTold
  <1>1. Init => DecisionInv
    BY InitDecision
  <1>2. TableInv /\ UploadTyped /\ DecisionInv /\ [Next]_vars => DecisionInv'
    BY NextDecision
  <1>3. DecisionInv => FailureTold
    BY DEF DecisionInv
  <1> QED BY <1>1, <1>2, <1>3, SystemInvariant, PTL DEF Spec

\* Every row before the offset of an upload, and every row of one that succeeded, is in
\* the table, or a newer version of it, however attempts failed, were cut or overlapped.
THEOREM UploadIsComplete == Spec => []UploadComplete
  <1>1. Init => UploadInv
    <2> SUFFICES ASSUME Init PROVE UploadInv
      OBVIOUS
    <2>1. HeldUpTo(0)
      BY FileTyped DEF HeldUpTo
    <2> QED BY <2>1 DEF Init, UploadInit, UploadInv, LogInv, WorkerInv, IdleWorker
  <1>2. TableInv /\ UploadTyped /\ UploadInv /\ [Next]_vars => UploadInv'
    BY UploadInvStep
  <1>3. TableInv /\ UploadTyped /\ UploadInv => UploadComplete
    BY UploadImplies
  <1> QED BY <1>1, <1>2, <1>3, SystemInvariant, PTL DEF Spec

\* A job of an asynchronous decision does not end, not even by running out of its
\* attempts, before the execution is decided, unless two faults met the last ones.
THEOREM ExecutionsSettle ==
  ASSUME MaxDecisionAttempts >= 2
  PROVE  Spec => []ExecutionSettles
  <1>1. Init => DecisionInv /\ SettleInv /\ faults \in Nat
    BY InitDecision, DecisionAssumption
       DEF Init, IngestionInit, DecisionInit, SettleInv, Working, Decided
  <1>2. /\ TableInv /\ UploadTyped /\ DecisionInv /\ SettleInv /\ faults \in Nat
        /\ [Next]_vars
        => (DecisionInv /\ SettleInv /\ faults \in Nat)'
    BY NextDecision, SettleStep, FaultsCount
  <1>3. SettleInv /\ faults \in Nat => ExecutionSettles
    BY DEF SettleInv, ExecutionSettles
  <1> QED BY <1>1, <1>2, <1>3, SystemInvariant, PTL DEF Spec

\* A job about a change of an object that is still monitored does not complete before the
\* object was screened after the change, and no version is screened twice by such jobs:
\* worker_do_screening.go.
THEOREM ChangesAreScreened == ScreeningSpec => []UpdateScreened
  <1>1. ScreeningInv => UpdateScreened
    BY DEF ScreeningInv, UpdateInv
  <1> QED BY <1>1, ScreeningInvariant, PTL

\* A screening with matches has a case of its own, unless an earlier one with the same
\* matches has one.
THEOREM HitsHaveCases == ScreeningSpec => []CaseForHits
  <1>1. ScreeningInv => CaseForHits
    BY DEF ScreeningInv, HitsInv
  <1> QED BY <1>1, ScreeningInvariant, PTL

\* However builds fail or run among the changes, a dataset file that exists is what the
\* filed tracks of an object say unless one was stored late; and a row of the client database whose jobs are
\* done has a track in the other one.
THEOREM DatasetIsCurrent == ScreeningSpec => []DatasetFollowsTracks
  BY FollowsTracks, ScreeningInvariant, PTL

=============================================================================
