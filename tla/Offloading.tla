----------------------------- MODULE Offloading -----------------------------
(***************************************************************************)
(* Decision offloading of one organization.  A periodic job walks the      *)
(* decisions older than OffloadBefore in order of creation and moves the   *)
(* evaluations of their rules from the database to the blob storage, page  *)
(* by page, with a savepoint every few rules: the blobs are written first, *)
(* then one transaction empties the rows and saves the watermark.  A       *)
(* reader of a decision takes evaluations from the rows, and from the      *)
(* blobs when the decision is not after the watermark.                     *)
(*                                                                         *)
(* The job is put off by a random delay, so one may start before the       *)
(* former has run out of time: any number of them interleave.              *)
(***************************************************************************)
EXTENDS Integers, Sequences, FiniteSets, SequencesExt, Functions

CONSTANTS
  NbDecisions,      \* decisions 1, 2, ... in order of creation
  Rules,            \* rows of decision_rules: their decision and their rule
  Evaluated,        \* the rules whose row was stored with an evaluation
  BatchSize,        \* rules of a page
  SavepointEvery,   \* rules of a savepoint
  Jobs,
  MaxStarts,        \* bound: runs of the jobs
  MaxOverlaps       \* bound: runs that start while another one is going on

Decisions == 1 .. NbDecisions

ASSUME OffloadingAssumption ==
  /\ NbDecisions \in Nat
  /\ IsFiniteSet(Rules) /\ \A r \in Rules : r.decision \in Decisions
  /\ Evaluated \subseteq Rules
  /\ BatchSize \in Nat \ {0} /\ SavepointEvery \in Nat \ {0}
  /\ MaxStarts \in Nat /\ MaxOverlaps \in Nat

VARIABLES
  aged,       \* decisions up to this one are older than OffloadBefore
  held,       \* rules whose evaluation is in their row
  blobs,      \* rules whose evaluation is in the blob storage
  watermark,  \* the watermarked decision, 0 if there is none
  job,        \* local variables of the jobs
  reader,     \* local variables of one reader
  starts, overlaps,
  pageEnds    \* history: decisions in which a page ended before their last rule

storage == <<held, blobs, watermark>>
bounds == <<starts, overlaps>>
vars == <<aged, storage, job, reader, bounds, pageEnds>>

RulesOf(d) == {r \in Rules : r.decision = d}

IdleJob == [pc |-> "idle", large |-> FALSE, page |-> <<>>]
IdleReader == [pc |-> "idle", decision |-> 0, seen |-> {}]

Init ==
  /\ aged = 0
  /\ held = Evaluated /\ blobs = {}
  /\ watermark = 0
  /\ job = [j \in Jobs |-> IdleJob]
  /\ reader = IdleReader
  /\ starts = 0 /\ overlaps = 0
  /\ pageEnds = {}

Age ==
  /\ aged < NbDecisions
  /\ aged' = aged + 1
  /\ UNCHANGED <<storage, job, reader, bounds, pageEnds>>

-----------------------------------------------------------------------------
(* The job: OffloadingWorker.Work                                          *)

\* Mutant: the first query of a run has the strict inequality of the others.
Mutant_StrictFirst(j) ==
  /\ job[j].pc = "idle" /\ starts < MaxStarts
  /\ starts' = starts + 1
  /\ \/ \A k \in Jobs : job[k].pc = "idle" /\ UNCHANGED overlaps
     \/ /\ \E k \in Jobs : job[k].pc /= "idle"
        /\ overlaps < MaxOverlaps /\ overlaps' = overlaps + 1
  /\ job' = [job EXCEPT ![j] = [IdleJob EXCEPT !.pc = "fetch"]]
  /\ UNCHANGED <<aged, storage, reader, pageEnds>>

\* A run starts, of a new job or of one that failed.
StartJob(j) ==
  /\ job[j].pc = "idle" /\ starts < MaxStarts
  /\ starts' = starts + 1
  /\ \/ (\A k \in Jobs : job[k].pc = "idle") /\ UNCHANGED overlaps
     \/ /\ \E k \in Jobs : job[k].pc /= "idle"
        /\ overlaps < MaxOverlaps /\ overlaps' = overlaps + 1
  /\ job' = [job EXCEPT ![j] = [IdleJob EXCEPT !.pc = "fetch", !.large = TRUE]]
  /\ UNCHANGED <<aged, storage, reader, pageEnds>>

\* GetOffloadableDecisionRules: what the query selects.
Offloadable(large) == {r \in Rules :
  /\ r.decision <= aged
  /\ r.decision > watermark \/ (large /\ r.decision = watermark)}

\* Its first BatchSize rows in order of decision; the rules of a decision come in
\* any order.
Pages(large) ==
  LET all == Offloadable(large)
      size == IF Cardinality(all) < BatchSize THEN Cardinality(all) ELSE BatchSize
  IN  {p \in [1 .. size -> all] :
         /\ \A i, k \in 1 .. size : i < k => p[i] /= p[k]
         /\ \A i \in 1 .. size : \A r \in all :
              r.decision < p[i].decision => \E k \in 1 .. i - 1 : p[k] = r}

\* The rows are read once per page, with the evaluations of that moment.
FetchPage(j) ==
  /\ job[j].pc = "fetch"
  /\ \E p \in Pages(job[j].large) :
       /\ job' = [job EXCEPT ![j] = IF p = <<>> THEN IdleJob ELSE
            [pc |-> "write", large |-> FALSE,
             page |-> [i \in DOMAIN p |-> [rule |-> p[i], evaluated |-> p[i] \in held]]]]
       /\ pageEnds' = pageEnds \cup {d \in Decisions :
            /\ \E r \in Range(p) : r.decision = d
            /\ \E r \in Offloadable(job[j].large) \ Range(p) : r.decision = d}
  /\ UNCHANGED <<aged, storage, reader, bounds>>

\* The rules up to the next savepoint, and the ones that have an evaluation.
Chunk(j) == SubSeq(job[j].page, 1,
  IF Len(job[j].page) < SavepointEvery THEN Len(job[j].page) ELSE SavepointEvery)

ToOffload(j) == {x.rule : x \in {y \in Range(Chunk(j)) : y.evaluated}}

\* Mutant: an error of one of the concurrent writes does not stop the savepoint.
Mutant_WriteErrorLost(j) ==
  /\ job[j].pc = "write"
  /\ \E written \in SUBSET ToOffload(j) : blobs' = blobs \cup written
  /\ job' = [job EXCEPT ![j].pc = "commit"]
  /\ UNCHANGED <<aged, held, watermark, reader, bounds, pageEnds>>

\* writeBatchToBlobStorage: concurrent writes, each of which may fail.
WriteBlobs(j) ==
  /\ job[j].pc = "write"
  /\ \E written \in SUBSET ToOffload(j) :
       /\ blobs' = blobs \cup written
       /\ job' = [job EXCEPT ![j] =
            IF written = ToOffload(j) THEN [job[j] EXCEPT !.pc = "commit"] ELSE IdleJob]
  /\ UNCHANGED <<aged, held, watermark, reader, bounds, pageEnds>>

\* The page without its first savepoint.
Rest(j) == SubSeq(job[j].page, Len(Chunk(j)) + 1, Len(job[j].page))

AfterSavepoint(j) ==
  [job[j] EXCEPT !.pc = IF Rest(j) = <<>> THEN "fetch" ELSE "write", !.page = Rest(j)]

\* Mutant: the watermark is saved with the last savepoint of a page only.
Mutant_WatermarkLast(j) ==
  /\ job[j].pc = "commit"
  /\ held' = held \ ToOffload(j)
  /\ watermark' = IF Rest(j) = <<>> THEN Last(Chunk(j)).rule.decision ELSE watermark
  /\ job' = [job EXCEPT ![j] = AfterSavepoint(j)]
  /\ UNCHANGED <<aged, blobs, reader, bounds, pageEnds>>

\* The transaction of a savepoint.  The watermark is overwritten, whatever it was.
Savepoint(j) ==
  /\ job[j].pc = "commit"
  /\ held' = held \ ToOffload(j)
  /\ watermark' = Last(Chunk(j)).rule.decision
  /\ job' = [job EXCEPT ![j] = AfterSavepoint(j)]
  /\ UNCHANGED <<aged, blobs, reader, bounds, pageEnds>>

\* The run is out of time, gets an error of the database, or dies.
StopJob(j) ==
  /\ job[j].pc /= "idle"
  /\ job' = [job EXCEPT ![j] = IdleJob]
  /\ UNCHANGED <<aged, storage, reader, bounds, pageEnds>>

-----------------------------------------------------------------------------
(* A reader: the rows of a decision, then MutateWithOffloadedDecisionRules. *)

ReadRows(d) ==
  /\ reader.pc = "idle"
  /\ reader' = [pc |-> "watermark", decision |-> d, seen |-> RulesOf(d) \cap held]
  /\ UNCHANGED <<aged, storage, job, bounds, pageEnds>>

\* Blobs are only looked for up to the watermark.
ReadWatermark ==
  /\ reader.pc = "watermark"
  /\ reader' = [reader EXCEPT !.pc =
       IF watermark = 0 \/ reader.decision > watermark THEN "answered" ELSE "blobs"]
  /\ UNCHANGED <<aged, storage, job, bounds, pageEnds>>

\* A blob that is not found leaves what the row holds.
ReadBlobs ==
  /\ reader.pc = "blobs"
  /\ reader' = [reader EXCEPT !.pc = "answered",
                              !.seen = @ \cup (RulesOf(reader.decision) \cap blobs)]
  /\ UNCHANGED <<aged, storage, job, bounds, pageEnds>>

Answer ==
  /\ reader.pc = "answered"
  /\ reader' = IdleReader
  /\ UNCHANGED <<aged, storage, job, bounds, pageEnds>>

-----------------------------------------------------------------------------

Next ==
  \/ Age
  \/ \E j \in Jobs :
       \/ StartJob(j) \/ FetchPage(j) \/ WriteBlobs(j) \/ Savepoint(j) \/ StopJob(j)
  \/ \E d \in Decisions : ReadRows(d)
  \/ ReadWatermark \/ ReadBlobs \/ Answer

Spec == Init /\ [][Next]_vars

-----------------------------------------------------------------------------

\* Storage, jobs and reader are well formed.
TypeOK ==
  /\ aged \in 0 .. NbDecisions /\ watermark \in 0 .. aged
  /\ held \subseteq Evaluated /\ blobs \subseteq Evaluated
  /\ \A j \in Jobs :
       /\ job[j].pc \in {"idle", "fetch", "write", "commit"}
       /\ job[j].large \in BOOLEAN
       /\ \A i \in DOMAIN job[j].page :
            job[j].page[i] \in [rule : Rules, evaluated : BOOLEAN]
  /\ reader.pc \in {"idle", "watermark", "blobs", "answered"}
  /\ reader.decision \in 0 .. NbDecisions /\ reader.seen \subseteq Rules
  /\ starts \in 0 .. MaxStarts /\ overlaps \in 0 .. MaxOverlaps
  /\ pageEnds \subseteq Decisions

\* No evaluation is lost, whatever fails and however runs overlap: the row of a
\* rule is emptied only once its blob is stored.
EvaluationKept == Evaluated \subseteq held \cup blobs

\* As long as runs do not overlap, a reader that meets a job anywhere on its way
\* sees every evaluation of its decision.
EvaluationsSeen == (overlaps = 0 /\ reader.pc = "answered") =>
  RulesOf(reader.decision) \cap Evaluated \subseteq reader.seen

\* A run that ends between two savepoints of a decision leaves no rule behind the
\* watermark for good: the next one begins with the watermarked decision.  Unless
\* runs overlap, only rules of a decision in which a page ended are passed over.
PassedOverOnlyAtPageEnds == overlaps = 0 =>
  \A r \in held : r.decision < watermark => r.decision \in pageEnds
==============================================================================
