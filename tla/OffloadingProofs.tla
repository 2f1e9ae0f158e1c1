-------------------------- MODULE OffloadingProofs --------------------------
(***************************************************************************)
(* Proofs about Offloading, for any number of decisions, rules and runs:   *)
(* no evaluation is lost, and as long as runs do not overlap a reader sees *)
(* every one of them, and none is passed over but where a page ends.       *)
(***************************************************************************)
EXTENDS Offloading, FiniteSetTheorems, TLAPS

PageItem == [rule : Rules, evaluated : BOOLEAN]
JobType == [pc : {"idle", "fetch", "write", "commit"}, large : BOOLEAN, page : Seq(PageItem)]
ReaderType == [pc : {"idle", "watermark", "blobs", "answered"}, decision : Nat,
               seen : SUBSET Rules]

\* What the proofs need of the types; a run that writes or commits has a page left.
Typed ==
  /\ job \in [Jobs -> JobType]
  /\ \A j \in Jobs : job[j].pc \in {"write", "commit"} => job[j].page /= <<>>
  /\ reader \in ReaderType
  /\ reader.pc /= "idle" => reader.decision \in Decisions
  /\ watermark \in Nat /\ overlaps \in Nat

\* Between its writes and its transaction, a run has stored the blobs of its savepoint.
StoredFirst == \A j \in Jobs : job[j].pc = "commit" => ToOffload(j) \subseteq blobs

KeptInv == StoredFirst /\ EvaluationKept

-----------------------------------------------------------------------------
(* Types.                                                                  *)

\* A savepoint is made of the first items of its page.
LEMMA ChunkOfPage ==
  ASSUME Typed, NEW j \in Jobs, job[j].page /= <<>>
  PROVE  /\ Chunk(j) \in Seq(PageItem) /\ Chunk(j) /= <<>>
         /\ Len(Chunk(j)) \in 1 .. Len(job[j].page)
         /\ \A i \in 1 .. Len(Chunk(j)) : Chunk(j)[i] = job[j].page[i]
         /\ Rest(j) \in Seq(PageItem)
         /\ Len(Rest(j)) = Len(job[j].page) - Len(Chunk(j))
         /\ \A i \in 1 .. Len(Rest(j)) : Rest(j)[i] = job[j].page[i + Len(Chunk(j))]
  <1> DEFINE page == job[j].page
             size == IF Len(page) < SavepointEvery THEN Len(page) ELSE SavepointEvery
  <1>1. page \in Seq(PageItem) /\ page /= <<>>
    BY DEF Typed, JobType
  <1>2. SavepointEvery \in Nat /\ SavepointEvery > 0
    BY OffloadingAssumption
  <1>3. size \in 1 .. Len(page)
    BY <1>1, <1>2
  <1>4. Chunk(j) = SubSeq(page, 1, size)
    BY DEF Chunk
  <1> HIDE DEF page, size
  <1>5. /\ Chunk(j) \in Seq(PageItem) /\ Len(Chunk(j)) = size
        /\ \A i \in 1 .. size : Chunk(j)[i] = page[i]
    BY <1>1, <1>3, <1>4
  <1>6. Rest(j) = SubSeq(page, size + 1, Len(page))
    BY <1>5 DEF Rest, page
  <1>7. /\ Rest(j) \in Seq(PageItem) /\ Len(Rest(j)) = Len(page) - size
        /\ \A i \in 1 .. Len(page) - size : Rest(j)[i] = page[i + size]
    BY <1>1, <1>3, <1>6
  <1> QED BY <1>3, <1>5, <1>7 DEF page

\* The decision that a savepoint writes as the watermark is one of its rules'.
LEMMA LastOfChunk ==
  ASSUME Typed, NEW j \in Jobs, job[j].page /= <<>>
  PROVE  /\ Last(Chunk(j)) = Chunk(j)[Len(Chunk(j))]
         /\ Last(Chunk(j)).rule.decision \in Decisions
  <1>1. Last(Chunk(j)) = Chunk(j)[Len(Chunk(j))]
    BY DEF Last
  <1>2. Chunk(j)[Len(Chunk(j))] \in PageItem
    BY ChunkOfPage
  <1> QED BY <1>1, <1>2, OffloadingAssumption DEF PageItem

\* A page is a sequence of offloadable rules in order of decision.
LEMMA PagesSorted ==
  ASSUME NEW large \in BOOLEAN, NEW p \in Pages(large)
  PROVE  /\ p \in Seq(Offloadable(large))
         /\ \A i, k \in 1 .. Len(p) : i <= k => p[i].decision <= p[k].decision
  <1> DEFINE all == Offloadable(large)
             size == IF Cardinality(all) < BatchSize THEN Cardinality(all) ELSE BatchSize
  <1>1. all \subseteq Rules
    BY DEF Offloadable
  <1>2. Cardinality(all) \in Nat
    BY <1>1, OffloadingAssumption, FS_Subset, FS_CardinalityType
  <1>3. size \in Nat
    BY <1>2, OffloadingAssumption
  <1>4. /\ p \in [1 .. size -> all]
        /\ \A i, k \in 1 .. size : i < k => p[i] /= p[k]
        /\ \A i \in 1 .. size : \A r \in all :
             r.decision < p[i].decision => \E k \in 1 .. i - 1 : p[k] = r
    BY DEF Pages
  <1> HIDE DEF size, all
  <1>5. p \in Seq(all) /\ Len(p) = size
    BY <1>3, <1>4
  <1>6. ASSUME NEW i \in 1 .. size, NEW k \in 1 .. size, i <= k
        PROVE  p[i].decision <= p[k].decision
    <2>1. p[i] \in Rules /\ p[k] \in Rules
      BY <1>1, <1>4
    <2>2. p[i].decision \in Int /\ p[k].decision \in Int
      BY <2>1, OffloadingAssumption DEF Decisions
    <2>3. CASE p[k].decision < p[i].decision
      <3>1. PICK m \in 1 .. i - 1 : p[m] = p[k]
        BY <1>4, <2>3
      <3>2. m \in 1 .. size /\ m < k
        BY <1>3, <1>6
      <3> QED BY <1>4, <3>1, <3>2
    <2> QED BY <2>2, <2>3
  <1> QED BY <1>5, <1>6 DEF all

\* The page that a run has fetched.
FetchedPage(p) == [i \in DOMAIN p |-> [rule |-> p[i], evaluated |-> p[i] \in held]]

LEMMA FetchedTyped ==
  ASSUME NEW large \in BOOLEAN, NEW p \in Pages(large)
  PROVE  /\ FetchedPage(p) \in Seq(PageItem) /\ Len(FetchedPage(p)) = Len(p)
         /\ \A i \in 1 .. Len(p) : FetchedPage(p)[i].rule = p[i]
  <1>1. p \in Seq(Rules)
    <2>1. Offloadable(large) \subseteq Rules
      BY DEF Offloadable
    <2>2. p \in Seq(Offloadable(large))
      BY PagesSorted
    <2> QED BY <2>1, <2>2
  <1>2. \A i \in 1 .. Len(p) : FetchedPage(p)[i] \in PageItem /\ FetchedPage(p)[i].rule = p[i]
    BY <1>1 DEF FetchedPage, PageItem
  <1>3. DOMAIN FetchedPage(p) = 1 .. Len(p) /\ FetchedPage(p) = [i \in 1 .. Len(p) |-> FetchedPage(p)[i]]
    BY <1>1 DEF FetchedPage
  <1> HIDE DEF FetchedPage
  <1> QED BY <1>1, <1>2, <1>3

\* What each action of a run does to its local variables.
LEMMA JobSteps ==
  ASSUME Typed, NEW j \in Jobs
  PROVE  /\ StartJob(j) => /\ job'[j] \in JobType /\ job'[j].pc = "fetch"
                           /\ job' = [job EXCEPT ![j] = job'[j]]
         /\ StopJob(j) => job'[j] = IdleJob /\ job' = [job EXCEPT ![j] = IdleJob]
         /\ FetchPage(j) => /\ job' = [job EXCEPT ![j] = job'[j]]
                            /\ \E p \in Pages(job[j].large) :
                                 job'[j] = IF p = <<>> THEN IdleJob ELSE
                                   [pc |-> "write", large |-> FALSE, page |-> FetchedPage(p)]
         /\ WriteBlobs(j) =>
              /\ job' = [job EXCEPT ![j] = job'[j]] /\ job[j].pc = "write"
              /\ \/ job'[j] = IdleJob
                 \/ /\ job'[j] \in JobType /\ job'[j].pc = "commit"
                    /\ job'[j].page = job[j].page
                    /\ ToOffload(j) \subseteq blobs'
              /\ blobs \subseteq blobs'
         /\ Savepoint(j) =>
              /\ job' = [job EXCEPT ![j] = job'[j]] /\ job[j].pc = "commit"
              /\ job'[j] \in JobType /\ job'[j].page = Rest(j)
              /\ job'[j].pc = IF Rest(j) = <<>> THEN "fetch" ELSE "write"
  <1>1. IdleJob \in JobType
    BY DEF IdleJob, JobType
  <1>2. job \in [Jobs -> JobType] /\ job[j] \in JobType
    BY DEF Typed
  <1>3. StartJob(j) => /\ job'[j] \in JobType /\ job'[j].pc = "fetch"
                       /\ job' = [job EXCEPT ![j] = job'[j]]
    <2>1. /\ [IdleJob EXCEPT !.pc = "fetch", !.large = TRUE] \in JobType
          /\ [IdleJob EXCEPT !.pc = "fetch", !.large = TRUE].pc = "fetch"
      BY <1>1 DEF JobType
    <2> QED BY <1>2, <2>1 DEF StartJob
  <1>4. StopJob(j) => job'[j] = IdleJob /\ job' = [job EXCEPT ![j] = IdleJob]
    BY <1>2 DEF StopJob
  <1>5. FetchPage(j) => /\ job' = [job EXCEPT ![j] = job'[j]]
                        /\ \E p \in Pages(job[j].large) :
                             job'[j] = IF p = <<>> THEN IdleJob ELSE
                               [pc |-> "write", large |-> FALSE, page |-> FetchedPage(p)]
    BY <1>2 DEF FetchPage, FetchedPage
  <1>6. WriteBlobs(j) =>
          /\ job' = [job EXCEPT ![j] = job'[j]] /\ job[j].pc = "write"
          /\ \/ job'[j] = IdleJob
             \/ /\ job'[j] \in JobType /\ job'[j].pc = "commit"
                /\ job'[j].page = job[j].page
                /\ ToOffload(j) \subseteq blobs'
          /\ blobs \subseteq blobs'
    <2>1. /\ [job[j] EXCEPT !.pc = "commit"] \in JobType
          /\ [job[j] EXCEPT !.pc = "commit"].pc = "commit"
          /\ [job[j] EXCEPT !.pc = "commit"].page = job[j].page
      BY <1>2 DEF JobType
    <2> QED BY <1>2, <2>1 DEF WriteBlobs
  <1>7. Savepoint(j) =>
          /\ job' = [job EXCEPT ![j] = job'[j]] /\ job[j].pc = "commit"
          /\ job'[j] \in JobType /\ job'[j].page = Rest(j)
          /\ job'[j].pc = IF Rest(j) = <<>> THEN "fetch" ELSE "write"
    <2> SUFFICES ASSUME Savepoint(j) PROVE <1>7!2
      OBVIOUS
    <2>1. job[j].pc = "commit" /\ job' = [job EXCEPT ![j] = AfterSavepoint(j)]
      BY DEF Savepoint
    <2>2. Rest(j) \in Seq(PageItem)
      BY <2>1, ChunkOfPage DEF Typed
    <2>3. /\ AfterSavepoint(j) \in JobType /\ AfterSavepoint(j).page = Rest(j)
          /\ AfterSavepoint(j).pc = IF Rest(j) = <<>> THEN "fetch" ELSE "write"
      BY <1>2, <2>2 DEF AfterSavepoint, JobType
    <2> QED BY <1>2, <2>1, <2>3
  <1> QED BY <1>3, <1>4, <1>5, <1>6, <1>7

\* The initial state and the steps are typed.
LEMMA InitTyped == Init => Typed
  <1> SUFFICES ASSUME Init PROVE Typed
    OBVIOUS
  <1>1. IdleJob \in JobType /\ IdleJob.pc = "idle"
    BY DEF IdleJob, JobType
  <1>2. IdleReader \in ReaderType /\ IdleReader.pc = "idle"
    BY DEF IdleReader, ReaderType
  <1> QED BY <1>1, <1>2 DEF Init, Typed

\* A job that is replaced by a typed one leaves the others alone.
LEMMA JobReplaced ==
  ASSUME Typed, NEW j \in Jobs, job' = [job EXCEPT ![j] = job'[j]], job'[j] \in JobType,
         job'[j].pc \in {"write", "commit"} => job'[j].page /= <<>>
  PROVE  /\ job' \in [Jobs -> JobType]
         /\ \A k \in Jobs : job'[k].pc \in {"write", "commit"} => job'[k].page /= <<>>
         /\ \A k \in Jobs : k /= j => job'[k] = job[k]
  BY DEF Typed

LEMMA JobStepTyped ==
  ASSUME Typed, NEW j \in Jobs,
         StartJob(j) \/ FetchPage(j) \/ WriteBlobs(j) \/ Savepoint(j) \/ StopJob(j)
  PROVE  /\ Typed'
         /\ job'[j] \in JobType
         /\ \A k \in Jobs : k /= j => job'[k] = job[k]
  <1>1. IdleJob \in JobType /\ IdleJob.pc = "idle"
    BY DEF IdleJob, JobType
  <1>2. /\ job' = [job EXCEPT ![j] = job'[j]] /\ job'[j] \in JobType
        /\ job'[j].pc \in {"write", "commit"} => job'[j].page /= <<>>
    <2>1. CASE StartJob(j)
      BY <2>1, JobSteps
    <2>2. CASE FetchPage(j)
      <3>1. PICK p \in Pages(job[j].large) :
              job'[j] = IF p = <<>> THEN IdleJob ELSE
                [pc |-> "write", large |-> FALSE, page |-> FetchedPage(p)]
        BY <2>2, JobSteps
      <3>2. job[j].large \in BOOLEAN
        BY DEF Typed, JobType
      <3>3. p \in Seq(Offloadable(job[j].large))
        BY <3>2, PagesSorted
      <3>4. FetchedPage(p) \in Seq(PageItem) /\ Len(FetchedPage(p)) = Len(p)
        BY <3>2, FetchedTyped
      <3>5. CASE p = <<>>
        BY <1>1, <2>2, <3>1, <3>5, JobSteps
      <3>6. CASE p /= <<>>
        <4>1. job'[j] = [pc |-> "write", large |-> FALSE, page |-> FetchedPage(p)]
          BY <3>1, <3>6
        <4>2. FetchedPage(p) /= <<>>
          BY <3>3, <3>4, <3>6
        <4>3. [pc |-> "write", large |-> FALSE, page |-> FetchedPage(p)] \in JobType
          BY <3>4 DEF JobType
        <4> QED BY <2>2, <4>1, <4>2, <4>3, JobSteps
      <3> QED BY <3>5, <3>6
    <2>3. CASE WriteBlobs(j)
      BY <1>1, <2>3, JobSteps DEF Typed
    <2>4. CASE Savepoint(j)
      BY <2>4, JobSteps
    <2>5. CASE StopJob(j)
      BY <1>1, <2>5, JobSteps
    <2> QED BY <2>1, <2>2, <2>3, <2>4, <2>5
  <1>3. /\ job' \in [Jobs -> JobType]
        /\ \A k \in Jobs : job'[k].pc \in {"write", "commit"} => job'[k].page /= <<>>
        /\ \A k \in Jobs : k /= j => job'[k] = job[k]
    BY <1>2, JobReplaced
  <1>4. reader' = reader
    BY DEF StartJob, FetchPage, WriteBlobs, Savepoint, StopJob
  <1>5. watermark' \in Nat
    <2>1. CASE Savepoint(j)
      <3>1. Last(Chunk(j)).rule.decision \in Decisions
        BY <2>1, LastOfChunk, JobSteps DEF Typed
      <3> QED BY <2>1, <3>1 DEF Savepoint, Decisions
    <2>2. CASE ~Savepoint(j)
      BY <2>2 DEF StartJob, FetchPage, WriteBlobs, StopJob, Typed, storage
    <2> QED BY <2>1, <2>2
  <1>6. overlaps' \in Nat
    BY DEF StartJob, FetchPage, WriteBlobs, Savepoint, StopJob, Typed, bounds
  <1> QED BY <1>2, <1>3, <1>4, <1>5, <1>6 DEF Typed

\* A reader's steps leave the runs and the storage alone.
ReaderStep == (\E d \in Decisions : ReadRows(d)) \/ ReadWatermark \/ ReadBlobs \/ Answer

LEMMA ReaderStepTyped ==
  ASSUME Typed, ReaderStep
  PROVE  Typed' /\ UNCHANGED <<storage, job, overlaps>>
  <1>1. UNCHANGED <<storage, job, overlaps>>
    BY DEF ReaderStep, ReadRows, ReadWatermark, ReadBlobs, Answer, bounds
  <1>2. /\ reader' \in ReaderType
        /\ reader'.pc /= "idle" => reader'.decision \in Decisions
    <2>1. CASE \E d \in Decisions : ReadRows(d)
      BY <2>1 DEF ReadRows, ReaderType, RulesOf, Decisions
    <2>2. CASE ReadWatermark
      BY <2>2 DEF ReadWatermark, Typed, ReaderType
    <2>3. CASE ReadBlobs
      BY <2>3 DEF ReadBlobs, Typed, ReaderType, RulesOf
    <2>4. CASE Answer
      BY <2>4 DEF Answer, IdleReader, ReaderType
    <2> QED BY <2>1, <2>2, <2>3, <2>4 DEF ReaderStep
  <1> QED BY <1>1, <1>2 DEF Typed, storage

\* The steps, by who takes them.
LEMMA StepCases ==
  ASSUME [Next]_vars
  PROVE  \/ \E j \in Jobs : StartJob(j) \/ FetchPage(j) \/ WriteBlobs(j) \/ Savepoint(j)
                            \/ StopJob(j)
         \/ ReaderStep
         \/ UNCHANGED <<storage, job, reader, overlaps>>
  BY DEF Next, ReaderStep, Age, vars, bounds

LEMMA NextTyped ==
  ASSUME Typed, [Next]_vars
  PROVE  Typed'
  <1>1. CASE UNCHANGED <<storage, job, reader, overlaps>>
    BY <1>1 DEF Typed, storage
  <1> QED BY <1>1, StepCases, JobStepTyped, ReaderStepTyped

-----------------------------------------------------------------------------
(* No evaluation is lost.                                                  *)

LEMMA NextKeeps ==
  ASSUME Typed, KeptInv, [Next]_vars
  PROVE  KeptInv' /\ blobs \subseteq blobs'
  <1>1. ASSUME NEW j \in Jobs, WriteBlobs(j)
        PROVE  KeptInv' /\ blobs \subseteq blobs'
    <2>1. blobs \subseteq blobs' /\ held' = held
      BY <1>1 DEF WriteBlobs
    <2>2. ASSUME NEW k \in Jobs, job'[k].pc = "commit"
          PROVE  ToOffload(k)' \subseteq blobs'
      <3>1. CASE k = j
        <4>1. job'[j].page = job[j].page /\ ToOffload(j) \subseteq blobs'
          BY <1>1, <2>2, <3>1, JobSteps DEF IdleJob
        <4>2. ToOffload(j)' = ToOffload(j)
          BY <4>1 DEF ToOffload, Chunk
        <4> QED BY <3>1, <4>1, <4>2
      <3>2. CASE k /= j
        <4>1. job'[k] = job[k]
          BY <1>1, <3>2, JobStepTyped
        <4>2. ToOffload(k)' = ToOffload(k)
          BY <4>1 DEF ToOffload, Chunk
        <4> QED BY <2>1, <2>2, <4>1, <4>2 DEF KeptInv, StoredFirst
      <3> QED BY <3>1, <3>2
    <2> QED BY <2>1, <2>2 DEF KeptInv, StoredFirst, EvaluationKept
  <1>2. ASSUME NEW j \in Jobs,
               StartJob(j) \/ FetchPage(j) \/ Savepoint(j) \/ StopJob(j)
        PROVE  KeptInv' /\ blobs \subseteq blobs'
    <2>1. blobs' = blobs
      BY <1>2 DEF StartJob, FetchPage, Savepoint, StopJob, storage
    <2>2. job'[j].pc /= "commit"
      <3>1. CASE FetchPage(j)
        <4>1. PICK p \in Pages(job[j].large) :
                job'[j] = IF p = <<>> THEN IdleJob ELSE
                  [pc |-> "write", large |-> FALSE, page |-> FetchedPage(p)]
          BY <3>1, JobSteps
        <4> QED BY <4>1 DEF IdleJob
      <3>2. CASE StartJob(j) \/ Savepoint(j) \/ StopJob(j)
        BY <3>2, JobSteps DEF IdleJob
      <3> QED BY <1>2, <3>1, <3>2
    <2>3. ASSUME NEW k \in Jobs, job'[k].pc = "commit"
          PROVE  ToOffload(k)' \subseteq blobs'
      <3>1. job'[k] = job[k]
        BY <1>2, <2>2, <2>3, JobStepTyped
      <3>2. ToOffload(k)' = ToOffload(k)
        BY <3>1 DEF ToOffload, Chunk
      <3> QED BY <2>1, <2>3, <3>1, <3>2 DEF KeptInv, StoredFirst
    <2>4. held \subseteq held' \cup blobs
      <3>1. CASE Savepoint(j)
        BY <3>1 DEF Savepoint, KeptInv, StoredFirst
      <3>2. CASE ~Savepoint(j)
        BY <1>2, <3>2 DEF StartJob, FetchPage, StopJob, storage
      <3> QED BY <3>1, <3>2
    <2> QED BY <2>1, <2>3, <2>4 DEF KeptInv, StoredFirst, EvaluationKept
  <1>3. CASE UNCHANGED <<storage, job>>
    BY <1>3 DEF KeptInv, StoredFirst, EvaluationKept, ToOffload, Chunk, storage
  <1> QED BY <1>1, <1>2, <1>3, StepCases, ReaderStepTyped

LEMMA InitKeeps == Init => KeptInv
  BY DEF Init, KeptInv, StoredFirst, EvaluationKept, IdleJob

\* Whatever fails and however runs overlap, the row of a rule is emptied only once
\* its blob is stored: between the two there is no moment without the evaluation.
THEOREM EvaluationIsKept == Spec => []EvaluationKept
  <1>1. Init => Typed /\ KeptInv
    BY InitTyped, InitKeeps
  <1>2. Typed /\ KeptInv /\ [Next]_vars => (Typed /\ KeptInv)'
    BY NextTyped, NextKeeps
  <1>3. KeptInv => EvaluationKept
    BY DEF KeptInv
  <1> QED BY <1>1, <1>2, <1>3, PTL DEF Spec

-----------------------------------------------------------------------------
(* A reader sees every evaluation, as long as runs do not overlap.         *)

\* One run at most is going on.
Alone == \A j, k \in Jobs : job[j].pc /= "idle" /\ job[k].pc /= "idle" => j = k

\* What a run has yet to offload is in order and not before the watermark.
InOrder == \A j \in Jobs : job[j].pc \in {"write", "commit"} =>
  \A i, k \in 1 .. Len(job[j].page) : i <= k =>
    /\ watermark <= job[j].page[i].rule.decision
    /\ job[j].page[i].rule.decision <= job[j].page[k].rule.decision

\* What was offloaded is not after the watermark.
BehindWatermark == \A r \in Evaluated \ held : r.decision <= watermark

\* A reader may still miss what is in the blobs, until it has looked there.
Unseen == (RulesOf(reader.decision) \cap Evaluated) \ reader.seen

ReaderInv ==
  /\ reader.pc = "watermark" => (watermark < reader.decision => Unseen = {})
  /\ reader.pc \in {"watermark", "blobs"} => Unseen \subseteq blobs
  /\ reader.pc = "answered" => Unseen = {}

SeenInv == overlaps = 0 => Alone /\ InOrder /\ BehindWatermark /\ ReaderInv

LEMMA InitSeen == Init => SeenInv
  BY DEF Init, SeenInv, Alone, InOrder, BehindWatermark, ReaderInv, IdleJob, IdleReader

\* A run that starts without an overlap is alone, and the others stay so.
LEMMA StaysAlone ==
  ASSUME Typed, SeenInv, NEW j \in Jobs, overlaps' = 0,
         StartJob(j) \/ FetchPage(j) \/ WriteBlobs(j) \/ Savepoint(j) \/ StopJob(j)
  PROVE  /\ overlaps = 0 /\ Alone'
         /\ ~StartJob(j) => job[j].pc /= "idle"
         /\ \A k \in Jobs : k /= j => job[k].pc = "idle" /\ job'[k].pc = "idle"
  <1>1. /\ \A k \in Jobs : k /= j => job'[k] = job[k]
        /\ job[j].pc \in {"idle", "fetch", "write", "commit"}
    BY JobStepTyped DEF Typed, JobType
  <1>2. CASE StartJob(j)
    <2>1. overlaps = 0 /\ \A k \in Jobs : job[k].pc = "idle"
      BY <1>2 DEF StartJob, Typed
    <2> QED BY <1>1, <1>2, <2>1 DEF Alone
  <1>3. CASE ~StartJob(j)
    <2>1. overlaps = 0 /\ job[j].pc /= "idle"
      BY <1>3 DEF FetchPage, WriteBlobs, Savepoint, StopJob, bounds
    <2>2. \A k \in Jobs : k /= j => job[k].pc = "idle" /\ job'[k].pc = "idle"
      BY <1>1, <2>1 DEF SeenInv, Alone
    <2> QED BY <2>1, <2>2 DEF Alone
  <1> QED BY <1>2, <1>3

\* What a savepoint empties lies between the former watermark and the next one.
LEMMA SavepointMoves ==
  ASSUME Typed, SeenInv, NEW j \in Jobs, overlaps' = 0, Savepoint(j)
  PROVE  /\ watermark <= watermark' /\ BehindWatermark'
         /\ \A i, k \in 1 .. Len(Rest(j)) : i <= k =>
              /\ watermark' <= Rest(j)[i].rule.decision
              /\ Rest(j)[i].rule.decision <= Rest(j)[k].rule.decision
  <1> DEFINE page == job[j].page
             last == Len(Chunk(j))
  <1>1. job[j].pc = "commit" /\ page /= <<>> /\ page \in Seq(PageItem)
    BY DEF Savepoint, Typed, JobType
  <1>2. InOrder /\ BehindWatermark /\ overlaps = 0
    BY StaysAlone DEF SeenInv
  <1>3. /\ last \in 1 .. Len(page)
        /\ Chunk(j) \in Seq(PageItem)
        /\ \A i \in 1 .. last : Chunk(j)[i] = page[i]
        /\ Len(Rest(j)) = Len(page) - last
        /\ \A i \in 1 .. Len(Rest(j)) : Rest(j)[i] = page[i + last]
    BY <1>1, ChunkOfPage
  <1>4. \A i \in 1 .. Len(page) : page[i].rule.decision \in Nat
    <2>1. ASSUME NEW i \in 1 .. Len(page)
          PROVE  page[i].rule \in Rules
      <3> HIDE DEF page, last
      <3>1. page[i] \in PageItem
        BY <1>1
      <3> QED BY <3>1 DEF PageItem
    <2> QED BY <2>1, OffloadingAssumption DEF Decisions
  <1>5. \A i, k \in 1 .. Len(page) : i <= k =>
          /\ watermark <= page[i].rule.decision
          /\ page[i].rule.decision <= page[k].rule.decision
    BY <1>1, <1>2 DEF InOrder
  <1>6. watermark' = page[last].rule.decision
    BY <1>1, <1>3, LastOfChunk DEF Savepoint
  <1>7. watermark \in Nat
    BY DEF Typed
  <1>8. ASSUME NEW r \in ToOffload(j)
        PROVE  r.decision <= watermark'
    <2>1. PICK x \in Range(Chunk(j)) : x.rule = r
      BY DEF ToOffload
    <2>2. PICK i \in DOMAIN Chunk(j) : Chunk(j)[i] = x
      BY <2>1 DEF Range
    <2>3. i \in 1 .. last /\ page[i].rule = r
      BY <1>3, <2>1, <2>2
    <2> HIDE DEF page, last
    <2>4. Len(page) \in Nat
      BY <1>1
    <2>5. i \in 1 .. Len(page) /\ i <= last
      BY <1>3, <2>3, <2>4
    <2> QED BY <1>3, <1>5, <1>6, <2>3, <2>5
  <1> HIDE DEF page, last
  <1>9. watermark <= watermark'
    BY <1>3, <1>5, <1>6
  <1>10. BehindWatermark'
    <2>1. held' = held \ ToOffload(j)
      BY DEF Savepoint
    <2>2. ASSUME NEW r \in Evaluated \ held'
          PROVE  r.decision <= watermark'
      <3>1. CASE r \in ToOffload(j)
        BY <1>8, <3>1
      <3>2. CASE r \notin ToOffload(j)
        <4>1. r \in Evaluated \ held
          BY <2>1, <2>2, <3>2
        <4>2. r.decision <= watermark /\ r.decision \in Nat
          BY <1>2, <4>1, OffloadingAssumption DEF BehindWatermark, Decisions
        <4>3. watermark' \in Nat
          BY <1>3, <1>4, <1>6
        <4> QED BY <1>7, <1>9, <4>2, <4>3
      <3> QED BY <3>1, <3>2
    <2> QED BY <2>2 DEF BehindWatermark
  <1>11. ASSUME NEW i \in 1 .. Len(Rest(j)), NEW k \in 1 .. Len(Rest(j)), i <= k
         PROVE  /\ watermark' <= Rest(j)[i].rule.decision
                /\ Rest(j)[i].rule.decision <= Rest(j)[k].rule.decision
    <2>1. Len(page) \in Nat
      BY <1>1
    <2>2. /\ i + last \in 1 .. Len(page) /\ k + last \in 1 .. Len(page)
          /\ last <= i + last /\ i + last <= k + last
      BY <1>3, <1>11, <2>1
    <2>3. /\ page[last].rule.decision <= page[i + last].rule.decision
          /\ page[i + last].rule.decision <= page[k + last].rule.decision
      BY <1>3, <1>5, <2>2
    <2> QED BY <1>3, <1>6, <2>3
  <1> QED BY <1>9, <1>10, <1>11

\* What a page adds is in order, and not before the watermark.
LEMMA FetchInOrder ==
  ASSUME Typed, NEW j \in Jobs, FetchPage(j), job'[j].pc \in {"write", "commit"}
  PROVE  \A i, k \in 1 .. Len(job'[j].page) : i <= k =>
           /\ watermark <= job'[j].page[i].rule.decision
           /\ job'[j].page[i].rule.decision <= job'[j].page[k].rule.decision
  <1>1. PICK p \in Pages(job[j].large) :
          job'[j] = IF p = <<>> THEN IdleJob ELSE
            [pc |-> "write", large |-> FALSE, page |-> FetchedPage(p)]
    BY JobSteps
  <1>2. job'[j].page = FetchedPage(p)
    BY <1>1 DEF IdleJob
  <1>3. job[j].large \in BOOLEAN
    BY DEF Typed, JobType
  <1>4. /\ p \in Seq(Offloadable(job[j].large))
        /\ \A i, k \in 1 .. Len(p) : i <= k => p[i].decision <= p[k].decision
    BY <1>3, PagesSorted
  <1>5. /\ Len(FetchedPage(p)) = Len(p)
        /\ \A i \in 1 .. Len(p) : FetchedPage(p)[i].rule = p[i]
    BY <1>3, FetchedTyped
  <1>6. ASSUME NEW i \in 1 .. Len(p)
        PROVE  watermark <= p[i].decision
    <2>1. p[i] \in Offloadable(job[j].large)
      BY <1>4
    <2>2. p[i] \in Rules /\ (p[i].decision > watermark \/ p[i].decision = watermark)
      BY <2>1 DEF Offloadable
    <2>3. p[i].decision \in Nat
      BY <2>2, OffloadingAssumption DEF Decisions
    <2> QED BY <2>2, <2>3 DEF Typed
  <1> QED BY <1>2, <1>4, <1>5, <1>6

LEMMA JobStepSeen ==
  ASSUME Typed, KeptInv, SeenInv, NEW j \in Jobs, [Next]_vars,
         StartJob(j) \/ FetchPage(j) \/ WriteBlobs(j) \/ Savepoint(j) \/ StopJob(j)
  PROVE  SeenInv'
  <1> SUFFICES ASSUME overlaps' = 0
               PROVE  Alone' /\ InOrder' /\ BehindWatermark' /\ ReaderInv'
    BY DEF SeenInv
  <1>1. /\ overlaps = 0 /\ Alone'
        /\ \A k \in Jobs : k /= j => job[k].pc = "idle" /\ job'[k].pc = "idle"
    BY StaysAlone
  <1>2. Alone /\ InOrder /\ BehindWatermark /\ ReaderInv
    BY <1>1 DEF SeenInv
  <1>3. watermark <= watermark' /\ BehindWatermark'
    <2>1. CASE Savepoint(j)
      BY <2>1, SavepointMoves
    <2>2. CASE ~Savepoint(j)
      <3>1. watermark' = watermark /\ held' = held
        BY <2>2 DEF StartJob, FetchPage, WriteBlobs, StopJob, storage
      <3> QED BY <1>2, <3>1 DEF BehindWatermark, Typed
    <2> QED BY <2>1, <2>2
  <1>4. InOrder'
    <2> SUFFICES ASSUME job'[j].pc \in {"write", "commit"}
                 PROVE  \A i, k \in 1 .. Len(job'[j].page) : i <= k =>
                          /\ watermark' <= job'[j].page[i].rule.decision
                          /\ job'[j].page[i].rule.decision <= job'[j].page[k].rule.decision
      BY <1>1 DEF InOrder
    <2>1. CASE FetchPage(j)
      BY <2>1, FetchInOrder DEF FetchPage, storage
    <2>2. CASE Savepoint(j)
      <3>1. job'[j].page = Rest(j)
        BY <2>2, JobSteps
      <3> QED BY <2>2, <3>1, SavepointMoves
    <2>3. CASE WriteBlobs(j)
      <3>1. job'[j].page = job[j].page /\ job[j].pc = "write"
        BY <2>3, JobSteps DEF IdleJob
      <3>2. watermark' = watermark
        BY <2>3 DEF WriteBlobs
      <3> QED BY <1>2, <3>1, <3>2 DEF InOrder
    <2>4. CASE StartJob(j) \/ StopJob(j)
      BY <2>4, JobSteps DEF IdleJob
    <2> QED BY <2>1, <2>2, <2>3, <2>4
  <1>5. ReaderInv'
    <2>1. reader' = reader
      BY DEF StartJob, FetchPage, WriteBlobs, Savepoint, StopJob
    <2>2. blobs \subseteq blobs'
      BY NextKeeps
    <2>3. Unseen' = Unseen
      BY <2>1 DEF Unseen
    <2>4. reader.pc = "watermark" => reader.decision \in Nat
      BY DEF Typed, Decisions
    <2>5. watermark \in Nat /\ watermark' \in Nat
      BY NextTyped DEF Typed
    <2> QED BY <1>2, <1>3, <2>1, <2>2, <2>3, <2>4, <2>5 DEF ReaderInv
  <1> QED BY <1>1, <1>3, <1>4, <1>5

LEMMA ReaderStepSeen ==
  ASSUME Typed, KeptInv, SeenInv, ReaderStep
  PROVE  SeenInv'
  <1> SUFFICES ASSUME overlaps' = 0
               PROVE  Alone' /\ InOrder' /\ BehindWatermark' /\ ReaderInv'
    BY DEF SeenInv
  <1>1. UNCHANGED <<storage, job, overlaps>>
    BY ReaderStepTyped
  <1>2. Alone /\ InOrder /\ BehindWatermark /\ ReaderInv
    BY <1>1 DEF SeenInv
  <1>3. Alone' /\ InOrder' /\ BehindWatermark'
    BY <1>1, <1>2 DEF Alone, InOrder, BehindWatermark, storage
  <1>4. ReaderInv'
    <2>1. ASSUME NEW d \in Decisions, ReadRows(d)
          PROVE  ReaderInv'
      <3>1. reader' = [pc |-> "watermark", decision |-> d, seen |-> RulesOf(d) \cap held]
        BY <2>1 DEF ReadRows
      <3>2. Unseen' = (RulesOf(d) \cap Evaluated) \ held
        BY <3>1 DEF Unseen, RulesOf
      <3>3. Unseen' \subseteq blobs'
        BY <1>1, <3>2 DEF KeptInv, EvaluationKept, storage
      <3>4. watermark < d => Unseen' = {}
        <4>1. ASSUME NEW r \in Unseen', watermark < d
              PROVE  FALSE
          <5>1. r \in Evaluated \ held /\ r.decision = d
            BY <3>2, <4>1 DEF RulesOf
          <5>2. d <= watermark
            BY <1>2, <5>1 DEF BehindWatermark
          <5> QED BY <4>1, <5>2 DEF Typed, Decisions
        <4> QED BY <4>1
      <3> QED BY <1>1, <3>1, <3>3, <3>4 DEF ReaderInv, storage
    <2>2. CASE ReadWatermark
      <3>1. /\ reader.pc = "watermark" /\ reader.decision \in Decisions
            /\ reader' = [reader EXCEPT !.pc =
                 IF watermark = 0 \/ reader.decision > watermark THEN "answered" ELSE "blobs"]
            /\ reader \in ReaderType
        BY <2>2 DEF ReadWatermark, Typed
      <3>2. reader'.decision = reader.decision /\ reader'.seen = reader.seen
        BY <3>1 DEF ReaderType
      <3>3. Unseen' = Unseen
        BY <3>2 DEF Unseen
      <3>4. CASE watermark = 0 \/ reader.decision > watermark
        <4>1. reader'.pc = "answered" /\ watermark < reader.decision
          BY <3>1, <3>4 DEF ReaderType, Typed, Decisions
        <4> QED BY <1>2, <3>1, <3>3, <4>1 DEF ReaderInv
      <3>5. CASE ~(watermark = 0 \/ reader.decision > watermark)
        <4>1. reader'.pc = "blobs"
          BY <3>1, <3>5 DEF ReaderType
        <4> QED BY <1>1, <1>2, <3>1, <3>3, <4>1 DEF ReaderInv, storage
      <3> QED BY <3>4, <3>5
    <2>3. CASE ReadBlobs
      <3>1. /\ reader.pc = "blobs" /\ reader \in ReaderType
            /\ reader' = [reader EXCEPT !.pc = "answered",
                 !.seen = @ \cup (RulesOf(reader.decision) \cap blobs)]
        BY <2>3 DEF ReadBlobs, Typed
      <3>2. /\ reader'.pc = "answered" /\ reader'.decision = reader.decision
            /\ reader'.seen = reader.seen \cup (RulesOf(reader.decision) \cap blobs)
        BY <3>1 DEF ReaderType
      <3>3. Unseen \subseteq blobs
        BY <1>2, <3>1 DEF ReaderInv
      <3>4. Unseen' = {}
        BY <3>2, <3>3 DEF Unseen
      <3> QED BY <3>2, <3>4 DEF ReaderInv
    <2>4. CASE Answer
      BY <2>4 DEF Answer, IdleReader, ReaderInv
    <2> QED BY <2>1, <2>2, <2>3, <2>4 DEF ReaderStep
  <1> QED BY <1>3, <1>4

LEMMA NextSeen ==
  ASSUME Typed, KeptInv, SeenInv, [Next]_vars
  PROVE  SeenInv'
  <1>1. CASE UNCHANGED <<storage, job, reader, overlaps>>
    BY <1>1 DEF SeenInv, Alone, InOrder, BehindWatermark, ReaderInv, Unseen, storage
  <1> QED BY <1>1, StepCases, JobStepSeen, ReaderStepSeen

\* A reader that read the rows before a savepoint and the watermark after it, or
\* both in the middle of a decision, still answers with every evaluation, as long
\* as no run starts while another one is going on.
THEOREM EvaluationsAreSeen == Spec => []EvaluationsSeen
  <1>1. Init => Typed /\ KeptInv /\ SeenInv
    BY InitTyped, InitKeeps, InitSeen
  <1>2. Typed /\ KeptInv /\ SeenInv /\ [Next]_vars => (Typed /\ KeptInv /\ SeenInv)'
    BY NextTyped, NextKeeps, NextSeen
  <1>3. SeenInv => EvaluationsSeen
    BY DEF SeenInv, ReaderInv, Unseen, EvaluationsSeen
  <1> QED BY <1>1, <1>2, <1>3, PTL DEF Spec

-----------------------------------------------------------------------------
(* Rules are passed over only where a page ends, unless runs overlap.      *)

Passed == \A r \in held : r.decision < watermark => r.decision \in pageEnds

\* A run that goes on after the watermarked decision leaves nothing there.
AtFetch(j) == job[j].pc = "fetch" /\ ~job[j].large =>
  \A r \in held : r.decision = watermark => r.decision \in pageEnds

\* The decision of the last rule of the page, and a rule as a page holds it.
PageEnd(j) == job[j].page[Len(job[j].page)].rule.decision
Item(r) == [rule |-> r, evaluated |-> TRUE]

\* What is left up to the end of the page is in it.
Covered(j) == job[j].pc \in {"write", "commit"} =>
  /\ ~job[j].large
  /\ \A r \in held : r.decision <= PageEnd(j) =>
       r.decision \in pageEnds \/ Item(r) \in Range(job[j].page)

PassedInv ==
  /\ held \subseteq Rules /\ aged \in Nat
  /\ overlaps = 0 => Passed /\ \A j \in Jobs : AtFetch(j) /\ Covered(j)

LEMMA InitPassed == Init => PassedInv
  BY OffloadingAssumption
     DEF Init, PassedInv, Passed, AtFetch, Covered, IdleJob, Decisions

\* A page that is not full of rules has all those before its last decision.
LEMMA PageComplete ==
  ASSUME NEW large \in BOOLEAN, NEW p \in Pages(large), p /= <<>>,
         NEW r \in Offloadable(large), r.decision < p[Len(p)].decision
  PROVE  r \in Range(p)
  <1> DEFINE all == Offloadable(large)
             size == IF Cardinality(all) < BatchSize THEN Cardinality(all) ELSE BatchSize
  <1>1. Cardinality(all) \in Nat
    BY OffloadingAssumption, FS_Subset, FS_CardinalityType DEF Offloadable
  <1>2. size \in Nat
    BY <1>1, OffloadingAssumption
  <1>3. /\ p \in [1 .. size -> all]
        /\ \A i \in 1 .. size : \A s \in all :
             s.decision < p[i].decision => \E k \in 1 .. i - 1 : p[k] = s
    BY DEF Pages
  <1> HIDE DEF size, all
  <1>4. Len(p) = size /\ p \in Seq(all)
    BY <1>2, <1>3
  <1>5. size \in 1 .. size
    BY <1>2, <1>4
  <1>6. r \in all
    BY DEF all
  <1>7. PICK k \in 1 .. size - 1 : p[k] = r
    BY <1>3, <1>4, <1>5, <1>6
  <1>8. k \in DOMAIN p
    BY <1>2, <1>3, <1>7
  <1> QED BY <1>7, <1>8 DEF Range

\* A page takes what is left after the watermark, up to its end.
LEMMA FetchCovers ==
  ASSUME Typed, PassedInv, overlaps = 0, NEW j \in Jobs, FetchPage(j),
         job'[j].pc \in {"write", "commit"}
  PROVE  Covered(j)'
  <1> DEFINE large == job[j].large
  <1>1. large \in BOOLEAN /\ job[j].pc = "fetch" /\ watermark \in Nat
    BY DEF Typed, JobType, FetchPage
  <1>2. PICK p \in Pages(large) :
          /\ job' = [job EXCEPT ![j] = IF p = <<>> THEN IdleJob ELSE
               [pc |-> "write", large |-> FALSE, page |-> FetchedPage(p)]]
          /\ pageEnds' = pageEnds \cup {d \in Decisions :
               /\ \E r \in Range(p) : r.decision = d
               /\ \E r \in Offloadable(large) \ Range(p) : r.decision = d}
    BY DEF FetchPage, FetchedPage
  <1>3. p /= <<>> /\ job'[j] = [pc |-> "write", large |-> FALSE, page |-> FetchedPage(p)]
    BY <1>2 DEF Typed, IdleJob
  <1>4. /\ p \in Seq(Offloadable(large)) /\ Len(FetchedPage(p)) = Len(p)
        /\ \A i \in 1 .. Len(p) : FetchedPage(p)[i].rule = p[i]
    BY <1>1, PagesSorted, FetchedTyped
  <1>5. Len(p) \in 1 .. Len(p)
    BY <1>3, <1>4
  <1> DEFINE end == p[Len(p)]
  <1>6. PageEnd(j)' = end.decision
    BY <1>3, <1>4, <1>5 DEF PageEnd
  <1>7. end \in Offloadable(large) /\ end \in Range(p)
    BY <1>4, <1>5 DEF Range
  <1>8. end \in Rules /\ end.decision \in Decisions /\ end.decision \in Nat
        /\ end.decision <= aged
    BY <1>7, OffloadingAssumption DEF Offloadable, Decisions
  <1>9. held' = held /\ watermark' = watermark
    BY DEF FetchPage, storage
  <1>10. ASSUME NEW r \in held, r.decision <= end.decision
         PROVE  r.decision \in pageEnds' \/ r \in Range(p)
    <2>1. r \in Rules /\ r.decision \in Nat
      BY OffloadingAssumption DEF PassedInv, Decisions
    <2>2. CASE r.decision < watermark \/ (r.decision = watermark /\ ~large)
      BY <1>1, <1>2, <2>2 DEF PassedInv, Passed, AtFetch
    <2>3. CASE ~(r.decision < watermark \/ (r.decision = watermark /\ ~large))
      <3>1. r \in Offloadable(large)
        BY <1>1, <1>8, <1>10, <2>1, <2>3 DEF Offloadable, PassedInv
      <3>2. CASE r.decision < end.decision
        BY <1>1, <1>3, <3>1, <3>2, PageComplete
      <3>3. CASE r.decision = end.decision
        BY <1>2, <1>7, <1>8, <3>1, <3>3
      <3> QED BY <1>8, <1>10, <2>1, <3>2, <3>3
    <2> QED BY <2>2, <2>3
  <1>11. ASSUME NEW r \in held, r \in Range(p)
         PROVE  Item(r) \in Range(job'[j].page)
    <2>1. PICK i \in DOMAIN p : p[i] = r
      BY <1>11 DEF Range
    <2>2. i \in DOMAIN FetchedPage(p) /\ FetchedPage(p)[i] = Item(r)
      BY <2>1 DEF FetchedPage, Item
    <2> QED BY <1>3, <2>2 DEF Range
  <1> QED BY <1>3, <1>6, <1>9, <1>10, <1>11 DEF Covered

\* A savepoint empties what the page has up to the new watermark.
LEMMA SavepointCovers ==
  ASSUME Typed, SeenInv, PassedInv, NEW j \in Jobs, overlaps' = 0, Savepoint(j)
  PROVE  Passed' /\ AtFetch(j)' /\ Covered(j)'
  <1> DEFINE page == job[j].page
             last == Len(Chunk(j))
  <1>1. /\ job[j].pc = "commit" /\ page /= <<>> /\ page \in Seq(PageItem)
        /\ pageEnds' = pageEnds /\ held' = held \ ToOffload(j)
        /\ overlaps = 0 /\ ~job[j].large
    BY StaysAlone DEF Savepoint, Typed, JobType, PassedInv, Covered
  <1>2. /\ last \in 1 .. Len(page) /\ Len(page) \in Nat
        /\ Chunk(j) \in Seq(PageItem)
        /\ \A i \in 1 .. last : Chunk(j)[i] = page[i]
        /\ Rest(j) \in Seq(PageItem) /\ Len(Rest(j)) = Len(page) - last
        /\ \A i \in 1 .. Len(Rest(j)) : Rest(j)[i] = page[i + last]
    BY <1>1, ChunkOfPage
  <1>3. watermark' = page[last].rule.decision
    BY <1>1, <1>2, LastOfChunk DEF Savepoint
  <1>4. \A i, k \in 1 .. Len(page) : i <= k => page[i].rule.decision <= page[k].rule.decision
    BY <1>1 DEF SeenInv, InOrder
  <1>5. \A i \in 1 .. Len(page) : page[i].rule.decision \in Nat
    <2>1. ASSUME NEW i \in 1 .. Len(page)
          PROVE  page[i].rule \in Rules
      <3> HIDE DEF page, last
      <3>1. page[i] \in PageItem
        BY <1>1
      <3> QED BY <3>1 DEF PageItem
    <2> QED BY <2>1, OffloadingAssumption DEF Decisions
  <1>6. \A r \in held' : r.decision \in Nat
    BY <1>1, OffloadingAssumption DEF PassedInv, Decisions
  <1>7. ASSUME NEW r \in held', r.decision <= page[Len(page)].rule.decision
        PROVE  r.decision \in pageEnds \/ \E k \in last + 1 .. Len(page) : page[k] = Item(r)
    <2>1. CASE r.decision \in pageEnds
      BY <2>1
    <2>2. CASE Item(r) \in Range(page)
      <3>1. PICK k \in 1 .. Len(page) : page[k] = Item(r)
        BY <1>1, <2>2 DEF Range
      <3>2. CASE k <= last
        <4>1. k \in DOMAIN Chunk(j) /\ Chunk(j)[k] = Item(r)
          BY <1>2, <3>1, <3>2
        <4>2. Item(r) \in Range(Chunk(j))
          BY <4>1 DEF Range
        <4>3. r \in ToOffload(j)
          BY <4>2 DEF ToOffload, Item
        <4> QED BY <1>1, <1>7, <4>3
      <3>3. CASE k > last
        BY <1>2, <3>1, <3>3
      <3> QED BY <1>2, <3>1, <3>2, <3>3
    <2> QED BY <1>1, <1>7, <2>1, <2>2 DEF PassedInv, Covered, PageEnd
  <1> HIDE DEF page, last
  <1>8. page[last].rule.decision <= page[Len(page)].rule.decision
    BY <1>2, <1>4
  <1>9. \A r : Item(r).rule = r
    BY DEF Item
  <1>10. ASSUME NEW r \in held', r.decision < watermark'
         PROVE  r.decision \in pageEnds
    <2>1. r.decision <= page[Len(page)].rule.decision
      BY <1>2, <1>3, <1>5, <1>6, <1>8, <1>10
    <2>2. ASSUME NEW k \in last + 1 .. Len(page), page[k] = Item(r)
          PROVE  FALSE
      <3>1. k \in 1 .. Len(page) /\ last <= k
        BY <1>2
      <3>2. page[last].rule.decision <= page[k].rule.decision
        BY <1>2, <1>4, <3>1
      <3>3. page[k].rule.decision = r.decision
        BY <1>9, <2>2
      <3> QED BY <1>2, <1>3, <1>5, <1>6, <1>10, <3>2, <3>3
    <2> QED BY <1>7, <2>1, <2>2
  <1>11. Passed'
    BY <1>1, <1>10 DEF Passed
  <1>12. /\ job'[j].page = Rest(j)
         /\ job'[j].pc = IF Rest(j) = <<>> THEN "fetch" ELSE "write"
         /\ job'[j].large = job[j].large
    <2>1. job'[j] = AfterSavepoint(j)
      BY DEF Savepoint, Typed
    <2> QED BY <1>1, <2>1, JobSteps DEF AfterSavepoint, Typed, JobType
  <1>13. AtFetch(j)'
    <2> SUFFICES ASSUME Rest(j) = <<>>, NEW r \in held', r.decision = watermark'
                 PROVE  r.decision \in pageEnds
      BY <1>1, <1>12 DEF AtFetch
    <2>1. last = Len(page)
      BY <1>2
    <2>2. r.decision <= page[Len(page)].rule.decision
      BY <1>3, <1>6, <2>1
    <2> QED BY <1>2, <1>7, <2>1, <2>2
  <1>14. Covered(j)'
    <2> SUFFICES ASSUME Rest(j) /= <<>>
                 PROVE  Covered(j)'
      BY <1>12 DEF Covered
    <2>1. Len(Rest(j)) \in 1 .. Len(Rest(j)) /\ Len(Rest(j)) + last = Len(page)
      BY <1>2
    <2>2. PageEnd(j)' = page[Len(page)].rule.decision
      BY <1>2, <1>12, <2>1 DEF PageEnd
    <2>3. ASSUME NEW r \in held', NEW k \in last + 1 .. Len(page), page[k] = Item(r)
          PROVE  Item(r) \in Range(Rest(j))
      <3>1. k - last \in 1 .. Len(Rest(j)) /\ k - last + last = k
        BY <1>2
      <3>2. Rest(j)[k - last] = Item(r)
        BY <1>2, <2>3, <3>1
      <3>3. DOMAIN Rest(j) = 1 .. Len(Rest(j))
        BY <1>2
      <3> QED BY <3>1, <3>2, <3>3 DEF Range
    <2> QED BY <1>1, <1>7, <1>12, <2>2, <2>3 DEF Covered
  <1> QED BY <1>11, <1>13, <1>14

LEMMA JobStepPassed ==
  ASSUME Typed, SeenInv, PassedInv, NEW j \in Jobs,
         StartJob(j) \/ FetchPage(j) \/ WriteBlobs(j) \/ Savepoint(j) \/ StopJob(j)
  PROVE  PassedInv'
  <1>1. held' \subseteq held /\ aged' = aged /\ pageEnds \subseteq pageEnds'
    BY DEF StartJob, FetchPage, WriteBlobs, Savepoint, StopJob, storage
  <1> SUFFICES ASSUME overlaps' = 0
               PROVE  Passed' /\ \A k \in Jobs : AtFetch(k)' /\ Covered(k)'
    BY <1>1 DEF PassedInv
  <1>2. /\ overlaps = 0
        /\ \A k \in Jobs : k /= j => job'[k].pc = "idle"
    BY StaysAlone
  <1>3. Passed /\ AtFetch(j) /\ Covered(j)
    BY <1>2 DEF PassedInv
  <1>4. Passed' /\ AtFetch(j)' /\ Covered(j)'
    <2>1. CASE Savepoint(j)
      BY <2>1, SavepointCovers
    <2>2. CASE ~Savepoint(j)
      <3>1. watermark' = watermark /\ held' = held
        BY <2>2 DEF StartJob, FetchPage, WriteBlobs, StopJob, storage
      <3>2. Passed'
        BY <1>1, <1>3, <3>1 DEF Passed
      <3>3. CASE FetchPage(j)
        <4>1. job'[j].pc \in {"idle", "write"}
          <5>1. PICK p \in Pages(job[j].large) :
                  job'[j] = IF p = <<>> THEN IdleJob ELSE
                    [pc |-> "write", large |-> FALSE, page |-> FetchedPage(p)]
            BY <3>3, JobSteps
          <5> QED BY <5>1 DEF IdleJob
        <4> QED BY <1>2, <3>2, <3>3, <4>1, FetchCovers DEF AtFetch, Covered
      <3>4. CASE WriteBlobs(j)
        <4>1. /\ job[j].pc = "write"
              /\ \/ job'[j].pc = "idle"
                 \/ /\ job'[j].pc = "commit" /\ job'[j].page = job[j].page
                    /\ job'[j].large = job[j].large
          <5>1. /\ job[j].pc = "write" /\ job[j] \in JobType
                /\ job'[j] = [job[j] EXCEPT !.pc = "commit"] \/ job'[j] = IdleJob
            BY <3>4 DEF WriteBlobs, Typed
          <5>2. CASE job'[j] = IdleJob
            <6>1. IdleJob.pc = "idle"
              BY DEF IdleJob
            <6> QED BY <5>1, <5>2, <6>1
          <5>3. CASE job'[j] = [job[j] EXCEPT !.pc = "commit"]
            BY <5>1, <5>3 DEF JobType
          <5> QED BY <5>1, <5>2, <5>3
        <4> QED BY <1>1, <1>3, <3>1, <3>2, <4>1 DEF AtFetch, Covered, PageEnd
      <3>5. CASE StartJob(j) \/ StopJob(j)
        <4>1. job'[j].pc = "idle" \/ (job'[j].pc = "fetch" /\ job'[j].large)
          <5>1. job'[j] \in {IdleJob, [IdleJob EXCEPT !.pc = "fetch", !.large = TRUE]}
            BY <3>5 DEF StartJob, StopJob, Typed
          <5>2. IdleJob.pc = "idle"
            BY DEF IdleJob
          <5>3. /\ [IdleJob EXCEPT !.pc = "fetch", !.large = TRUE].pc = "fetch"
                /\ [IdleJob EXCEPT !.pc = "fetch", !.large = TRUE].large = TRUE
            BY DEF IdleJob
          <5> QED BY <5>1, <5>2, <5>3
        <4> QED BY <3>2, <4>1 DEF AtFetch, Covered
      <3> QED BY <2>2, <3>3, <3>4, <3>5
    <2> QED BY <2>1, <2>2
  <1>5. ASSUME NEW k \in Jobs, k /= j
        PROVE  AtFetch(k)' /\ Covered(k)'
    BY <1>2, <1>5 DEF AtFetch, Covered
  <1> QED BY <1>4, <1>5

LEMMA NextPassed ==
  ASSUME Typed, SeenInv, PassedInv, [Next]_vars
  PROVE  PassedInv'
  <1>1. CASE UNCHANGED <<aged, storage, job, overlaps, pageEnds>>
    BY <1>1 DEF PassedInv, Passed, AtFetch, Covered, PageEnd, storage
  <1>2. CASE Age
    BY <1>2 DEF Age, PassedInv, Passed, AtFetch, Covered, PageEnd, storage, bounds
  <1>3. CASE ReaderStep
    <2>1. UNCHANGED <<aged, storage, job, overlaps, pageEnds>>
      BY <1>3 DEF ReaderStep, ReadRows, ReadWatermark, ReadBlobs, Answer, bounds
    <2> QED BY <1>1, <2>1
  <1> QED BY <1>1, <1>2, <1>3, JobStepPassed DEF Next, ReaderStep, vars, bounds

\* A run that stops between two savepoints leaves no evaluation behind the watermark
\* for good, as the next one begins with the watermarked decision; unless runs
\* overlap, only a page that ends within a decision does so.
THEOREM OnlyPageEndsPassOver == Spec => []PassedOverOnlyAtPageEnds
  <1>1. Init => Typed /\ KeptInv /\ SeenInv /\ PassedInv
    BY InitTyped, InitKeeps, InitSeen, InitPassed
  <1>2. Typed /\ KeptInv /\ SeenInv /\ PassedInv /\ [Next]_vars =>
          (Typed /\ KeptInv /\ SeenInv /\ PassedInv)'
    BY NextTyped, NextKeeps, NextSeen, NextPassed
  <1>3. PassedInv => PassedOverOnlyAtPageEnds
    BY DEF PassedInv, Passed, PassedOverOnlyAtPageEnds
  <1> QED BY <1>1, <1>2, <1>3, PTL DEF Spec
=============================================================================
