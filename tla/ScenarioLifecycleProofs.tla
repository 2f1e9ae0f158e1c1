---------------------- MODULE ScenarioLifecycleProofs ----------------------
(***************************************************************************)
(* Proofs about ScenarioLifecycle, for any number of iterations, requests  *)
(* and processes: the live version is committed and stored whatever        *)
(* requests overlap; and unless they do, what was committed is frozen and  *)
(* evaluated by those who know of it, and one test run is up.              *)
(*                                                                         *)
(* And about TestRunSummaries, for any number of decisions and jobs, at    *)
(* the end: nothing is counted twice, and nothing is missed.               *)
(***************************************************************************)
EXTENDS ScenarioLifecycle, TestRunSummaries, FiniteSetTheorems, TLAPS

CommitType == [op : {"commit"}, process : Processes, iteration : Iterations,
               version : Nat \ {0}, updated : BOOLEAN]

\* What a request keeps from its first step is still of the right type, and what it
\* publishes was committed, and remains so.
RequestOK(q) ==
  LET r == request[q]
  IN  /\ r.op = "edit" => r.iteration \in Iterations
      /\ r.op = "commit" => r \in CommitType
      /\ r.op = "draft" => r.drafts \subseteq Iterations /\ r.content \in Nat \ {0}
      /\ r.op = "publish" => r.iteration \in Iterations /\ version[r.iteration] > 0

Typed ==
  /\ stored \subseteq Iterations /\ live \in Iterations \cup {None}
  /\ version \in [Iterations -> Nat] /\ content \in [Iterations -> Nat]
  /\ request = [q \in Requests |-> request[q]]
  /\ contents \in Nat /\ overlaps \in Nat

\* An id that was never given has no version.
UnusedFree == \A i \in Iterations : content[i] = 0 => i \notin stored /\ version[i] = 0

LiveInv == Typed /\ UnusedFree /\ LiveCommitted /\ \A q \in Requests : RequestOK(q)

-----------------------------------------------------------------------------

LEMMA InitLive == Init => LiveInv
  BY DEF Init, LiveInv, Typed, UnusedFree, LiveCommitted, RequestOK, IdleRequest

\* The actions by which a request begins.
Begins(q) == \E p \in Processes, i \in Iterations :
  \/ BeginEdit(q, p, i) \/ BeginCommit(q, p, i) \/ BeginDraft(q, p, i)
  \/ BeginPublish(q, p, i) \/ BeginUnpublish(q, p, i) \/ BeginTestRun(q, p, i)

\* The actions by which one ends.
Writes(q) ==
  \/ ApplyEdit(q) \/ ApplyCommit(q) \/ ApplyDraft(q) \/ ApplyPublish(q)
  \/ ApplyUnpublish(q) \/ ApplyTestRun(q) \/ Abort(q)

LEMMA StepCases ==
  ASSUME [Next]_vars
  PROVE  \/ \E q \in Requests : Begins(q) \/ Writes(q) \/ UpdateVersion(q)
         \/ \E i \in Iterations : CreateScenarioIteration(i)
         \/ UNCHANGED <<iterationVars, request, contents, overlaps>>
  <1>1. ASSUME NEW q \in Requests, NEW p \in Processes, NEW i \in Iterations,
               View(q, p, i) \/ Evict(p, i) \/ AddToCache(q)
        PROVE  UNCHANGED <<iterationVars, request, contents, overlaps>>
    BY <1>1 DEF View, Evict, AddToCache
  <1>2. ASSUME NEW t \in TestRuns, CreateIndexes(t) \/ Callback(t) \/ CancelTestRunById(t)
        PROVE  UNCHANGED <<iterationVars, request, contents, overlaps>>
    BY <1>2 DEF CreateIndexes, Callback, CancelTestRunById
  <1>3. ASSUME NEW p \in Processes, NEW i \in Iterations, Evict(p, i)
        PROVE  UNCHANGED <<iterationVars, request, contents, overlaps>>
    BY <1>3 DEF Evict
  <1>4. ASSUME NEW q \in Requests, AddToCache(q)
        PROVE  UNCHANGED <<iterationVars, request, contents, overlaps>>
    BY <1>4 DEF AddToCache
  <1>5. CASE UNCHANGED vars
    BY <1>5 DEF vars
  <1> QED BY <1>1, <1>2, <1>3, <1>4, <1>5 DEF Next, Begins, Writes

\* A request that begins writes nothing, and keeps what it has read.
LEMMA BeginsReads ==
  ASSUME LiveInv, NEW q \in Requests, Begins(q)
  PROVE  /\ UNCHANGED <<iterationVars, contents>>
         /\ request[q] = IdleRequest /\ request' = [request EXCEPT ![q] = request'[q]]
         /\ overlaps' \in Nat
         /\ overlaps' = 0 => overlaps = 0 /\ \A k \in Requests : request[k] = IdleRequest
         /\ \/ \E i \in Iterations : /\ i \in stored /\ version[i] = 0
                                     /\ request'[q].op = "edit"
                                     /\ request'[q].iteration = i
            \/ \E i \in Iterations : /\ i \in stored /\ version[i] = 0
                                     /\ request'[q] \in CommitType
                                     /\ request'[q].iteration = i /\ ~request'[q].updated
                                     /\ \A j \in stored : version[j] < request'[q].version
            \/ \E i \in stored : /\ request'[q].op = "draft"
                                 /\ request'[q].drafts = Drafts
                                 /\ request'[q].content = content[i]
            \/ \E i \in stored : /\ request'[q].op = "publish" /\ version[i] > 0
                                 /\ request'[q].iteration = i
            \/ request'[q].op \in {"unpublish", "test"}
  <1>1. PICK p \in Processes, i \in Iterations :
          \/ BeginEdit(q, p, i) \/ BeginCommit(q, p, i) \/ BeginDraft(q, p, i)
          \/ BeginPublish(q, p, i) \/ BeginUnpublish(q, p, i) \/ BeginTestRun(q, p, i)
    BY DEF Begins
  <1>2. PICK r : Started(q, r)
    BY <1>1 DEF BeginEdit, BeginCommit, BeginDraft, BeginPublish, BeginUnpublish, BeginTestRun
  <1>3. request'[q] = r
    BY <1>2 DEF Started, LiveInv, Typed
  <1>4. /\ UNCHANGED <<iterationVars, contents>>
        /\ request[q] = IdleRequest /\ request' = [request EXCEPT ![q] = request'[q]]
        /\ overlaps' \in Nat
        /\ overlaps' = 0 => overlaps = 0 /\ \A k \in Requests : request[k] = IdleRequest
    BY <1>2, <1>3 DEF Started, LiveInv, Typed
  <1>5. CASE BeginEdit(q, p, i)
    <2>1. request'[q] = [op |-> "edit", iteration |-> i]
      BY <1>5 DEF BeginEdit, Started, LiveInv, Typed
    <2> QED BY <1>4, <1>5, <2>1 DEF BeginEdit, IsDraft
  <1>6. CASE BeginCommit(q, p, i)
    <2>1. PICK latest \in LatestVersions : request'[q] =
            [op |-> "commit", process |-> p, iteration |-> i, version |-> latest + 1,
             updated |-> FALSE]
      BY <1>6 DEF BeginCommit, Started, LiveInv, Typed
    <2>2. latest \in Nat /\ \A j \in stored : version[j] \in Nat /\ version[j] <= latest
      BY DEF LatestVersions, LiveInv, Typed
    <2>3. /\ request'[q] \in CommitType /\ ~request'[q].updated
          /\ request'[q].iteration = i /\ request'[q].version = latest + 1
      BY <2>1, <2>2 DEF CommitType
    <2> QED BY <1>4, <1>6, <2>2, <2>3 DEF BeginCommit, IsDraft
  <1>7. CASE BeginDraft(q, p, i)
    <2>1. request'[q] = [op |-> "draft", content |-> content[i], drafts |-> Drafts]
      BY <1>7 DEF BeginDraft, Started, LiveInv, Typed
    <2> QED BY <1>4, <1>7, <2>1 DEF BeginDraft
  <1>8. CASE BeginPublish(q, p, i)
    <2>1. request'[q] = [op |-> "publish", iteration |-> i, live |-> live]
      BY <1>8 DEF BeginPublish, Started, LiveInv, Typed
    <2> QED BY <1>4, <1>8, <2>1 DEF BeginPublish
  <1>9. CASE BeginUnpublish(q, p, i) \/ BeginTestRun(q, p, i)
    <2>1. \/ request'[q] = [op |-> "unpublish", iteration |-> i]
          \/ request'[q] = [op |-> "test", iteration |-> i, live |-> live]
      BY <1>9 DEF BeginUnpublish, BeginTestRun, Started, LiveInv, Typed
    <2> QED BY <1>4, <2>1
  <1> QED BY <1>1, <1>5, <1>6, <1>7, <1>8, <1>9

LEMMA BeginsKeeps ==
  ASSUME LiveInv, NEW q \in Requests, Begins(q)
  PROVE  LiveInv'
  <1>1. Typed' /\ UnusedFree' /\ LiveCommitted'
    BY BeginsReads DEF LiveInv, Typed, UnusedFree, LiveCommitted, iterationVars
  <1>2. ASSUME NEW k \in Requests
        PROVE  RequestOK(k)'
    <2>1. CASE k /= q
      <3>1. request'[k] = request[k]
        BY <2>1, BeginsReads DEF LiveInv, Typed
      <3> QED BY <3>1, BeginsReads DEF LiveInv, RequestOK, iterationVars
    <2>2. CASE k = q
      <3>1. \A i \in stored : content[i] \in Nat \ {0}
        BY DEF LiveInv, Typed, UnusedFree
      <3> QED BY <2>2, <3>1, BeginsReads
              DEF LiveInv, Typed, RequestOK, CommitType, Drafts, iterationVars
    <2> QED BY <2>1, <2>2
  <1> QED BY <1>1, <1>2 DEF LiveInv

\* What the writes do to the iterations.
LEMMA WritesKeeps ==
  ASSUME LiveInv, NEW q \in Requests, Writes(q)
  PROVE  LiveInv'
  <1>1. /\ request' = [request EXCEPT ![q] = IdleRequest] /\ overlaps' = overlaps
        /\ RequestOK(q)
    BY DEF Writes, ApplyEdit, ApplyCommit, ApplyDraft, ApplyPublish, ApplyUnpublish,
           ApplyTestRun, Abort, Ends, LiveInv
  <1>2. /\ \A k \in Requests : request'[k] = IF k = q THEN IdleRequest ELSE request[k]
        /\ request' = [k \in Requests |-> request'[k]]
    BY <1>1 DEF LiveInv, Typed
  <1>3. /\ stored' \subseteq Iterations /\ live' \in Iterations \cup {None}
        /\ version' \in [Iterations -> Nat] /\ content' \in [Iterations -> Nat]
        /\ contents' \in Nat /\ UnusedFree' /\ LiveCommitted'
        /\ \A i \in Iterations : version[i] > 0 => version'[i] > 0
    <2> USE DEF LiveInv, Typed, UnusedFree, LiveCommitted
    <2>1. CASE ApplyEdit(q)
      BY <1>1, <2>1, LifecycleAssumption DEF ApplyEdit, Ends, Fresh, RequestOK
    <2>2. CASE ApplyCommit(q)
      BY <1>1, <2>2, LifecycleAssumption DEF ApplyCommit, Ends, RequestOK, CommitType
    <2>3. CASE ApplyDraft(q)
      BY <1>1, <2>3, LifecycleAssumption DEF ApplyDraft, Ends, Delete, Unused, RequestOK
    <2>4. CASE ApplyPublish(q)
      BY <1>1, <2>4, LifecycleAssumption DEF ApplyPublish, Ends, RequestOK
    <2>5. CASE ApplyUnpublish(q)
      BY <2>5, LifecycleAssumption DEF ApplyUnpublish
    <2>6. CASE ApplyTestRun(q) \/ Abort(q)
      BY <2>6, LifecycleAssumption DEF ApplyTestRun, Abort, iterationVars
    <2> QED BY <2>1, <2>2, <2>3, <2>4, <2>5, <2>6 DEF Writes
  <1>4. ASSUME NEW k \in Requests
        PROVE  RequestOK(k)'
    <2>1. CASE k = q
      BY <1>2, <2>1 DEF RequestOK, IdleRequest
    <2>2. CASE k /= q
      BY <1>2, <1>3, <2>2 DEF LiveInv, RequestOK
    <2> QED BY <2>1, <2>2
  <1> QED BY <1>1, <1>2, <1>3, <1>4 DEF LiveInv, Typed

LEMMA CreateKeeps ==
  ASSUME LiveInv, NEW i \in Iterations, CreateScenarioIteration(i)
  PROVE  LiveInv'
  <1>1. Typed' /\ UnusedFree' /\ LiveCommitted'
    BY LifecycleAssumption
       DEF CreateScenarioIteration, Unused, Fresh, LiveInv, Typed, UnusedFree, LiveCommitted
  <1>2. \A q \in Requests : RequestOK(q)'
    BY DEF CreateScenarioIteration, LiveInv, RequestOK
  <1> QED BY <1>1, <1>2 DEF LiveInv

\* The transaction of a commit goes on; what it has read remains.
LEMMA UpdateKeepsRequests ==
  ASSUME LiveInv, NEW q \in Requests, UpdateVersion(q)
  PROVE  /\ LiveInv' /\ UNCHANGED <<iterationVars, contents, overlaps>>
         /\ \A k \in Requests : k /= q => request'[k] = request[k]
         /\ request'[q].op = "commit" /\ request[q].op = "commit"
         /\ request'[q] /= IdleRequest /\ request[q] /= IdleRequest
         /\ request[q] \in CommitType /\ request'[q] \in CommitType
         /\ request'[q].process = request[q].process
         /\ request'[q].iteration = request[q].iteration
         /\ request'[q].version = request[q].version /\ request'[q].updated
         /\ request[q].iteration \in stored /\ request' = [k \in Requests |-> request'[k]]
  <1>1. /\ request[q].op = "commit" /\ request[q] \in CommitType
        /\ request[q].iteration \in stored
        /\ request' = [request EXCEPT ![q] = [request[q] EXCEPT !.updated = TRUE]]
        /\ UNCHANGED <<iterationVars, contents, overlaps>>
    BY DEF UpdateVersion, LiveInv, RequestOK
  <1>2. PICK r \in CommitType : r = request[q]
    BY <1>1
  <1>3. PICK s : s = [r EXCEPT !.updated = TRUE]
    OBVIOUS
  <1>4. /\ s \in CommitType /\ s.op = r.op /\ s.process = r.process
        /\ s.iteration = r.iteration /\ s.version = r.version /\ s.updated
    BY <1>3 DEF CommitType
  <1>5. /\ request'[q] = s /\ \A k \in Requests : k /= q => request'[k] = request[k]
        /\ request' = [k \in Requests |-> request'[k]]
    BY <1>1, <1>2, <1>3 DEF LiveInv, Typed
  <1>6. r.op = "commit" /\ r /= IdleRequest /\ s /= IdleRequest
    BY <1>2, <1>4 DEF CommitType, IdleRequest
  <1>7. LiveInv'
    <2>1. Typed' /\ UnusedFree' /\ LiveCommitted'
      BY <1>1, <1>5 DEF LiveInv, Typed, UnusedFree, LiveCommitted, iterationVars
    <2>2. RequestOK(q)'
      BY <1>4, <1>5, <1>6 DEF RequestOK
    <2>3. \A k \in Requests \ {q} : RequestOK(k)'
      BY <1>1, <1>5 DEF LiveInv, RequestOK, iterationVars
    <2> QED BY <2>1, <2>2, <2>3 DEF LiveInv
  <1> QED BY <1>1, <1>2, <1>3, <1>4, <1>5, <1>6, <1>7

LEMMA NextLive ==
  ASSUME LiveInv, [Next]_vars
  PROVE  LiveInv'
  <1>1. CASE UNCHANGED <<iterationVars, request, contents, overlaps>>
    BY <1>1 DEF LiveInv, Typed, UnusedFree, LiveCommitted, RequestOK, iterationVars
  <1> QED BY <1>1, StepCases, BeginsKeeps, WritesKeeps, UpdateKeepsRequests, CreateKeeps

\* Whatever requests overlap between what they check and what they write, the live
\* version is stored and was committed.
THEOREM LiveIsCommitted == Spec => []LiveCommitted
  <1>1. LiveInv => LiveCommitted
    BY DEF LiveInv
  <1> QED BY <1>1, InitLive, NextLive, PTL DEF Spec

-----------------------------------------------------------------------------
(* Committed iterations are frozen, unless requests overlap.               *)

OneRequest == \A q, k \in Requests :
  request[q] /= IdleRequest /\ request[k] /= IdleRequest => q = k

\* What a request has read of versions still holds when it writes.
ReadStillHolds == \A q \in Requests :
  LET r == request[q]
  IN  /\ r.op = "edit" => version[r.iteration] = 0
      /\ r.op = "commit" => /\ version[r.iteration] = 0
                            /\ \A j \in stored : version[j] < r.version
      /\ r.op = "draft" => \A d \in r.drafts : version[d] = 0

VersionsDiffer == \A i, j \in stored : i /= j /\ version[i] > 0 => version[i] /= version[j]

FrozenInv == overlaps = 0 => OneRequest /\ ReadStillHolds /\ VersionsDiffer

\* What a step may do to the committed iterations.
Frozen == overlaps' = 0 => \A i \in stored : version[i] > 0 =>
  /\ i \in stored' /\ version'[i] = version[i] /\ content'[i] = content[i]
  /\ \A j \in stored' \ {i} : version'[j] /= version[i]

LEMMA InitFrozen == Init => FrozenInv
  BY DEF Init, FrozenInv, OneRequest, ReadStillHolds, VersionsDiffer, IdleRequest

LEMMA BeginsFrozen ==
  ASSUME LiveInv, FrozenInv, NEW q \in Requests, Begins(q)
  PROVE  FrozenInv' /\ Frozen
  <1> SUFFICES ASSUME overlaps' = 0
               PROVE  OneRequest' /\ ReadStillHolds' /\ VersionsDiffer' /\ Frozen
    BY DEF FrozenInv, Frozen
  <1>1. /\ overlaps = 0 /\ \A k \in Requests : request[k] = IdleRequest
        /\ UNCHANGED <<stored, version, content>>
        /\ request' = [request EXCEPT ![q] = request'[q]]
    BY BeginsReads DEF iterationVars
  <1>2. \A k \in Requests : k /= q => request'[k] = IdleRequest
    BY <1>1 DEF LiveInv, Typed
  <1>3. OneRequest'
    BY <1>2 DEF OneRequest
  <1>4. ReadStillHolds'
    <2>1. ASSUME NEW k \in Requests, k /= q
          PROVE  request'[k].op = "idle"
      BY <1>2, <2>1 DEF IdleRequest
    <2>2. /\ request'[q].op = "edit" => version[request'[q].iteration] = 0
          /\ request'[q].op = "commit" =>
               /\ version[request'[q].iteration] = 0
               /\ \A j \in stored : version[j] < request'[q].version
          /\ request'[q].op = "draft" => \A d \in request'[q].drafts : version[d] = 0
      BY BeginsReads DEF Drafts, CommitType
    <2> QED BY <1>1, <2>1, <2>2 DEF ReadStillHolds
  <1>5. VersionsDiffer' /\ Frozen
    BY <1>1 DEF FrozenInv, VersionsDiffer, Frozen
  <1> QED BY <1>3, <1>4, <1>5

LEMMA WritesFrozen ==
  ASSUME LiveInv, FrozenInv, NEW q \in Requests, Writes(q)
  PROVE  FrozenInv' /\ Frozen
  <1> SUFFICES ASSUME overlaps' = 0
               PROVE  OneRequest' /\ ReadStillHolds' /\ VersionsDiffer' /\ Frozen
    BY DEF FrozenInv, Frozen
  <1>1. request' = [request EXCEPT ![q] = IdleRequest] /\ overlaps = 0
    BY DEF Writes, ApplyEdit, ApplyCommit, ApplyDraft, ApplyPublish, ApplyUnpublish,
           ApplyTestRun, Abort, Ends
  <1>2. \A k \in Requests : request'[k] = IF k = q THEN IdleRequest ELSE request[k]
    BY <1>1 DEF LiveInv, Typed
  <1>3. OneRequest' /\ ReadStillHolds'
    <2>1. CASE request[q] = IdleRequest
      <3>1. UNCHANGED <<stored, version>>
        BY <2>1 DEF Writes, ApplyEdit, ApplyCommit, ApplyDraft, ApplyPublish, ApplyUnpublish,
               ApplyTestRun, Abort, Ends, IdleRequest, iterationVars
      <3> QED BY <1>1, <1>2, <2>1, <3>1 DEF FrozenInv, OneRequest, ReadStillHolds
    <2>2. CASE request[q] /= IdleRequest
      <3>1. \A k \in Requests : request'[k] = IdleRequest
        BY <1>1, <1>2, <2>2 DEF FrozenInv, OneRequest
      <3> QED BY <3>1 DEF OneRequest, ReadStillHolds, IdleRequest
    <2> QED BY <2>1, <2>2
  <1>4. RequestOK(q) /\ ReadStillHolds /\ VersionsDiffer
    BY <1>1 DEF LiveInv, FrozenInv
  <1>5. VersionsDiffer' /\ Frozen
    <2> USE DEF LiveInv, Typed
    <2>1. CASE ApplyEdit(q)
      <3>1. /\ request[q].op = "edit" /\ version[request[q].iteration] = 0
            /\ UNCHANGED <<stored, version>>
            /\ content' = [content EXCEPT ![request[q].iteration] = contents']
        BY <1>4, <2>1 DEF ApplyEdit, Ends, ReadStillHolds
      <3> QED BY <1>4, <3>1 DEF VersionsDiffer, Frozen
    <2>2. CASE ApplyCommit(q)
      <3>1. /\ request[q].iteration \in Iterations /\ version[request[q].iteration] = 0
            /\ request[q].version \in Nat \ {0}
            /\ \A j \in stored : version[j] < request[q].version
            /\ UNCHANGED <<stored, content>>
            /\ version' = [version EXCEPT ![request[q].iteration] = request[q].version]
        BY <1>4, <2>2 DEF ApplyCommit, Ends, ReadStillHolds, RequestOK, CommitType
      <3> QED BY <1>4, <3>1 DEF VersionsDiffer, Frozen
    <2>3. CASE ApplyDraft(q)
      <3>1. PICK i \in Iterations : /\ Unused(i) /\ Delete(request[q].drafts, i)
                                    /\ content' = [content EXCEPT ![i] = request[q].content]
        BY <2>3 DEF ApplyDraft
      <3>2. /\ stored' = (stored \ request[q].drafts) \cup {i} /\ version' = version
            /\ i \notin stored /\ version[i] = 0
            /\ \A d \in request[q].drafts : version[d] = 0
        BY <1>4, <2>3, <3>1 DEF ApplyDraft, Delete, Unused, UnusedFree, ReadStillHolds, Ends
      <3> QED BY <1>4, <3>1, <3>2 DEF VersionsDiffer, Frozen
    <2>4. CASE ApplyPublish(q) \/ ApplyUnpublish(q) \/ ApplyTestRun(q) \/ Abort(q)
      <3>1. UNCHANGED <<stored, version, content>>
        BY <2>4 DEF ApplyPublish, ApplyUnpublish, ApplyTestRun, Abort, iterationVars
      <3> QED BY <1>4, <3>1 DEF VersionsDiffer, Frozen
    <2> QED BY <2>1, <2>2, <2>3, <2>4 DEF Writes
  <1> QED BY <1>3, <1>5

LEMMA CreateFrozen ==
  ASSUME LiveInv, FrozenInv, NEW i \in Iterations, CreateScenarioIteration(i)
  PROVE  FrozenInv' /\ Frozen
  <1> SUFFICES ASSUME overlaps' = 0
               PROVE  OneRequest' /\ ReadStillHolds' /\ VersionsDiffer' /\ Frozen
    BY DEF FrozenInv, Frozen
  <1>1. /\ stored' = stored \cup {i} /\ UNCHANGED <<version, request>> /\ overlaps = 0
        /\ i \notin stored /\ version[i] = 0
        /\ content' = [content EXCEPT ![i] = contents']
    BY DEF CreateScenarioIteration, Unused, LiveInv, UnusedFree
  <1>2. OneRequest /\ ReadStillHolds /\ VersionsDiffer
    BY <1>1 DEF FrozenInv
  <1>3. OneRequest' /\ VersionsDiffer' /\ Frozen
    BY <1>1, <1>2 DEF OneRequest, VersionsDiffer, Frozen, LiveInv, Typed
  <1>4. ReadStillHolds'
    BY <1>1, <1>2 DEF ReadStillHolds, LiveInv, RequestOK, CommitType
  <1> QED BY <1>3, <1>4

LEMMA UpdateFrozen ==
  ASSUME LiveInv, FrozenInv, NEW q \in Requests, UpdateVersion(q)
  PROVE  FrozenInv' /\ Frozen
  <1> SUFFICES ASSUME overlaps' = 0
               PROVE  OneRequest' /\ ReadStillHolds' /\ VersionsDiffer' /\ Frozen
    BY DEF FrozenInv, Frozen
  <1>1. UNCHANGED <<stored, version, content, overlaps>>
    BY UpdateKeepsRequests DEF iterationVars
  <1>2. OneRequest'
    BY <1>1, UpdateKeepsRequests DEF FrozenInv, OneRequest
  <1>3. ReadStillHolds'
    <2>1. ASSUME NEW k \in Requests, k /= q
          PROVE  request'[k] = request[k]
      BY <2>1, UpdateKeepsRequests
    <2>2. /\ request'[q].op = "commit" /\ request[q].op = "commit"
          /\ request'[q].iteration = request[q].iteration
          /\ request'[q].version = request[q].version
      BY UpdateKeepsRequests
    <2> QED BY <1>1, <2>1, <2>2 DEF FrozenInv, ReadStillHolds
  <1>4. VersionsDiffer' /\ Frozen
    BY <1>1 DEF FrozenInv, VersionsDiffer, Frozen
  <1> QED BY <1>2, <1>3, <1>4

LEMMA NextFrozen ==
  ASSUME LiveInv, FrozenInv, [Next]_vars
  PROVE  FrozenInv' /\ Frozen
  <1>1. CASE UNCHANGED <<iterationVars, request, contents, overlaps>>
    BY <1>1
       DEF FrozenInv, OneRequest, ReadStillHolds, VersionsDiffer, Frozen, iterationVars
  <1> QED BY <1>1, StepCases, BeginsFrozen, WritesFrozen, UpdateFrozen, CreateFrozen

\* Unless requests overlap, an iteration that was committed is never edited,
\* committed again or deleted, and no other gets its version.
THEOREM CommittedIsFrozen == Spec => CommittedFrozen
  <1>1. LiveInv /\ FrozenInv /\ [Next]_vars => (LiveInv /\ FrozenInv)' /\ Frozen
    BY NextLive, NextFrozen
  <1>2. Init /\ [][Next]_vars => [][Frozen]_vars
    BY <1>1, InitLive, InitFrozen, PTL
  <1> QED BY <1>2, PTL DEF Spec, CommittedFrozen, Frozen

-----------------------------------------------------------------------------
(* A cache holds what was committed, once the process has read that.        *)

ReadType == [process : Processes, iteration : Iterations, content : Nat \ {0},
             committed : BOOLEAN]

CacheTyped ==
  /\ cache \in [Processes -> [Iterations -> Nat]]
  /\ reading \in [Requests -> ReadType \cup {NothingRead}]

\* The process evaluates the iteration as it is, or was reading it when it was edited.
Agrees(p, i) == Evaluated(p, i) = content[i] \/ <<p, i>> \in torn

\* What a request has read is still so, unless it was torn.
ReadHolds(q) ==
  LET r == reading[q]
  IN  r /= NothingRead => /\ \/ r.content = content[r.iteration]
                             \/ <<r.process, r.iteration>> \in torn
                          /\ r.committed => version[r.iteration] > 0

\* A commit reads the iteration in its own process, and after that the cache agrees.
CommitReads(q) ==
  LET r == request[q]
  IN  r.op = "commit" /\ r.updated =>
        /\ content[r.iteration] /= 0
        /\ IF reading[q] = NothingRead THEN Agrees(r.process, r.iteration)
           ELSE reading[q].process = r.process /\ reading[q].iteration = r.iteration

CacheFresh == overlaps = 0 =>
  /\ \A p \in Processes, i \in Iterations :
       <<p, i>> \in aware => Agrees(p, i) /\ version[i] > 0
  /\ \A q \in Requests : ReadHolds(q) /\ CommitReads(q)

CacheInv == CacheTyped /\ CacheFresh

LEMMA NothingIsRead == NothingRead \notin ReadType
  BY LifecycleAssumption DEF NothingRead, ReadType

\* A request reads an iteration: the cache is as before.
LEMMA ReadsCache ==
  ASSUME LiveInv, CacheInv, NEW q \in Requests, NEW p \in Processes, NEW i \in stored,
         Reads(q, p, i), UNCHANGED <<iterationVars, cache, aware, torn>>,
         overlaps' = 0 => overlaps = 0,
         \A k \in Requests : k /= q => request'[k] = request[k],
         request'[q].op = "commit" /\ request'[q].updated =>
           request'[q].process = p /\ request'[q].iteration = i
  PROVE  CacheInv'
  <1> DEFINE new == [process |-> p, iteration |-> i, content |-> content[i],
                     committed |-> version[i] > 0]
  <1>1. /\ i \in Iterations /\ content[i] \in Nat \ {0} /\ (version[i] > 0) \in BOOLEAN
        /\ UNCHANGED <<stored, version, content, cache, aware, torn>>
    BY DEF LiveInv, Typed, UnusedFree, iterationVars
  <1>2. /\ new \in ReadType /\ new.process = p /\ new.iteration = i
        /\ new.content = content[i] /\ (new.committed => version[i] > 0)
    BY <1>1 DEF ReadType
  <1>3. reading' = [reading EXCEPT ![q] = new]
    BY DEF Reads
  <1> HIDE DEF new
  <1>4. /\ reading'[q] = new /\ new /= NothingRead
        /\ \A k \in Requests : k /= q => reading'[k] = reading[k]
    BY <1>2, <1>3, NothingIsRead DEF CacheInv, CacheTyped
  <1>5. CacheTyped'
    BY <1>2, <1>3 DEF CacheInv, CacheTyped
  <1>6. ASSUME overlaps' = 0
        PROVE  /\ \A x \in Processes, j \in Iterations :
                    <<x, j>> \in aware' => Agrees(x, j)' /\ version'[j] > 0
               /\ \A k \in Requests : ReadHolds(k)' /\ CommitReads(k)'
    <2>1. overlaps = 0
      BY <1>6
    <2>2. \A x \in Processes, j \in Iterations :
            <<x, j>> \in aware' => Agrees(x, j)' /\ version'[j] > 0
      BY <1>1, <2>1 DEF CacheInv, CacheFresh, Agrees, Evaluated
    <2>3. ReadHolds(q)'
      BY <1>1, <1>2, <1>4 DEF ReadHolds
    <2>4. \A k \in Requests : k /= q => ReadHolds(k)'
      BY <1>1, <1>4, <2>1 DEF CacheInv, CacheFresh, ReadHolds
    <2>5. CommitReads(q)'
      BY <1>1, <1>2, <1>4 DEF CommitReads
    <2>6. ASSUME NEW k \in Requests, k /= q
          PROVE  CommitReads(k)'
      <3>1. CommitReads(k) /\ request'[k] = request[k] /\ reading'[k] = reading[k]
        BY <1>4, <2>1, <2>6 DEF CacheInv, CacheFresh
      <3>2. \A x, j : Agrees(x, j) => Agrees(x, j)'
        BY <1>1 DEF Agrees, Evaluated
      <3> QED BY <1>1, <3>1, <3>2 DEF CommitReads
    <2> QED BY <2>2, <2>3, <2>4, <2>5, <2>6
  <1> QED BY <1>5, <1>6 DEF CacheInv, CacheFresh

LEMMA BeginsCache ==
  ASSUME LiveInv, CacheInv, NEW q \in Requests, Begins(q)
  PROVE  CacheInv'
  <1>1. PICK p \in Processes, i \in Iterations :
          \/ BeginEdit(q, p, i) \/ BeginCommit(q, p, i) \/ BeginDraft(q, p, i)
          \/ BeginPublish(q, p, i) \/ BeginUnpublish(q, p, i) \/ BeginTestRun(q, p, i)
    BY DEF Begins
  <1>2. PICK r : Started(q, r)
    BY <1>1 DEF BeginEdit, BeginCommit, BeginDraft, BeginPublish, BeginUnpublish, BeginTestRun
  <1>3. Reads(q, p, i) /\ i \in stored
    BY <1>1 DEF BeginEdit, BeginCommit, BeginDraft, BeginPublish, BeginUnpublish,
                BeginTestRun, IsDraft
  <1>4. UNCHANGED <<iterationVars, cache, aware, torn>>
    BY <1>2 DEF Started
  <1>5. /\ \A k \in Requests : k /= q => request'[k] = request[k]
        /\ overlaps' = 0 => overlaps = 0
    BY BeginsReads DEF LiveInv, Typed
  <1>6. request'[q].op = "commit" => ~request'[q].updated
    BY BeginsReads
  <1> QED BY <1>3, <1>4, <1>5, <1>6, ReadsCache

\* What is added to a cache agrees, and makes the process aware of what was committed.
LEMMA AddsCache ==
  ASSUME LiveInv, CacheInv, NEW q \in Requests, AddToCache(q)
  PROVE  CacheInv'
  <1>1. PICK r \in ReadType : r = reading[q]
    BY DEF AddToCache, CacheInv, CacheTyped
  <1>2. /\ r.process \in Processes /\ r.iteration \in Iterations /\ r.content \in Nat \ {0}
        /\ r /= NothingRead
    BY NothingIsRead DEF ReadType
  <1>3. /\ reading' = [reading EXCEPT ![q] = NothingRead]
        /\ cache' = [cache EXCEPT ![r.process][r.iteration] = r.content]
        /\ aware' = IF r.committed THEN aware \cup {<<r.process, r.iteration>>} ELSE aware
        /\ UNCHANGED <<stored, version, content, request, torn, overlaps>>
    BY <1>1 DEF AddToCache, Cached, iterationVars
  <1>4. CacheTyped'
    BY <1>2, <1>3 DEF CacheInv, CacheTyped
  <1>5. /\ reading'[q] = NothingRead
        /\ \A k \in Requests : k /= q => reading'[k] = reading[k]
        /\ \A p \in Processes, i \in Iterations :
             cache'[p][i] = IF p = r.process /\ i = r.iteration THEN r.content ELSE cache[p][i]
    BY <1>2, <1>3 DEF CacheInv, CacheTyped
  <1>6. ASSUME overlaps' = 0
        PROVE  /\ \A p \in Processes, i \in Iterations :
                    <<p, i>> \in aware' => Agrees(p, i)' /\ version'[i] > 0
               /\ \A k \in Requests : ReadHolds(k)' /\ CommitReads(k)'
    <2>1. /\ overlaps = 0
          /\ r.content = content[r.iteration] \/ <<r.process, r.iteration>> \in torn
          /\ r.committed => version[r.iteration] > 0
      BY <1>1, <1>2, <1>3, <1>6 DEF CacheInv, CacheFresh, ReadHolds
    <2>2. Agrees(r.process, r.iteration)'
      BY <1>2, <1>3, <1>5, <2>1 DEF Agrees, Evaluated, NotCached
    <2>3. \A p \in Processes, i \in Iterations : Agrees(p, i) => Agrees(p, i)'
      <3> SUFFICES ASSUME NEW p \in Processes, NEW i \in Iterations, Agrees(p, i)
                   PROVE  Agrees(p, i)'
        OBVIOUS
      <3>1. CASE p = r.process /\ i = r.iteration
        BY <2>2, <3>1
      <3>2. CASE ~(p = r.process /\ i = r.iteration)
        BY <1>3, <1>5, <3>2 DEF Agrees, Evaluated
      <3> QED BY <3>1, <3>2
    <2>4. ASSUME NEW p \in Processes, NEW i \in Iterations, <<p, i>> \in aware'
          PROVE  Agrees(p, i)' /\ version'[i] > 0
      <3>1. CASE <<p, i>> \in aware
        BY <1>3, <2>1, <2>3, <3>1 DEF CacheInv, CacheFresh
      <3>2. CASE <<p, i>> \notin aware
        <4>1. p = r.process /\ i = r.iteration /\ r.committed
          BY <1>3, <2>4, <3>2
        <4> QED BY <1>3, <2>1, <2>2, <4>1
      <3> QED BY <3>1, <3>2
    <2>5. \A k \in Requests : ReadHolds(k)'
      BY <1>3, <1>5, <2>1 DEF CacheInv, CacheFresh, ReadHolds
    <2>6. ASSUME NEW k \in Requests
          PROVE  CommitReads(k)'
      <3> SUFFICES ASSUME request[k].op = "commit", request[k].updated
                   PROVE  CommitReads(k)'
        BY <1>3 DEF CommitReads
      <3>0. CommitReads(k) /\ request[k] \in CommitType /\ request'[k] = request[k]
        BY <1>3, <2>1 DEF CacheInv, CacheFresh, LiveInv, RequestOK
      <3>1. CASE k = q
        BY <1>1, <1>2, <1>3, <1>5, <2>2, <3>0, <3>1 DEF CommitReads
      <3>2. CASE k /= q
        BY <1>3, <1>5, <2>3, <3>0, <3>2 DEF CommitReads, CommitType
      <3> QED BY <3>1, <3>2
    <2> QED BY <2>4, <2>5, <2>6
  <1> QED BY <1>4, <1>6 DEF CacheInv, CacheFresh

\* A step that gives no iteration with a version another content, and tears what is being
\* read of one that gets another content.
LEMMA WritesAgree ==
  ASSUME LiveInv, CacheInv, CacheTyped', UNCHANGED cache, overlaps' = 0 => overlaps = 0,
         torn \subseteq torn',
         overlaps = 0 => \A i \in Iterations : version[i] > 0 =>
           version'[i] > 0 /\ content'[i] = content[i],
         overlaps = 0 => \A k \in Requests : reading'[k] /= NothingRead =>
           /\ reading'[k] = reading[k]
           /\ \/ content'[reading[k].iteration] = content[reading[k].iteration]
              \/ <<reading[k].process, reading[k].iteration>> \in torn',
         overlaps = 0 => \A p \in Processes, i \in Iterations :
           <<p, i>> \in aware' => <<p, i>> \in aware \/ (Agrees(p, i)' /\ version'[i] > 0),
         overlaps = 0 => \A k \in Requests : CommitReads(k)'
  PROVE  CacheInv'
  <1> SUFFICES ASSUME overlaps' = 0
               PROVE  /\ \A p \in Processes, i \in Iterations :
                           <<p, i>> \in aware' => Agrees(p, i)' /\ version'[i] > 0
                      /\ \A k \in Requests : ReadHolds(k)'
    BY DEF CacheInv, CacheFresh
  <1>1. ASSUME NEW p \in Processes, NEW i \in Iterations, <<p, i>> \in aware
        PROVE  Agrees(p, i)' /\ version'[i] > 0
    <2>1. Agrees(p, i) /\ version[i] > 0
      BY <1>1 DEF CacheInv, CacheFresh
    <2> QED BY <2>1 DEF Agrees, Evaluated
  <1>2. ASSUME NEW k \in Requests, reading'[k] /= NothingRead
        PROVE  ReadHolds(k)'
    <2>1. PICK r \in ReadType : r = reading[k] /\ r = reading'[k]
      BY <1>2 DEF CacheInv, CacheTyped
    <2>2. /\ r.content = content[r.iteration] \/ <<r.process, r.iteration>> \in torn
          /\ r.committed => version[r.iteration] > 0
          /\ r.iteration \in Iterations
      BY <1>2, <2>1 DEF CacheInv, CacheFresh, ReadHolds, ReadType
    <2>3. /\ r.content = content'[r.iteration] \/ <<r.process, r.iteration>> \in torn'
          /\ r.committed => version'[r.iteration] > 0
      BY <1>2, <2>1, <2>2
    <2> QED BY <2>1, <2>3 DEF ReadHolds
  <1>3. \A k \in Requests : ReadHolds(k)'
    BY <1>2 DEF ReadHolds
  <1> QED BY <1>1, <1>3

\* An edit tears what is being read of the iteration, which has no version; a commit has
\* read what it gives one to.
LEMMA WritesCache ==
  ASSUME LiveInv, FrozenInv, CacheInv, NEW q \in Requests, Writes(q)
  PROVE  CacheInv'
  <1>1. /\ request' = [request EXCEPT ![q] = IdleRequest] /\ overlaps' = overlaps
        /\ cache' = cache
    BY DEF Writes, ApplyEdit, ApplyCommit, ApplyDraft, ApplyPublish, ApplyUnpublish,
           ApplyTestRun, Abort, Ends
  <1>2. /\ reading' = [reading EXCEPT ![q] = NothingRead]
        /\ \/ reading[q] = NothingRead \/ Abort(q)
    BY DEF Writes, ApplyEdit, ApplyCommit, ApplyDraft, ApplyPublish, ApplyUnpublish,
           ApplyTestRun, Abort, Ends, CacheInv, CacheTyped
  <1>3. /\ CacheTyped' /\ reading'[q] = NothingRead
        /\ \A k \in Requests : k /= q => reading'[k] = reading[k]
    BY <1>1, <1>2 DEF CacheInv, CacheTyped
  <1>4. \A k \in Requests : request'[k] = IF k = q THEN IdleRequest ELSE request[k]
    BY <1>1 DEF LiveInv, Typed
  <1>5. ASSUME overlaps = 0, request[q] /= IdleRequest, NEW k \in Requests
        PROVE  CommitReads(k)'
    <2>1. request'[k] = IdleRequest
      BY <1>4, <1>5 DEF FrozenInv, OneRequest
    <2> QED BY <2>1 DEF CommitReads, IdleRequest
  <1>6. \A k \in Requests : reading[k] /= NothingRead => reading[k].iteration \in Iterations
    BY DEF CacheInv, CacheTyped, ReadType
  <1>7. CASE ApplyEdit(q)
    <2>1. /\ request[q].op = "edit" /\ request[q].iteration \in Iterations
          /\ content' = [content EXCEPT ![request[q].iteration] = contents']
          /\ torn' = torn \cup
               {<<p, request[q].iteration>> : p \in NotAdded(request[q].iteration)}
          /\ UNCHANGED <<version, aware>> /\ request[q] /= IdleRequest
      BY <1>7 DEF ApplyEdit, Ends, LiveInv, RequestOK, IdleRequest
    <2>2. overlaps = 0 => version[request[q].iteration] = 0
      BY <2>1 DEF FrozenInv, ReadStillHolds
    <2>3. overlaps = 0 => \A i \in Iterations : version[i] > 0 => content'[i] = content[i]
      BY <2>1, <2>2 DEF LiveInv, Typed
    <2>4. ASSUME NEW k \in Requests, reading'[k] /= NothingRead
          PROVE  /\ reading'[k] = reading[k]
                 /\ \/ content'[reading[k].iteration] = content[reading[k].iteration]
                    \/ <<reading[k].process, reading[k].iteration>> \in torn'
      <3>1. reading'[k] = reading[k] /\ reading[k].iteration \in Iterations
        BY <1>3, <1>6, <2>4
      <3>2. CASE reading[k].iteration = request[q].iteration
        BY <2>1, <3>1, <3>2 DEF NotAdded
      <3>3. CASE reading[k].iteration /= request[q].iteration
        BY <2>1, <3>1, <3>3 DEF LiveInv, Typed
      <3> QED BY <3>1, <3>2, <3>3
    <2> QED BY <1>1, <1>3, <1>5, <2>1, <2>3, <2>4, WritesAgree
  <1>8. CASE ApplyCommit(q)
    <2>1. /\ request[q] \in CommitType /\ request[q].updated /\ request[q].op = "commit"
          /\ reading[q] = NothingRead /\ request[q] /= IdleRequest
          /\ version' = [version EXCEPT ![request[q].iteration] = request[q].version]
          /\ aware' = aware \cup {<<request[q].process, request[q].iteration>>}
          /\ content' = content /\ torn' = torn
      BY <1>8 DEF ApplyCommit, Ends, LiveInv, RequestOK, IdleRequest
    <2>2. request[q].iteration \in Iterations /\ request[q].version \in Nat \ {0}
      BY <2>1 DEF CommitType
    <2>3. version'[request[q].iteration] > 0
      BY <2>1, <2>2 DEF LiveInv, Typed
    <2>4. \A i \in Iterations : version[i] > 0 => version'[i] > 0
      BY <2>1, <2>2, <2>3 DEF LiveInv, Typed
    <2>5. overlaps = 0 => Agrees(request[q].process, request[q].iteration)
      BY <2>1 DEF CacheInv, CacheFresh, CommitReads
    <2>6. ASSUME overlaps = 0, NEW p \in Processes, NEW i \in Iterations,
                 <<p, i>> \in aware', <<p, i>> \notin aware
          PROVE  Agrees(p, i)' /\ version'[i] > 0
      <3>1. p = request[q].process /\ i = request[q].iteration
        BY <2>1, <2>6
      <3>2. Agrees(p, i) /\ version'[i] > 0
        BY <2>3, <2>5, <2>6, <3>1
      <3> QED BY <1>1, <2>1, <3>2 DEF Agrees, Evaluated
    <2> QED BY <1>1, <1>3, <1>5, <2>1, <2>4, <2>6, WritesAgree
  <1>9. CASE ApplyDraft(q)
    <2>1. PICK i \in Iterations : /\ content[i] = 0
                                  /\ content' = [content EXCEPT ![i] = request[q].content]
      BY <1>9 DEF ApplyDraft, Unused
    <2>2. version' = version /\ aware' = aware /\ torn' = torn /\ request[q] /= IdleRequest
      BY <1>9 DEF ApplyDraft, Ends, IdleRequest
    <2>3. \A j \in Iterations : version[j] > 0 => content'[j] = content[j]
      BY <2>1 DEF LiveInv, Typed, UnusedFree
    <2>4. ASSUME overlaps = 0, NEW k \in Requests, reading'[k] /= NothingRead
          PROVE  \/ content'[reading[k].iteration] = content[reading[k].iteration]
                 \/ <<reading[k].process, reading[k].iteration>> \in torn'
      <3>1. reading[k] /= NothingRead
        BY <1>3, <2>4
      <3>2. PICK r \in ReadType : r = reading[k]
        BY <3>1 DEF CacheInv, CacheTyped
      <3>3. /\ r.content = content[r.iteration] \/ <<r.process, r.iteration>> \in torn
            /\ r.content /= 0 /\ r.iteration \in Iterations
        BY <2>4, <3>1, <3>2 DEF CacheInv, CacheFresh, ReadHolds, ReadType
      <3> QED BY <2>1, <2>2, <3>2, <3>3 DEF LiveInv, Typed
    <2> QED BY <1>1, <1>3, <1>5, <2>2, <2>3, <2>4, WritesAgree
  <1>10. CASE ApplyPublish(q) \/ ApplyUnpublish(q) \/ ApplyTestRun(q)
    <2>1. UNCHANGED <<version, content, aware, torn>> /\ request[q] /= IdleRequest
      BY <1>10 DEF ApplyPublish, ApplyUnpublish, ApplyTestRun, Ends, iterationVars, IdleRequest
    <2> QED BY <1>1, <1>3, <1>5, <2>1, WritesAgree
  <1>11. CASE Abort(q)
    <2>1. UNCHANGED <<version, content, aware, torn>>
      BY <1>11 DEF Abort, iterationVars, historyVars
    <2>2. overlaps = 0 => \A k \in Requests : CommitReads(k)'
      BY <1>1, <1>3, <1>4, <2>1
         DEF CacheInv, CacheFresh, CommitReads, Agrees, Evaluated, IdleRequest
    <2> QED BY <1>1, <1>3, <2>1, <2>2, WritesAgree
  <1> QED BY <1>7, <1>8, <1>9, <1>10, <1>11 DEF Writes

LEMMA NextCache ==
  ASSUME LiveInv, FrozenInv, CacheInv, [Next]_vars
  PROVE  CacheInv'
  <1>1. ASSUME NEW q \in Requests, NEW p \in Processes, NEW i \in Iterations, View(q, p, i)
        PROVE  CacheInv'
    <2>1. /\ i \in stored /\ Reads(q, p, i) /\ request' = request /\ request[q].op = "idle"
          /\ UNCHANGED <<iterationVars, cache, aware, torn, overlaps>>
      BY <1>1 DEF View, historyVars, IdleRequest
    <2> QED BY <2>1, ReadsCache
  <1>2. ASSUME NEW p \in Processes, NEW i \in Iterations, Evict(p, i)
        PROVE  CacheInv'
    <2>1. /\ cache' = [cache EXCEPT ![p][i] = 0]
          /\ UNCHANGED <<stored, version, content, request, reading, aware, torn, overlaps>>
      BY <1>2 DEF Evict, NotCached, iterationVars, historyVars
    <2>2. /\ CacheTyped'
          /\ \A k \in Processes, j \in Iterations :
               cache'[k][j] = IF k = p /\ j = i THEN 0 ELSE cache[k][j]
      BY <2>1 DEF CacheInv, CacheTyped
    <2>3. \A k \in Processes, j \in Iterations : Agrees(k, j) => Agrees(k, j)'
      BY <2>1, <2>2 DEF Agrees, Evaluated, NotCached
    <2>4. \A k \in Requests : CommitReads(k) => CommitReads(k)'
      <3> SUFFICES ASSUME NEW k \in Requests, request[k].op = "commit", CommitReads(k)
                   PROVE  CommitReads(k)'
        BY <2>1 DEF CommitReads
      <3>1. request[k] \in CommitType /\ request'[k] = request[k]
        BY <2>1 DEF LiveInv, RequestOK
      <3> QED BY <2>1, <2>3, <3>1 DEF CommitReads, CommitType
    <2>5. CacheFresh'
      BY <2>1, <2>3, <2>4 DEF CacheInv, CacheFresh, ReadHolds
    <2> QED BY <2>2, <2>5 DEF CacheInv
  <1>3. ASSUME NEW q \in Requests, AddToCache(q)
        PROVE  CacheInv'
    BY <1>3, AddsCache
  <1>4. ASSUME NEW i \in Iterations, CreateScenarioIteration(i)
        PROVE  CacheInv'
    <2>1. /\ content[i] = 0 /\ content' = [content EXCEPT ![i] = contents']
          /\ UNCHANGED <<version, request, reading, cache, aware, torn, overlaps>>
      BY <1>4 DEF CreateScenarioIteration, Unused, cacheVars, historyVars
    <2>2. CacheTyped'
      BY <2>1 DEF CacheInv, CacheTyped
    <2>3. \A j \in Iterations : content[j] /= 0 => content'[j] = content[j]
      BY <2>1 DEF LiveInv, Typed
    <2>4. \A j \in Iterations : version[j] > 0 => content'[j] = content[j]
      BY <2>3 DEF LiveInv, Typed, UnusedFree
    <2>5. ASSUME overlaps = 0, NEW k \in Requests, reading'[k] /= NothingRead
          PROVE  \/ content'[reading[k].iteration] = content[reading[k].iteration]
                 \/ <<reading[k].process, reading[k].iteration>> \in torn'
      <3>1. PICK r \in ReadType : r = reading[k]
        BY <2>1, <2>5 DEF CacheInv, CacheTyped
      <3>2. /\ r.content = content[r.iteration] \/ <<r.process, r.iteration>> \in torn
            /\ r.content /= 0 /\ r.iteration \in Iterations
        BY <2>1, <2>5, <3>1 DEF CacheInv, CacheFresh, ReadHolds, ReadType
      <3> QED BY <2>1, <2>3, <3>1, <3>2
    <2>6. ASSUME overlaps = 0, NEW k \in Requests
          PROVE  CommitReads(k)'
      <3> SUFFICES ASSUME request[k].op = "commit", request[k].updated
                   PROVE  CommitReads(k)'
        BY <2>1 DEF CommitReads
      <3>1. CommitReads(k) /\ request[k].iteration \in Iterations /\ request'[k] = request[k]
        BY <2>1, <2>6 DEF CacheInv, CacheFresh, LiveInv, RequestOK, CommitType
      <3>2. content[request[k].iteration] /= 0
        BY <3>1 DEF CommitReads
      <3>3. content'[request[k].iteration] = content[request[k].iteration]
        BY <2>3, <3>1, <3>2
      <3> QED BY <2>1, <3>1, <3>2, <3>3 DEF CommitReads, Agrees, Evaluated
    <2> QED BY <2>1, <2>2, <2>4, <2>5, <2>6, WritesAgree
  <1>5. CASE UNCHANGED <<iterationVars, request, cacheVars, overlaps>>
    BY <1>5 DEF iterationVars, cacheVars, historyVars, CacheInv, CacheTyped, CacheFresh,
                Agrees, Evaluated, ReadHolds, CommitReads
  <1>6. ASSUME NEW q \in Requests, UpdateVersion(q)
        PROVE  CacheInv'
    <2>1. /\ Reads(q, request[q].process, request[q].iteration)
          /\ UNCHANGED <<iterationVars, cache, aware, torn, overlaps>>
      BY <1>6 DEF UpdateVersion, historyVars
    <2>2. /\ request[q].process \in Processes /\ request[q].iteration \in stored
          /\ \A k \in Requests : k /= q => request'[k] = request[k]
          /\ request'[q].process = request[q].process
          /\ request'[q].iteration = request[q].iteration
      BY <1>6, UpdateKeepsRequests DEF CommitType
    <2> QED BY <2>1, <2>2, ReadsCache
  <1>7. ASSUME NEW q \in Requests, Begins(q) \/ Writes(q)
        PROVE  CacheInv'
    BY <1>7, BeginsCache, WritesCache
  <1>8. CASE \E t \in TestRuns : CreateIndexes(t) \/ Callback(t) \/ CancelTestRunById(t)
    <2>1. UNCHANGED <<stored, version, content, request, reading, cache, aware, torn, overlaps>>
      BY <1>8 DEF CreateIndexes, Callback, CancelTestRunById, iterationVars, cacheVars,
                  historyVars
    <2> QED BY <2>1 DEF CacheInv, CacheTyped, CacheFresh, Agrees, Evaluated, ReadHolds,
                        CommitReads
  <1> QED BY <1>1, <1>2, <1>3, <1>4, <1>5, <1>6, <1>7, <1>8
          DEF Next, vars, Begins, Writes

\* However many processes read the iterations into a cache of their own, each evaluates the
\* live version as it was committed once it has committed or read it, unless requests
\* overlap or it was reading the draft while that was edited.
THEOREM EvaluatesWhatIsCommitted == Spec => []EvaluatedAsCommitted
  <1>1. Init => CacheInv
    <2> SUFFICES ASSUME Init PROVE CacheInv
      OBVIOUS
    <2>1. \A q \in Requests : reading[q] = NothingRead /\ request[q].op = "idle"
      BY DEF Init, IdleRequest
    <2>2. CacheTyped
      BY DEF Init, CacheTyped, NotCached
    <2>3. CacheFresh
      BY <2>1 DEF Init, CacheFresh, CommitReads, ReadHolds
    <2> QED BY <2>2, <2>3 DEF CacheInv
  <1>2. LiveInv /\ FrozenInv /\ CacheInv /\ [Next]_vars => (LiveInv /\ FrozenInv /\ CacheInv)'
    BY NextLive, NextFrozen, NextCache
  <1>3. LiveInv /\ CacheInv => EvaluatedAsCommitted
    BY DEF LiveInv, Typed, LiveCommitted, CacheInv, CacheFresh, Agrees, EvaluatedAsCommitted
  <1> QED BY <1>1, <1>2, <1>3, InitLive, InitFrozen, PTL DEF Spec

-----------------------------------------------------------------------------
(* One test run is up, next to the live version.                           *)

RunTyped == testRun \in [TestRuns ->
  [status : {"none", "pending", "up", "down"}, iteration : Iterations \cup {None},
   live : Iterations \cup {None}, indexes : {"creating", "created", "done"}]]

\* A test run that is up, or that its callback may still set up in time.
GoesOn(t) ==
  /\ t \notin overtaken
  /\ \/ testRun[t].status = "up"
     \/ testRun[t].status = "pending" /\ testRun[t].indexes /= "done"

\* It is the last test run, next to the live version.
RunOK(t) ==
  /\ testRun[t] /= NoTestRun =>
       /\ testRun[t].iteration \in Iterations /\ testRun[t].live \in Iterations
       /\ \A u \in TestRuns : u < t => testRun[u] /= NoTestRun /\ ~GoesOn(u)
  /\ GoesOn(t) => testRun[t].live = live

\* What the request that is handled has read of the live version and of the test
\* runs still holds.
ReadOfRuns(q) ==
  LET r == request[q]
  IN  /\ r.op = "publish" => r.live = live
      /\ r.op = "unpublish" => r.iteration = live
      /\ r.op = "test" => /\ r.iteration \in Iterations /\ live \in Iterations
                          /\ r.live = live /\ \A t \in TestRuns : ~GoesOn(t)

RunInv == overlaps = 0 =>
  RunTyped /\ (\A t \in TestRuns : RunOK(t)) /\ \A q \in Requests : ReadOfRuns(q)

LEMMA InitRuns == Init => RunInv
  BY DEF Init, RunInv, RunTyped, RunOK, GoesOn, ReadOfRuns, NoTestRun, IdleRequest

\* A step leaves a test run where it is, and it goes on only if it did before and the
\* live version is the same.
Remains(t) ==
  /\ testRun'[t] = NoTestRun <=> testRun[t] = NoTestRun
  /\ testRun'[t].iteration = testRun[t].iteration /\ testRun'[t].live = testRun[t].live
  /\ GoesOn(t)' => GoesOn(t) /\ live' = live

LEMMA RunsRemain ==
  ASSUME \A t \in TestRuns : RunOK(t) /\ Remains(t)
  PROVE  \A t \in TestRuns : RunOK(t)'
  <1>1. UNCHANGED TestRuns
    BY DEF TestRuns
  <1> QED BY <1>1 DEF RunOK, Remains

\* When a test run is asked for, those whose callback is still to come are late.
LEMMA BeginsRuns ==
  ASSUME LiveInv, FrozenInv, RunInv, NEW q \in Requests, Begins(q)
  PROVE  RunInv'
  <1> SUFFICES ASSUME overlaps' = 0
               PROVE  RunInv'
    BY DEF RunInv
  <1>1. /\ overlaps = 0 /\ live' = live
        /\ \A k \in Requests : k /= q => request'[k] = IdleRequest
    BY BeginsReads DEF LiveInv, Typed, iterationVars
  <1>2. PICK p \in Processes, i \in Iterations :
          \/ BeginEdit(q, p, i) \/ BeginCommit(q, p, i) \/ BeginDraft(q, p, i)
          \/ BeginPublish(q, p, i) \/ BeginUnpublish(q, p, i) \/ BeginTestRun(q, p, i)
    BY DEF Begins
  <1>3. /\ testRun' = testRun /\ overtaken \subseteq overtaken'
        /\ RunTyped /\ (\A t \in TestRuns : RunOK(t))
    <2>1. testRun' = testRun /\ overtaken \subseteq overtaken'
      BY <1>2 DEF BeginEdit, BeginCommit, BeginDraft, BeginPublish, BeginUnpublish,
                  BeginTestRun, Started
    <2> QED BY <1>1, <2>1 DEF RunInv
  <1>4. RunTyped' /\ \A t \in TestRuns : RunOK(t)'
    BY <1>1, <1>3 DEF RunTyped, RunOK, GoesOn, TestRuns
  <1>5. ReadOfRuns(q)'
    <2> USE DEF LiveInv, Typed
    <2>1. CASE BeginEdit(q, p, i) \/ BeginCommit(q, p, i) \/ BeginDraft(q, p, i)
      <3>1. request'[q].op \in {"edit", "commit", "draft"}
        BY <2>1 DEF BeginEdit, BeginCommit, BeginDraft, Started
      <3> QED BY <1>3, <3>1 DEF ReadOfRuns, TestRuns
    <2>2. CASE BeginPublish(q, p, i)
      <3>1. request'[q] = [op |-> "publish", iteration |-> i, live |-> live]
        BY <2>2 DEF BeginPublish, Started
      <3> QED BY <1>1, <1>3, <3>1 DEF ReadOfRuns, TestRuns
    <2>3. CASE BeginUnpublish(q, p, i)
      <3>1. request'[q] = [op |-> "unpublish", iteration |-> i] /\ live = i
        BY <2>3 DEF BeginUnpublish, Started
      <3> QED BY <1>1, <1>3, <3>1 DEF ReadOfRuns, TestRuns
    <2>4. CASE BeginTestRun(q, p, i)
      <3>1. /\ request'[q] = [op |-> "test", iteration |-> i, live |-> live]
            /\ live \in Iterations /\ Up = {} /\ overtaken' = overtaken \cup Awaited
        BY <2>4 DEF BeginTestRun, Started
      <3>2. \A t \in TestRuns : ~GoesOn(t)'
        BY <1>3, <3>1 DEF GoesOn, Up, Awaited
      <3> QED BY <1>1, <1>3, <3>1, <3>2 DEF ReadOfRuns, TestRuns
    <2> QED BY <1>2, <2>1, <2>2, <2>3, <2>4
  <1>6. \A k \in Requests : ReadOfRuns(k)'
    BY <1>1, <1>5 DEF ReadOfRuns, IdleRequest
  <1> QED BY <1>4, <1>6 DEF RunInv, TestRuns

\* The test run that goes on is the last one next to the live version: what is shut
\* down with that version is the one that is up.
LEMMA NoneOutlives ==
  ASSUME LiveInv, RunTyped, \A t \in TestRuns : RunOK(t),
         NEW new, new \in Iterations \cup {None}, ShutDown(live, new),
         overtaken' = overtaken
  PROVE  RunTyped' /\ \A t \in TestRuns : Remains(t)
  <1>1. \A t \in TestRuns : testRun'[t] =
          IF t \in LastNextTo(live) \cup LastNextTo(new)
          THEN [testRun[t] EXCEPT !.status = "down"] ELSE testRun[t]
    BY DEF ShutDown
  <1>2. RunTyped'
    BY <1>1 DEF RunTyped, ShutDown, TestRuns
  <1>3. ASSUME NEW t \in TestRuns, GoesOn(t)
        PROVE  t \in LastNextTo(live)
    <2>1. testRun[t] /= NoTestRun
      BY <1>3 DEF NoTestRun, GoesOn
    <2>2. testRun[t].live = live /\ live \in Iterations
      BY <1>3, <2>1 DEF RunOK, GoesOn
    <2>3. \A u \in TestRuns : testRun[u].status /= "none" => u <= t
      <3> SUFFICES ASSUME NEW u \in TestRuns, testRun[u].status /= "none", ~(u <= t)
                   PROVE  FALSE
        OBVIOUS
      <3>1. t < u /\ testRun[u] /= NoTestRun
        BY DEF TestRuns, NoTestRun
      <3> QED BY <1>3, <3>1 DEF RunOK, GoesOn
    <2> QED BY <1>3, <2>2, <2>3, LifecycleAssumption DEF LastNextTo, GoesOn
  <1>4. \A t \in LastNextTo(live) \cup LastNextTo(new) : testRun[t].status /= "none"
    BY DEF LastNextTo
  <1>5. ASSUME NEW t \in TestRuns
        PROVE  Remains(t)
    <2>1. CASE t \in LastNextTo(live) \cup LastNextTo(new)
      <3>1. /\ testRun'[t] = [testRun[t] EXCEPT !.status = "down"]
            /\ testRun[t].status /= "none"
        BY <1>1, <1>4, <2>1
      <3>2. /\ testRun'[t].status = "down"
            /\ testRun'[t].iteration = testRun[t].iteration
            /\ testRun'[t].live = testRun[t].live
        BY <3>1 DEF RunTyped
      <3> QED BY <3>1, <3>2 DEF Remains, GoesOn, NoTestRun
    <2>2. CASE t \notin LastNextTo(live) \cup LastNextTo(new)
      BY <1>1, <1>3, <2>2 DEF Remains, GoesOn
    <2> QED BY <2>1, <2>2
  <1> QED BY <1>2, <1>5

LEMMA WritesRuns ==
  ASSUME LiveInv, FrozenInv, RunInv, NEW q \in Requests, Writes(q)
  PROVE  RunInv'
  <1> SUFFICES ASSUME overlaps' = 0
               PROVE  RunInv'
    BY DEF RunInv
  <1>1. request' = [request EXCEPT ![q] = IdleRequest] /\ overlaps = 0
    BY DEF Writes, ApplyEdit, ApplyCommit, ApplyDraft, ApplyPublish, ApplyUnpublish,
           ApplyTestRun, Abort, Ends
  <1>4. /\ RunTyped /\ (\A t \in TestRuns : RunOK(t)) /\ ReadOfRuns(q)
        /\ overtaken' = overtaken
    <2>1. overtaken' = overtaken
      BY DEF Writes, ApplyEdit, ApplyCommit, ApplyDraft, ApplyPublish, ApplyUnpublish,
             ApplyTestRun, Abort, Ends, historyVars
    <2> QED BY <1>1, <2>1 DEF RunInv
  <1>5. RunTyped' /\ \A t \in TestRuns : RunOK(t)'
    <2>1. CASE ApplyEdit(q) \/ ApplyCommit(q) \/ Abort(q)
      <3>1. testRun' = testRun /\ live' = live
        BY <2>1 DEF ApplyEdit, ApplyCommit, Abort, iterationVars
      <3> QED BY <1>4, <3>1 DEF RunTyped, RunOK, GoesOn, TestRuns
    <2>2. CASE ApplyDraft(q)
      <3>1. /\ request[q].drafts \subseteq Iterations /\ live' = live
            /\ testRun' = [t \in TestRuns |-> IF testRun[t].iteration \in request[q].drafts
                           THEN [testRun[t] EXCEPT !.status = "none"] ELSE testRun[t]]
        BY <2>2 DEF ApplyDraft, Ends, Delete, LiveInv, RequestOK
      <3>2. RunTyped'
        BY <1>4, <3>1 DEF RunTyped, TestRuns
      <3>3. ASSUME NEW t \in TestRuns
            PROVE  Remains(t)
        <4>1. CASE testRun[t].iteration \in request[q].drafts
          <5>1. testRun'[t] = [testRun[t] EXCEPT !.status = "none"]
            BY <3>1, <4>1
          <5>2. /\ testRun'[t].status = "none"
                /\ testRun'[t].iteration = testRun[t].iteration
                /\ testRun'[t].live = testRun[t].live
            BY <1>4, <5>1 DEF RunTyped
          <5>3. testRun[t].iteration /= None
            BY <3>1, <4>1, LifecycleAssumption
          <5> QED BY <3>1, <5>2, <5>3 DEF Remains, GoesOn, NoTestRun
        <4>2. CASE testRun[t].iteration \notin request[q].drafts
          BY <1>4, <3>1, <4>2 DEF Remains, GoesOn
        <4> QED BY <4>1, <4>2
      <3> QED BY <1>4, <3>2, <3>3, RunsRemain
    <2>3. CASE ApplyPublish(q) \/ ApplyUnpublish(q)
      <3>1. PICK new \in Iterations \cup {None} : ShutDown(live, new)
        BY <1>4, <2>3 DEF ApplyPublish, ApplyUnpublish, Ends, ReadOfRuns, LiveInv, RequestOK
      <3>2. RunTyped' /\ \A t \in TestRuns : Remains(t)
        BY <1>4, <3>1, NoneOutlives
      <3> QED BY <1>4, <3>2, RunsRemain
    <2>4. CASE ApplyTestRun(q)
      <3>1. PICK n \in TestRuns, indexes \in {"creating", "created"} :
              /\ testRun[n] = NoTestRun /\ \A u \in 1 .. n - 1 : testRun[u] /= NoTestRun
              /\ testRun' = [testRun EXCEPT ![n] =
                   [status |-> "pending", iteration |-> request[q].iteration,
                    live |-> request[q].live, indexes |-> indexes]]
        BY <2>4 DEF ApplyTestRun
      <3>2. /\ request[q].iteration \in Iterations /\ request[q].live = live
            /\ live \in Iterations /\ live' = live
            /\ \A t \in TestRuns : ~GoesOn(t)
        BY <1>4, <2>4 DEF ApplyTestRun, Ends, ReadOfRuns, iterationVars
      <3>3. RunTyped'
        BY <1>4, <3>1, <3>2 DEF RunTyped
      <3>4. /\ testRun'[n].iteration \in Iterations /\ testRun'[n].live = live
            /\ testRun'[n].status = "pending" /\ testRun'[n] /= NoTestRun
            /\ \A t \in TestRuns : t /= n => testRun'[t] = testRun[t]
        BY <1>4, <3>1, <3>2 DEF RunTyped, NoTestRun
      <3>5. \A t \in TestRuns : t /= n => ~GoesOn(t)'
        BY <1>4, <3>2, <3>4 DEF GoesOn
      <3>6. RunOK(n)'
        <4>1. \A u \in TestRuns : u < n => testRun'[u] /= NoTestRun /\ ~GoesOn(u)'
          BY <3>1, <3>4, <3>5 DEF TestRuns
        <4> QED BY <3>2, <3>4, <4>1 DEF RunOK, TestRuns
      <3>7. ASSUME NEW t \in TestRuns, t /= n
            PROVE  RunOK(t)'
        <4>1. \A u \in TestRuns : u < t /\ testRun'[t] /= NoTestRun =>
                testRun'[u] /= NoTestRun /\ ~GoesOn(u)'
          <5>1. testRun[t] /= NoTestRun => n > t
            <6> SUFFICES ASSUME testRun[t] /= NoTestRun, ~(n > t)
                         PROVE  FALSE
              OBVIOUS
            <6>1. n < t
              BY <3>7 DEF TestRuns
            <6> QED BY <1>4, <3>1, <6>1 DEF RunOK
          <5> QED BY <1>4, <3>4, <3>5, <3>7, <5>1 DEF RunOK, TestRuns
        <4>2. GoesOn(t)' <=> GoesOn(t)
          BY <1>4, <3>4, <3>7 DEF GoesOn
        <4>3. testRun'[t] = testRun[t]
          BY <3>4, <3>7
        <4>4. RunOK(t)
          BY <1>4
        <4> QED BY <3>2, <4>1, <4>2, <4>3, <4>4 DEF RunOK, TestRuns
      <3> QED BY <3>3, <3>6, <3>7
    <2> QED BY <2>1, <2>2, <2>3, <2>4 DEF Writes
  <1>6. \A k \in Requests : ReadOfRuns(k)'
    <2>1. CASE request[q] = IdleRequest
      <3>1. UNCHANGED <<testRun, live>>
        BY <2>1 DEF Writes, ApplyEdit, ApplyCommit, ApplyDraft, ApplyPublish, ApplyUnpublish,
               ApplyTestRun, Abort, Ends, IdleRequest, iterationVars
      <3>2. \A k \in Requests : request'[k] = request[k]
        BY <1>1, <2>1 DEF LiveInv, Typed
      <3> QED BY <1>1, <1>4, <3>1, <3>2 DEF RunInv, ReadOfRuns, GoesOn, TestRuns
    <2>2. CASE request[q] /= IdleRequest
      <3>1. \A k \in Requests : request'[k] = IdleRequest
        BY <1>1, <2>2 DEF FrozenInv, OneRequest, LiveInv, Typed
      <3> QED BY <3>1 DEF ReadOfRuns, IdleRequest
    <2> QED BY <2>1, <2>2
  <1> QED BY <1>5, <1>6 DEF RunInv, TestRuns

\* Callbacks only set up a test run that waits for its indexes.
LEMMA TestRunStep ==
  ASSUME RunInv, NEW n \in TestRuns,
         CreateIndexes(n) \/ Callback(n) \/ CancelTestRunById(n)
  PROVE  RunInv'
  <1> SUFFICES ASSUME overlaps' = 0
               PROVE  RunInv'
    BY DEF RunInv
  <1>1. /\ overlaps = 0 /\ live' = live /\ request' = request
        /\ RunTyped /\ (\A t \in TestRuns : RunOK(t)) /\ \A q \in Requests : ReadOfRuns(q)
    BY DEF CreateIndexes, Callback, CancelTestRunById, RunInv, iterationVars
  <1>2. PICK s \in {"none", "pending", "up", "down"}, x \in {"creating", "created", "done"} :
          /\ testRun' = [testRun EXCEPT ![n].status = s, ![n].indexes = x]
          /\ overtaken \subseteq overtaken' /\ testRun[n] /= NoTestRun
          /\ \/ s = "down" \/ s = "none"
             \/ s = "pending" /\ x /= "done" /\ testRun[n].status = "pending"
                              /\ testRun[n].indexes /= "done"
             \/ s = "pending" /\ x = "done"
             \/ s = "up" /\ testRun[n].status = "up"
             \/ /\ s = "up" /\ testRun[n].status = "pending"
                /\ testRun[n].indexes /= "done"
             \/ s = "up" /\ n \in overtaken'
    <2>1. CASE CreateIndexes(n)
      <3>1. PICK x \in {"created", "done"} : testRun' = [testRun EXCEPT ![n].indexes = x]
        BY <2>1 DEF CreateIndexes
      <3>2. testRun' = [testRun EXCEPT ![n].status = testRun[n].status, ![n].indexes = x]
        BY <1>1, <3>1 DEF RunTyped
      <3>3. testRun[n].status \in {"none", "pending", "up", "down"}
        BY <1>1 DEF RunTyped
      <3>4. /\ overtaken' = overtaken /\ testRun[n].indexes = "creating"
            /\ testRun[n] /= NoTestRun
        BY <2>1 DEF CreateIndexes, cacheVars, historyVars, NoTestRun
      <3>5. PICK s \in {"none", "pending", "up", "down"} : s = testRun[n].status
        BY <3>3
      <3>6. testRun' = [testRun EXCEPT ![n].status = s, ![n].indexes = x]
        BY <3>2, <3>5
      <3>7. x \in {"creating", "created", "done"}
        OBVIOUS
      <3> QED BY <3>4, <3>5, <3>6, <3>7
    <2>2. CASE Callback(n)
      <3>1. PICK s : /\ testRun' = [testRun EXCEPT ![n].indexes = "done", ![n].status = s]
                     /\ \/ s = testRun[n].status
                        \/ s = "up" /\ testRun[n].status /= "none"
        BY <2>2 DEF Callback
      <3>2. testRun' = [testRun EXCEPT ![n].status = s, ![n].indexes = "done"]
        BY <1>1, <3>1 DEF RunTyped
      <3>3. testRun[n].status \in {"none", "pending", "up", "down"}
        BY <1>1 DEF RunTyped
      <3>4. /\ testRun[n].indexes = "created" /\ overtaken \subseteq overtaken'
            /\ testRun[n].status = "down" => n \in overtaken'
            /\ testRun[n] /= NoTestRun
        BY <2>2 DEF Callback, NoTestRun
      <3>5. s \in {"none", "pending", "up", "down"}
        BY <3>1, <3>3
      <3> QED BY <3>1, <3>2, <3>3, <3>4, <3>5
    <2>3. CASE CancelTestRunById(n)
      <3>1. /\ testRun' = [testRun EXCEPT ![n].status = "down"] /\ overtaken' = overtaken
            /\ testRun[n].status \in {"pending", "up"}
        BY <2>3 DEF CancelTestRunById, cacheVars, historyVars
      <3>2. testRun' = [testRun EXCEPT ![n].status = "down",
                                       ![n].indexes = testRun[n].indexes]
        BY <1>1, <3>1 DEF RunTyped
      <3>3. PICK x \in {"creating", "created", "done"} : x = testRun[n].indexes
        BY <1>1 DEF RunTyped
      <3>4. testRun' = [testRun EXCEPT ![n].status = "down", ![n].indexes = x]
        BY <3>2, <3>3
      <3>5. testRun[n] /= NoTestRun
        BY <3>1 DEF NoTestRun
      <3> QED BY <3>1, <3>4, <3>5
    <2> QED BY <2>1, <2>2, <2>3
  <1>3. RunTyped'
    BY <1>1, <1>2 DEF RunTyped
  <1>4. /\ testRun'[n].status = s /\ testRun'[n].indexes = x
        /\ testRun'[n].iteration = testRun[n].iteration /\ testRun'[n].live = testRun[n].live
        /\ \A t \in TestRuns : t /= n => testRun'[t] = testRun[t]
    BY <1>1, <1>2 DEF RunTyped
  <1>5. Remains(n)
    <2>1. testRun'[n] /= NoTestRun
      <3>1. testRun'[n].iteration \in Iterations
        BY <1>1, <1>2, <1>4 DEF RunOK
      <3> QED BY <3>1, LifecycleAssumption DEF NoTestRun
    <2> QED BY <1>1, <1>2, <1>4, <2>1 DEF Remains, GoesOn
  <1>6. ASSUME NEW t \in TestRuns, t /= n
        PROVE  Remains(t)
    BY <1>1, <1>2, <1>4, <1>6 DEF Remains, GoesOn
  <1>7. \A t \in TestRuns : RunOK(t)'
    BY <1>1, <1>5, <1>6, RunsRemain
  <1>8. ASSUME NEW q \in Requests
        PROVE  ReadOfRuns(q)'
    <2>1. \A t \in TestRuns : ~GoesOn(t) => ~GoesOn(t)'
      BY <1>5, <1>6 DEF Remains
    <2> QED BY <1>1, <2>1 DEF ReadOfRuns, TestRuns
  <1> QED BY <1>3, <1>7, <1>8 DEF RunInv, TestRuns

LEMMA NextRuns ==
  ASSUME LiveInv, FrozenInv, RunInv, [Next]_vars
  PROVE  RunInv'
  <1>1. CASE UNCHANGED <<live, request, testRun, overtaken, overlaps>>
    BY <1>1 DEF RunInv, RunTyped, RunOK, GoesOn, ReadOfRuns, TestRuns
  <1>2. ASSUME NEW q \in Requests, Begins(q) \/ Writes(q)
        PROVE  RunInv'
    BY <1>2, BeginsRuns, WritesRuns
  <1>3. ASSUME NEW t \in TestRuns, CreateIndexes(t) \/ Callback(t) \/ CancelTestRunById(t)
        PROVE  RunInv'
    BY <1>3, TestRunStep
  <1>4. ASSUME NEW q \in Requests, UpdateVersion(q)
        PROVE  RunInv'
    <2>1. UNCHANGED <<live, testRun, overtaken, overlaps>>
      BY <1>4 DEF UpdateVersion, iterationVars, historyVars
    <2>2. \A k \in Requests : request'[k] = request[k] \/ request'[k].op = "commit"
      BY <1>4, UpdateKeepsRequests
    <2>3. RunInv /\ overlaps' = 0 =>
            RunTyped' /\ (\A t \in TestRuns : RunOK(t)') /\ \A k \in Requests : ReadOfRuns(k)'
      BY <2>1, <2>2 DEF RunInv, RunTyped, RunOK, GoesOn, ReadOfRuns, TestRuns
    <2> QED BY <2>3 DEF RunInv, TestRuns
  <1> QED BY <1>1, <1>2, <1>3, <1>4
          DEF Next, vars, Begins, Writes, View, AddToCache, Evict, CreateScenarioIteration,
              cacheVars, historyVars, iterationVars

\* A test run is up next to the live version, and no other one is, unless requests
\* overlap, besides those whose callback came late: after a cancellation, after their
\* version was replaced, or after another test run was asked for.
THEOREM OneTestRunIsUp == Spec => []UpNextToLive
  <1>1. LiveInv /\ FrozenInv /\ RunInv /\ [Next]_vars => (LiveInv /\ FrozenInv /\ RunInv)'
    BY NextLive, NextFrozen, NextRuns
  <1>2. RunInv => UpNextToLive
    <2> DEFINE InTime == Up \ overtaken
    <2> SUFFICES ASSUME RunInv, overlaps = 0
                 PROVE  (\A t \in InTime : testRun[t].live = live) /\ Cardinality(InTime) <= 1
      BY DEF UpNextToLive
    <2>1. \A t \in InTime : t \in TestRuns /\ GoesOn(t) /\ RunOK(t) /\ testRun[t] /= NoTestRun
      BY DEF RunInv, Up, GoesOn, NoTestRun
    <2> HIDE DEF InTime
    <2>2. \A t, u \in InTime : t = u
      <3> SUFFICES ASSUME NEW t \in InTime, NEW u \in InTime, t < u
                   PROVE  FALSE
        BY <2>1 DEF TestRuns
      <3> QED BY <2>1 DEF RunOK
    <2>3. InTime = {} \/ \E t \in InTime : InTime = {t}
      BY <2>2
    <2>4. Cardinality(InTime) <= 1
      BY <2>3, FS_EmptySet, FS_Singleton
    <2> QED BY <2>1, <2>4 DEF RunOK
  <1> QED BY <1>1, <1>2, InitRuns, InitLive, InitFrozen, PTL DEF Spec

-----------------------------------------------------------------------------
(* The summaries of a test run: a decision is counted once, unless a       *)
(* summary has left rows behind, and none is missed.                       *)

\* The window of a job is known, it has rows locked.
HasWindow(j) == job[j].pc \notin {"idle", "listed"}
Writing == {"see", "bump", "check", "commit"}

DecisionType == [state : {"none", "made", "stored"}, at : Nat]
RunType == [status : {"up", "down"}, expires : Nat, updated : Nat, summarized : BOOLEAN]
RowType == [watermark : Nat, counts : [Decisions -> Nat]]
SummaryJobType ==
  [pc : {"idle", "listed", "decisions", "rules", "save"} \cup Writing,
   since : Nat, bound : Nat, status : {"up", "down"}, expires : Nat, updated : Nat,
   decided : SUBSET Decisions, ruled : SUBSET Decisions, seen : SUBSET Rows,
   locks : SUBSET (Rows \cup {RunRow})]

SummariesTyped ==
  /\ clock \in Nat
  /\ decision \in [Decisions -> DecisionType]
  /\ run \in RunType /\ row \in [Rows -> RowType] /\ job \in [Jobs -> SummaryJobType]
  /\ ends \subseteq Nat /\ uneven \in BOOLEAN

LEMMA OutcomeRows ==
  /\ \A d \in Decisions :
       <<"decisions", Outcome[d]>> \in Rows /\ <<"rules", Outcome[d]>> \in Rows
  /\ <<"decisions", Approve>> \in Rows
  /\ RunRow \notin Rows
  BY DEF Rows, Outcomes, RunRow

LEMMA InitSummariesTyped == SummariesInit => SummariesTyped
  <1> SUFFICES ASSUME SummariesInit PROVE SummariesTyped
    OBVIOUS
  <1>1. IdleJob \in SummaryJobType
    BY DEF IdleJob, SummaryJobType
  <1>2. NoRow \in RowType
    BY DEF NoRow, RowType
  <1>3. run \in RunType
    BY SummaryAssumption DEF SummariesInit, RunType
  <1>4. decision \in [Decisions -> DecisionType]
    BY DEF SummariesInit, DecisionType
  <1> QED
    BY <1>1, <1>2, <1>3, <1>4 DEF SummariesInit, SummariesTyped

\* What every action but the last of a job does: it changes the job.
Prepares(j) ==
  /\ UNCHANGED <<decision, run, row, ends, uneven, cut, late>>
  /\ clock' \in {clock, Now}
  /\ \E new \in SummaryJobType : job' = [job EXCEPT ![j] = new]

LEMMA RowsOfJob ==
  ASSUME SummariesTyped, NEW j \in Jobs
  PROVE  DecisionRows(j) \cup RuleRows(j) \subseteq Rows
  <1>1. job[j].decided \subseteq Decisions /\ job[j].ruled \subseteq Decisions
    BY DEF SummariesTyped, SummaryJobType
  <1> QED
    BY <1>1, OutcomeRows DEF DecisionRows, RuleRows

LEMMA SinceIsTime ==
  ASSUME SummariesTyped, NEW t \in Since
  PROVE  t \in Nat /\ (t = 0 \/ \E r \in Existing : t = row[r].watermark)
  BY DEF SummariesTyped, Since, Listed, Existing, RowType

LEMMA JobPrepares ==
  ASSUME SummariesTyped, NEW j \in Jobs, Summary(j), ~CommitSummary(j)
  PROVE  Prepares(j)
  <1> job[j] \in SummaryJobType /\ IdleJob \in SummaryJobType
    BY DEF SummariesTyped, IdleJob, SummaryJobType
  <1>1. CASE StartSummary(j)
    <2>1. PICK t \in Since :
            job' = [job EXCEPT ![j] = [IdleJob EXCEPT
                     !.pc = "listed", !.since = t, !.status = run.status,
                     !.expires = run.expires, !.updated = run.updated]]
      BY <1>1 DEF StartSummary
    <2>2. t \in Nat
      BY SinceIsTime
    <2>3. [IdleJob EXCEPT !.pc = "listed", !.since = t, !.status = run.status,
                     !.expires = run.expires, !.updated = run.updated] \in SummaryJobType
      BY <2>2 DEF SummariesTyped, RunType, IdleJob, SummaryJobType
    <2> QED
      BY <1>1, <2>1, <2>3 DEF StartSummary, Prepares
  <1>2. CASE OpenWindow(j)
    <2> DEFINE b == IF job[j].since + Window > Now THEN Now ELSE job[j].since + Window
    <2>1. b \in Nat
      BY SummaryAssumption DEF SummariesTyped, SummaryJobType, Now
    <2>2. [job[j] EXCEPT !.pc = "decisions", !.bound = b] \in SummaryJobType
      BY <2>1 DEF SummaryJobType
    <2>3. job' = [job EXCEPT ![j] = [job[j] EXCEPT !.pc = "decisions", !.bound = b]]
      BY <1>2 DEF OpenWindow, SummariesTyped
    <2> QED
      BY <1>2, <2>2, <2>3 DEF OpenWindow, Prepares
  <1>3. CASE ReadDecisions(j)
    <2>2. [job[j] EXCEPT !.pc = "rules", !.decided = Covered(j)] \in SummaryJobType
      BY DEF SummaryJobType, Covered, Stored
    <2>3. job' = [job EXCEPT ![j] = [job[j] EXCEPT !.pc = "rules", !.decided = Covered(j)]]
      BY <1>3 DEF ReadDecisions, SummariesTyped
    <2> QED
      BY <1>3, <2>2, <2>3 DEF ReadDecisions, Prepares
  <1>4. CASE ReadRules(j)
    <2>2. [job[j] EXCEPT !.pc = "save", !.ruled = Covered(j) \cap Ruled] \in SummaryJobType
      BY DEF SummaryJobType, Covered, Stored
    <2>3. job' = [job EXCEPT ![j] =
             [job[j] EXCEPT !.pc = "save", !.ruled = Covered(j) \cap Ruled]]
      BY <1>4 DEF ReadRules, SummariesTyped
    <2> QED
      BY <1>4, <2>2, <2>3 DEF ReadRules, Prepares
  <1>5. CASE SaveRows(j)
    <2> DEFINE rows == DecisionRows(j) \cup RuleRows(j)
    <2>1. rows \subseteq Rows
      BY RowsOfJob
    <2>2. [job[j] EXCEPT !.pc = "see", !.locks = rows] \in SummaryJobType
      BY <2>1 DEF SummaryJobType, Writing
    <2>3. job' = [job EXCEPT ![j] = [job[j] EXCEPT !.pc = "see", !.locks = rows]]
      BY <1>5 DEF SaveRows, SummariesTyped
    <2> QED
      BY <1>5, <2>2, <2>3 DEF SaveRows, Prepares
  <1>6. CASE SeeRows(j)
    <2>2. [job[j] EXCEPT !.pc = "bump", !.seen = Existing] \in SummaryJobType
      BY DEF SummaryJobType, Writing, Existing
    <2>3. job' = [job EXCEPT ![j] = [job[j] EXCEPT !.pc = "bump", !.seen = Existing]]
      BY <1>6 DEF SeeRows, SummariesTyped
    <2> QED
      BY <1>6, <2>2, <2>3 DEF SeeRows, Prepares
  <1>7. CASE BumpWatermarks(j)
    <2>2. [job[j] EXCEPT !.pc = "check", !.locks = job[j].locks \cup job[j].seen]
            \in SummaryJobType
      BY DEF SummaryJobType, Writing
    <2>3. job' = [job EXCEPT ![j] =
             [job[j] EXCEPT !.pc = "check", !.locks = job[j].locks \cup job[j].seen]]
      BY <1>7 DEF BumpWatermarks, SummariesTyped
    <2> QED
      BY <1>7, <2>2, <2>3 DEF BumpWatermarks, Prepares
  <1>8. CASE CheckVersion(j)
    <2> DEFINE l == job[j].locks \cup IF Summarizes(j) THEN {RunRow} ELSE {}
    <2>1. l \subseteq Rows \cup {RunRow}
      BY DEF SummaryJobType
    <2>2. [job[j] EXCEPT !.pc = "commit", !.locks = l] \in SummaryJobType
      BY <2>1 DEF SummaryJobType, Writing
    <2>3. \/ job' = [job EXCEPT ![j] = [job[j] EXCEPT !.pc = "commit", !.locks = l]]
          \/ job' = [job EXCEPT ![j] = IdleJob]
      BY <1>8 DEF CheckVersion, SummariesTyped
    <2> QED
      BY <1>8, <2>2, <2>3 DEF CheckVersion, Prepares
  <1>9. CASE SummaryFails(j)
    BY <1>9 DEF SummaryFails, Prepares
  <1> QED
    BY <1>1, <1>2, <1>3, <1>4, <1>5, <1>6, <1>7, <1>8, <1>9 DEF Summary

LEMMA SummaryCases ==
  ASSUME SummariesTyped, [SummariesNext]_summariesVars
  PROVE  \/ \E d \in Decisions : MakeDecision(d) \/ StoreDecision(d)
         \/ \E j \in Jobs : Summary(j) /\ Prepares(j)
         \/ \E j \in Jobs : CommitSummary(j)
         \/ StopTestRun
         \/ UNCHANGED summariesVars
  BY JobPrepares DEF SummariesNext

LEMMA RowAfterSummary ==
  ASSUME SummariesTyped, NEW j \in Jobs, CommitSummary(j)
  PROVE  /\ row' \in [Rows -> RowType]
         /\ \A r \in Rows \ job[j].locks : row'[r] = row[r]
         /\ \A r \in Rows \cap job[j].locks : row'[r].watermark = job[j].bound
         /\ \A r \in Rows, d \in Decisions :
              row'[r].counts[d] = row[r].counts[d] +
                (IF r \in job[j].locks /\ Counted(j, r, d) THEN 1 ELSE 0)
  <1>1. row' = [r \in Rows |->
                 IF r \notin job[j].locks THEN row[r]
                 ELSE [watermark |-> job[j].bound,
                       counts |-> [d \in Decisions |->
                         row[r].counts[d] + IF Counted(j, r, d) THEN 1 ELSE 0]]]
    BY DEF CommitSummary, Summed
  <1>2. \A r \in Rows, d \in Decisions : row[r].counts[d] \in Nat
    BY DEF SummariesTyped, RowType
  <1>3. job[j].bound \in Nat
    BY DEF SummariesTyped, SummaryJobType
  <1>4. ASSUME NEW r \in Rows
        PROVE  row'[r] \in RowType
    <2>1. CASE r \notin job[j].locks
      BY <1>1, <2>1 DEF SummariesTyped
    <2>2. CASE r \in job[j].locks
      <3>1. [d \in Decisions |->
               row[r].counts[d] + IF Counted(j, r, d) THEN 1 ELSE 0] \in [Decisions -> Nat]
        BY <1>2
      <3> QED
        BY <1>1, <2>2, <3>1, <1>3 DEF RowType
    <2> QED
      BY <2>1, <2>2
  <1>5. ASSUME NEW r \in Rows, NEW d \in Decisions
        PROVE  row'[r].counts[d] = row[r].counts[d] +
                (IF r \in job[j].locks /\ Counted(j, r, d) THEN 1 ELSE 0)
    BY <1>1, <1>2
  <1> QED
    BY <1>1, <1>4, <1>5

LEMMA NextSummariesTyped ==
  ASSUME SummariesTyped, [SummariesNext]_summariesVars
  PROVE  SummariesTyped'
  <1> Now \in Nat
    BY DEF SummariesTyped, Now
  <1>1. ASSUME NEW d \in Decisions, MakeDecision(d) \/ StoreDecision(d)
        PROVE  SummariesTyped'
    <2>1. decision[d] \in DecisionType
      BY DEF SummariesTyped
    <2>2. [decision[d] EXCEPT !.state = "stored"] \in DecisionType
          /\ [state |-> "made", at |-> Now] \in DecisionType
      BY <2>1 DEF DecisionType
    <2>3. decision' \in [Decisions -> DecisionType]
      BY <1>1, <2>2 DEF MakeDecision, StoreDecision, SummariesTyped
    <2> QED
      BY <1>1, <2>3 DEF MakeDecision, StoreDecision, SummariesTyped
  <1>2. ASSUME NEW j \in Jobs, Prepares(j)
        PROVE  SummariesTyped'
    BY <1>2 DEF Prepares, SummariesTyped
  <1>3. ASSUME NEW j \in Jobs, CommitSummary(j)
        PROVE  SummariesTyped'
    <2>1. run' \in RunType
      <3> DEFINE n == IF SavedNewData(j) THEN run.updated + 1 ELSE run.updated
                 b == run.summarized \/ RunRow \in job[j].locks
      <3>1. n \in Nat /\ b \in BOOLEAN
        BY DEF SummariesTyped, RunType
      <3>2. run' = [run EXCEPT !.updated = n, !.summarized = b]
        BY <1>3 DEF CommitSummary, Touched
      <3> HIDE DEF n, b
      <3> QED
        BY <3>1, <3>2 DEF SummariesTyped, RunType
    <2>2. job' \in [Jobs -> SummaryJobType]
      BY <1>3 DEF CommitSummary, SummariesTyped, SummaryJobType, IdleJob
    <2>3. ends' \subseteq Nat /\ uneven' \in BOOLEAN
      BY <1>3 DEF CommitSummary, SummariesTyped, SummaryJobType, LeavesBehind
    <2> QED
      BY <1>3, <2>1, <2>2, <2>3, RowAfterSummary DEF CommitSummary, SummariesTyped
  <1>4. CASE StopTestRun
    BY <1>4 DEF StopTestRun, SummariesTyped, RunType
  <1>5. CASE UNCHANGED summariesVars
    BY <1>5 DEF summariesVars, SummariesTyped
  <1> QED
    BY <1>1, <1>2, <1>3, <1>4, <1>5, SummaryCases

-----------------------------------------------------------------------------
(* What holds of windows, watermarks and locks.                            *)

\* Windows that were committed, and decisions, are of the past.
TimesPast ==
  /\ \A e \in ends : 0 < e /\ e <= clock
  /\ \A d \in Decisions :
       decision[d].state /= "none" => 0 < decision[d].at /\ decision[d].at <= clock

\* A watermark is the end of a window, and what is counted has one.
Watermarked ==
  /\ \A r \in Existing : row[r].watermark \in ends
  /\ \A r \in Rows, d \in Decisions : row[r].counts[d] > 0 => r \in Existing /\ d \in Stored

\* A window begins where one ended, and lies in the past.
WindowOK(j) ==
  /\ job[j].pc = "idle" => job[j] = IdleJob
  /\ job[j].since \in {0} \cup ends
  /\ job[j].updated <= run.updated
  /\ ~HasWindow(j) => job[j].bound = 0
  /\ HasWindow(j) => /\ 0 < job[j].bound /\ job[j].bound <= clock
                     /\ job[j].since <= job[j].bound

\* What a job has read lies in its window; the statistics of rules were read later.
ReadOK(j) ==
  /\ \A d \in job[j].decided \cup job[j].ruled :
       d \in Stored /\ job[j].since <= decision[d].at /\ decision[d].at <= job[j].bound
  /\ job[j].pc \in {"save"} \cup Writing => job[j].decided \cap Ruled \subseteq job[j].ruled

\* What a job saves is locked.
LocksOK(j) ==
  /\ job[j].pc \notin Writing => job[j].locks = {}
  /\ job[j].pc \in Writing => DecisionRows(j) \cup RuleRows(j) \subseteq job[j].locks

LocksApart == \A j, k \in Jobs : j /= k => job[j].locks \cap job[k].locks = {}

WindowInv ==
  /\ SummariesTyped /\ TimesPast /\ Watermarked
  /\ \A j \in Jobs : WindowOK(j) /\ ReadOK(j) /\ LocksOK(j)
  /\ LocksApart

LEMMA InitWindow == SummariesInit => WindowInv
  <1> SUFFICES ASSUME SummariesInit PROVE WindowInv
    OBVIOUS
  <1>1. \A j \in Jobs : job[j] = IdleJob
    BY DEF SummariesInit
  <1>2. \A j \in Jobs : WindowOK(j) /\ ReadOK(j) /\ LocksOK(j)
    BY <1>1 DEF WindowOK, ReadOK, LocksOK, HasWindow, IdleJob, Writing, SummariesInit
  <1>3. LocksApart
    BY <1>1 DEF LocksApart, IdleJob
  <1>4. TimesPast /\ Watermarked
    BY DEF SummariesInit, TimesPast, Watermarked, Existing, NoRow
  <1> QED
    BY <1>2, <1>3, <1>4, InitSummariesTyped DEF WindowInv

\* Decisions that are made or stored, or a test run that is stopped.
LEMMA OutsideWindow ==
  ASSUME WindowInv, SummariesTyped',
         \/ \E d \in Decisions : MakeDecision(d) \/ StoreDecision(d)
         \/ StopTestRun
         \/ UNCHANGED summariesVars
  PROVE  WindowInv'
  <1>1. UNCHANGED <<row, job, ends>> /\ run'.updated = run.updated /\ clock' \in {clock, Now}
    BY DEF MakeDecision, StoreDecision, StopTestRun, summariesVars, WindowInv, SummariesTyped,
           RunType
  <1>2. /\ \A d \in Stored : d \in Stored' /\ decision'[d] = decision[d]
        /\ \A d \in Decisions : decision'[d].state /= "none" =>
             \/ decision[d].state /= "none" /\ decision'[d].at = decision[d].at
             \/ decision'[d].at = Now /\ clock' = Now
    BY DEF MakeDecision, StoreDecision, StopTestRun, summariesVars, WindowInv, SummariesTyped,
           DecisionType, Stored
  <1>3. clock \in Nat /\ Now \in Nat /\ clock < Now
    BY DEF WindowInv, SummariesTyped, Now
  <1>4. TimesPast'
    BY <1>1, <1>2, <1>3 DEF WindowInv, TimesPast, SummariesTyped, DecisionType
  <1>5. Watermarked'
    BY <1>1, <1>2 DEF WindowInv, Watermarked, Existing
  <1>6. ASSUME NEW j \in Jobs
        PROVE  (WindowOK(j) /\ ReadOK(j) /\ LocksOK(j))'
    <2> job[j] \in SummaryJobType
      BY DEF WindowInv, SummariesTyped
    <2>1. WindowOK(j)'
      BY <1>1, <1>3 DEF WindowInv, WindowOK, HasWindow, SummaryJobType
    <2>2. ReadOK(j)'
      BY <1>1, <1>2 DEF WindowInv, ReadOK
    <2>3. LocksOK(j)'
      BY <1>1 DEF WindowInv, LocksOK, DecisionRows, RuleRows
    <2> QED
      BY <2>1, <2>2, <2>3
  <1> QED
    BY <1>1, <1>4, <1>5, <1>6 DEF WindowInv, LocksApart

\* A step of another job.
LEMMA OthersWindow ==
  ASSUME WindowInv, SummariesTyped', NEW j \in Jobs, Prepares(j) \/ CommitSummary(j),
         NEW k \in Jobs, j /= k
  PROVE  (WindowOK(k) /\ ReadOK(k) /\ LocksOK(k))'
  <1>1. /\ job'[k] = job[k] /\ ends \subseteq ends' /\ clock' \in {clock, Now}
        /\ run.updated <= run'.updated /\ decision' = decision
    <2> run.updated \in Nat
      BY DEF WindowInv, SummariesTyped, RunType
    <2>1. run'.updated \in {run.updated, run.updated + 1}
      BY DEF Prepares, CommitSummary, Touched, WindowInv, SummariesTyped, RunType
    <2> QED
      BY <2>1 DEF Prepares, CommitSummary, WindowInv, SummariesTyped
  <1>2. clock \in Nat /\ Now \in Nat /\ clock < Now
    BY DEF WindowInv, SummariesTyped, Now
  <1>3. job[k] \in SummaryJobType /\ run \in RunType /\ run' \in RunType
    BY DEF WindowInv, SummariesTyped
  <1>4. WindowOK(k)'
    BY <1>1, <1>2, <1>3 DEF WindowInv, WindowOK, HasWindow, SummaryJobType, RunType
  <1>5. ReadOK(k)'
    BY <1>1 DEF WindowInv, ReadOK, Stored
  <1>6. LocksOK(k)'
    BY <1>1 DEF WindowInv, LocksOK, DecisionRows, RuleRows
  <1> QED
    BY <1>4, <1>5, <1>6

\* What a job does to itself.
LEMMA OwnWindow ==
  ASSUME WindowInv, SummariesTyped', NEW j \in Jobs, Summary(j), Prepares(j)
  PROVE  /\ (WindowOK(j) /\ ReadOK(j) /\ LocksOK(j))'
         /\ Free(j, job'[j].locks)
  <1>1. /\ UNCHANGED <<decision, run, row, ends>> /\ clock' \in {clock, Now}
        /\ job[j] \in SummaryJobType /\ job'[j] \in SummaryJobType
        /\ WindowOK(j) /\ ReadOK(j) /\ LocksOK(j)
    BY DEF Prepares, WindowInv, SummariesTyped
  <1>2. Free(j, job[j].locks) /\ Free(j, {})
    BY DEF WindowInv, LocksApart, Free
  <1>3. /\ clock \in Nat /\ Now \in Nat /\ clock < Now
        /\ run.updated \in Nat /\ ends \subseteq Nat
    BY DEF WindowInv, SummariesTyped, RunType, Now
  <1> DEFINE old == job[j]
             new == job'[j]
  <1>4. CASE job'[j] = IdleJob
    <2>1. WindowOK(j)' /\ ReadOK(j)' /\ LocksOK(j)'
      BY <1>1, <1>3, <1>4
      DEF IdleJob, WindowOK, ReadOK, LocksOK, HasWindow, Writing
    <2> QED
      BY <1>2, <1>4, <2>1 DEF IdleJob
  <1>5. CASE StartSummary(j)
    <2>1. PICK t \in Since :
            job'[j] = [IdleJob EXCEPT !.pc = "listed", !.since = t, !.status = run.status,
                                      !.expires = run.expires, !.updated = run.updated]
      BY <1>5 DEF StartSummary, WindowInv, SummariesTyped
    <2>2. t \in {0} \cup ends
      BY SinceIsTime DEF WindowInv, Watermarked
    <2>3. /\ new.pc = "listed" /\ new.since = t /\ new.bound = 0 /\ new.updated = run.updated
          /\ new.decided = {} /\ new.ruled = {} /\ new.locks = {}
      BY <2>1 DEF IdleJob
    <2>4. WindowOK(j)' /\ ReadOK(j)' /\ LocksOK(j)'
      BY <1>1, <1>3, <2>2, <2>3 DEF WindowOK, ReadOK, LocksOK, HasWindow, Writing
    <2> QED
      BY <1>2, <2>3, <2>4
  <1>6. CASE OpenWindow(j)
    <2> DEFINE b == IF old.since + Window > Now THEN Now ELSE old.since + Window
    <2>1. /\ new = [old EXCEPT !.pc = "decisions", !.bound = b]
          /\ old.pc = "listed" /\ clock' = Now
      BY <1>6 DEF OpenWindow, WindowInv, SummariesTyped
    <2>2. old.since \in Nat /\ old.since <= clock
      <3>1. job[j].since \in {0} \cup ends
        BY <1>1 DEF WindowOK
      <3>2. \A e \in ends : e <= clock
        BY DEF WindowInv, TimesPast
      <3>3. \A e \in ends : e \in Nat /\ e <= clock
        BY <1>3, <3>2
      <3>4. 0 <= clock
        BY <1>3
      <3> HIDE DEF old
      <3> QED
        BY <3>1, <3>3, <3>4 DEF old
    <2>3. 0 < b /\ b <= Now /\ old.since <= b
      BY <1>3, <2>2, SummaryAssumption DEF Now
    <2> HIDE DEF b
    <2>4. /\ new.pc = "decisions" /\ new.since = old.since /\ new.bound = b
          /\ new.updated = old.updated
          /\ new.decided = old.decided /\ new.ruled = old.ruled /\ new.locks = old.locks
      BY <1>1, <2>1 DEF SummaryJobType
    <2>5. old.decided = {} /\ old.ruled = {} /\ old.locks = {}
      <3>1. old.bound = 0
        BY <1>1, <2>1 DEF WindowOK, HasWindow
      <3>2. \A d \in Stored : 0 < decision[d].at /\ decision[d].at \in Nat
        BY DEF WindowInv, TimesPast, Stored, SummariesTyped, DecisionType
      <3> QED
        BY <1>1, <2>1, <3>1, <3>2 DEF ReadOK, LocksOK, Writing
    <2>6. WindowOK(j)' /\ ReadOK(j)' /\ LocksOK(j)'
      BY <1>1, <1>3, <2>1, <2>3, <2>4, <2>5 DEF WindowOK, ReadOK, LocksOK, HasWindow, Writing
    <2> QED
      BY <1>2, <2>4, <2>6
  <1>7. CASE ReadDecisions(j)
    <2>1. /\ new = [old EXCEPT !.pc = "rules", !.decided = Covered(j)]
          /\ old.pc = "decisions"
      BY <1>7 DEF ReadDecisions, WindowInv, SummariesTyped
    <2>4. /\ new.pc = "rules" /\ new.since = old.since /\ new.bound = old.bound
          /\ new.updated = old.updated
          /\ new.decided = Covered(j) /\ new.ruled = old.ruled /\ new.locks = old.locks
      BY <1>1, <2>1 DEF SummaryJobType
    <2>5. WindowOK(j)' /\ LocksOK(j)'
      BY <1>1, <1>3, <2>1, <2>4 DEF WindowOK, LocksOK, HasWindow, Writing, SummaryJobType
    <2>6. ReadOK(j)'
      BY <1>1, <2>1, <2>4 DEF ReadOK, Writing, Covered, Stored
    <2> QED
      BY <1>2, <2>4, <2>5, <2>6
  <1>8. CASE ReadRules(j)
    <2>1. /\ new = [old EXCEPT !.pc = "save", !.ruled = Covered(j) \cap Ruled]
          /\ old.pc = "rules"
      BY <1>8 DEF ReadRules, WindowInv, SummariesTyped
    <2>4. /\ new.pc = "save" /\ new.since = old.since /\ new.bound = old.bound
          /\ new.updated = old.updated
          /\ new.decided = old.decided /\ new.ruled = Covered(j) \cap Ruled
          /\ new.locks = old.locks
      BY <1>1, <2>1 DEF SummaryJobType
    <2>5. WindowOK(j)' /\ LocksOK(j)'
      BY <1>1, <1>3, <2>1, <2>4 DEF WindowOK, LocksOK, HasWindow, Writing, SummaryJobType
    <2>6. ReadOK(j)'
      BY <1>1, <2>1, <2>4 DEF ReadOK, Writing, Covered, Stored
    <2> QED
      BY <1>2, <2>4, <2>5, <2>6
  <1>9. CASE SaveRows(j)
    <2>1. /\ new = [old EXCEPT !.pc = "see", !.locks = DecisionRows(j) \cup RuleRows(j)]
          /\ old.pc = "save" /\ Free(j, DecisionRows(j) \cup RuleRows(j))
      BY <1>9 DEF SaveRows, WindowInv, SummariesTyped
    <2>4. /\ new.pc = "see" /\ new.since = old.since /\ new.bound = old.bound
          /\ new.updated = old.updated
          /\ new.decided = old.decided /\ new.ruled = old.ruled
          /\ new.locks = DecisionRows(j) \cup RuleRows(j)
      BY <1>1, <2>1 DEF SummaryJobType
    <2>5. WindowOK(j)'
      BY <1>1, <1>3, <2>1, <2>4 DEF WindowOK, HasWindow, SummaryJobType
    <2>6. ReadOK(j)' /\ LocksOK(j)'
      BY <1>1, <2>1, <2>4 DEF ReadOK, Writing, LocksOK, DecisionRows, RuleRows, Stored
    <2> QED
      BY <2>1, <2>4, <2>5, <2>6
  <1>10. CASE SeeRows(j) \/ BumpWatermarks(j) \/ (CheckVersion(j) /\ job'[j] /= IdleJob)
    <2>1. PICK locks \in SUBSET (Rows \cup {RunRow}), pc \in {"bump", "check", "commit"} :
            /\ new.pc = pc /\ new.since = old.since /\ new.bound = old.bound
            /\ new.updated = old.updated
            /\ new.decided = old.decided /\ new.ruled = old.ruled
            /\ new.locks = locks /\ old.locks \subseteq locks /\ Free(j, locks)
            /\ old.pc \in Writing
      <3>1. CASE SeeRows(j)
        <4>1. new = [old EXCEPT !.pc = "bump", !.seen = Existing] /\ old.pc = "see"
          BY <3>1 DEF SeeRows, WindowInv, SummariesTyped
        <4> QED
          BY <1>1, <1>2, <4>1 DEF SummaryJobType, Writing
      <3>2. CASE BumpWatermarks(j)
        <4>1. /\ new = [old EXCEPT !.pc = "check", !.locks = old.locks \cup old.seen]
              /\ old.pc = "bump" /\ Free(j, old.seen)
          BY <3>2 DEF BumpWatermarks, WindowInv, SummariesTyped
        <4>2. Free(j, old.locks \cup old.seen)
          BY <1>2, <4>1 DEF Free
        <4> QED
          BY <1>1, <4>1, <4>2 DEF SummaryJobType, Writing
      <3>3. CASE CheckVersion(j) /\ job'[j] /= IdleJob
        <4> DEFINE l == old.locks \cup IF Summarizes(j) THEN {RunRow} ELSE {}
        <4>1. /\ new = [old EXCEPT !.pc = "commit", !.locks = l]
              /\ old.pc = "check" /\ (Summarizes(j) => Free(j, {RunRow}))
          BY <3>3 DEF CheckVersion, WindowInv, SummariesTyped
        <4>2. Free(j, l)
          BY <1>2, <4>1 DEF Free
        <4> QED
          BY <1>1, <4>1, <4>2 DEF SummaryJobType, Writing
      <3> QED
        BY <1>10, <3>1, <3>2, <3>3
    <2>2. WindowOK(j)'
      BY <1>1, <1>3, <2>1 DEF WindowOK, HasWindow, SummaryJobType, Writing
    <2>3. ReadOK(j)' /\ LocksOK(j)'
      BY <1>1, <2>1 DEF ReadOK, Writing, LocksOK, DecisionRows, RuleRows, Stored
    <2> QED
      BY <2>1, <2>2, <2>3
  <1>11. CommitSummary(j) \/ SummaryFails(j) => job'[j] = IdleJob
    BY DEF CommitSummary, SummaryFails, WindowInv, SummariesTyped
  <1> QED
    BY <1>4, <1>5, <1>6, <1>7, <1>8, <1>9, <1>10, <1>11 DEF Summary

LEMMA CommitWindow ==
  ASSUME WindowInv, SummariesTyped', NEW j \in Jobs, CommitSummary(j)
  PROVE  WindowInv'
  <1>1. /\ UNCHANGED <<decision, clock>> /\ ends' = ends \cup {job[j].bound}
        /\ job'[j] = IdleJob /\ \A k \in Jobs \ {j} : job'[k] = job[k]
        /\ job[j].pc = "commit"
    BY DEF CommitSummary, WindowInv, SummariesTyped
  <1>2. 0 < job[j].bound /\ job[j].bound <= clock
    BY <1>1 DEF WindowInv, WindowOK, HasWindow
  <1>3. \A d \in job[j].decided \cup job[j].ruled : d \in Stored
    BY DEF WindowInv, ReadOK
  <1>4. TimesPast'
    BY <1>1, <1>2 DEF WindowInv, TimesPast
  <1>5. \A r \in Rows :
          \/ r \in job[j].locks /\ row'[r].watermark = job[j].bound
          \/ r \notin job[j].locks /\ row'[r] = row[r]
    <2> SummariesTyped
      BY DEF WindowInv
    <2>1. /\ \A r \in Rows \ job[j].locks : row'[r] = row[r]
          /\ \A r \in Rows \cap job[j].locks : row'[r].watermark = job[j].bound
      BY RowAfterSummary
    <2> QED
      BY <2>1
  <1>6. Existing' = Existing \cup (Rows \cap job[j].locks)
    BY <1>2, <1>5 DEF Existing
  <1>7. \A r \in Existing' : row'[r].watermark \in ends'
    BY <1>1, <1>5 DEF WindowInv, Watermarked, Existing
  <1>8. ASSUME NEW r \in Rows, NEW d \in Decisions, row'[r].counts[d] > 0
        PROVE  r \in Existing' /\ d \in Stored'
    <2>1. CASE row[r].counts[d] > 0
      BY <1>1, <1>6, <2>1 DEF WindowInv, Watermarked, Stored
    <2>2. CASE ~(row[r].counts[d] > 0)
      <3>1. row[r].counts[d] \in Nat
        BY DEF WindowInv, SummariesTyped, RowType
      <3>2. r \in job[j].locks /\ Counted(j, r, d)
        BY <1>8, <2>2, <3>1, RowAfterSummary DEF WindowInv
      <3> QED
        BY <1>1, <1>3, <1>6, <3>2 DEF Counted, Stored
    <2> QED
      BY <2>1, <2>2
  <1>9. Watermarked'
    BY <1>7, <1>8 DEF Watermarked
  <1>10. WindowOK(j)' /\ ReadOK(j)' /\ LocksOK(j)'
    <2>1. run'.updated \in Nat
      BY DEF SummariesTyped, RunType
    <2> QED
      BY <1>1, <2>1 DEF IdleJob, WindowOK, ReadOK, LocksOK, HasWindow, Writing
  <1>11. LocksApart'
    BY <1>1 DEF WindowInv, LocksApart, IdleJob
  <1> QED
    BY <1>4, <1>9, <1>10, <1>11, OthersWindow DEF WindowInv

LEMMA NextWindow ==
  ASSUME WindowInv, [SummariesNext]_summariesVars
  PROVE  WindowInv'
  <1>1. SummariesTyped /\ SummariesTyped'
    BY NextSummariesTyped DEF WindowInv
  <1>2. ASSUME NEW j \in Jobs, Summary(j), Prepares(j)
        PROVE  WindowInv'
    <2>1. /\ UNCHANGED <<decision, run, row, ends>> /\ clock' \in {clock, Now}
          /\ \A k \in Jobs \ {j} : job'[k] = job[k]
      BY <1>2 DEF Prepares, WindowInv, SummariesTyped
    <2>2. clock \in Nat /\ Now \in Nat /\ clock < Now
      BY <1>1 DEF SummariesTyped, Now
    <2>3. TimesPast'
      BY <1>1, <2>1, <2>2 DEF WindowInv, TimesPast, SummariesTyped, DecisionType
    <2>4. Watermarked'
      BY <2>1 DEF WindowInv, Watermarked, Existing, Stored
    <2>5. Free(j, job'[j].locks)
      BY <1>1, <1>2, OwnWindow
    <2>6. LocksApart'
      BY <2>1, <2>5 DEF WindowInv, LocksApart, Free
    <2> QED
      BY <1>1, <1>2, <2>3, <2>4, <2>6, OwnWindow, OthersWindow DEF WindowInv
  <1> QED
    BY <1>1, <1>2, SummaryCases, CommitWindow, OutsideWindow

-----------------------------------------------------------------------------
(* No decision is counted twice.                                           *)

InSomeTotal(d) == \E r \in Rows : row[r].counts[d] > 0

\* A job whose version is the current one, or that has found it so and is about to commit,
\* reads from after what is counted.
ReadsAfter(j, d) ==
  \/ job[j].pc /= "idle" /\ job[j].updated = run.updated
  \/ job[j].pc = "commit" /\ d \in job[j].ruled
  => decision[d].at <= job[j].since

CountOK(d) ==
  /\ decision[d].at \notin ends => \A r \in Rows : row[r].counts[d] <= 1
  /\ \A r \in Existing : decision[d].at <= row[r].watermark
  /\ \A j \in Jobs : ReadsAfter(j, d)

\* A job that was overtaken after it compared the versions does not see a row.
Overtaken(j) == job[j].pc = "commit" /\ job[j].updated /= run.updated => LeavesBehind(j)

CountInv ==
  /\ ~uneven => \A d \in Decisions : InSomeTotal(d) => CountOK(d)
  /\ \A j \in Jobs : Overtaken(j)

LEMMA InitCount == SummariesInit => CountInv
  BY DEF SummariesInit, CountInv, InSomeTotal, NoRow, Overtaken, IdleJob

LEMMA OutsideCount ==
  ASSUME WindowInv, CountInv,
         \/ \E d \in Decisions : MakeDecision(d) \/ StoreDecision(d)
         \/ StopTestRun
         \/ UNCHANGED summariesVars
  PROVE  CountInv'
  <1>1. UNCHANGED <<row, job, ends, uneven>> /\ run'.updated = run.updated
    BY DEF MakeDecision, StoreDecision, StopTestRun, summariesVars, WindowInv, SummariesTyped,
           RunType
  <1>2. \A d \in Stored : decision'[d] = decision[d]
    BY DEF MakeDecision, StoreDecision, StopTestRun, summariesVars, WindowInv, SummariesTyped,
           DecisionType, Stored
  <1>3. \A d \in Decisions : InSomeTotal(d) => d \in Stored
    BY DEF WindowInv, Watermarked, InSomeTotal
  <1>4. \A j \in Jobs : Overtaken(j)'
    BY <1>1 DEF CountInv, Overtaken, LeavesBehind, Existing
  <1>5. \A d \in Decisions : ~uneven /\ InSomeTotal(d)' => CountOK(d)'
    BY <1>1, <1>2, <1>3 DEF CountInv, InSomeTotal, CountOK, ReadsAfter, Existing
  <1> QED
    BY <1>1, <1>4, <1>5 DEF CountInv

LEMMA PreparesCount ==
  ASSUME WindowInv, CountInv, NEW j \in Jobs, Summary(j), Prepares(j)
  PROVE  CountInv'
  <1>1. /\ UNCHANGED <<decision, run, row, ends, uneven>>
        /\ \A k \in Jobs \ {j} : job'[k] = job[k]
        /\ job[j] \in SummaryJobType
    BY DEF Prepares, WindowInv, SummariesTyped
  <1>2. CASE StartSummary(j)
    <2>1. PICK t \in Since :
            job'[j] = [IdleJob EXCEPT !.pc = "listed", !.since = t, !.status = run.status,
                                      !.expires = run.expires, !.updated = run.updated]
      BY <1>2 DEF StartSummary, WindowInv, SummariesTyped
    <2>2. job'[j].pc = "listed" /\ job'[j].since = t
      BY <2>1 DEF IdleJob
    <2>3. \/ Existing = {}
          \/ \E r \in Existing : t = row[r].watermark
      BY DEF Since, Listed
    <2>4. ASSUME NEW d \in Decisions, InSomeTotal(d), ~uneven
          PROVE  decision[d].at <= t
      <3>1. \E r \in Rows : r \in Existing
        BY <2>4 DEF InSomeTotal, WindowInv, Watermarked
      <3> QED
        BY <2>3, <2>4, <3>1 DEF CountInv, CountOK
    <2>5. \A d \in Decisions : ~uneven /\ InSomeTotal(d)' => CountOK(d)'
      BY <1>1, <2>2, <2>4 DEF CountInv, InSomeTotal, CountOK, ReadsAfter, Existing
    <2>6. \A k \in Jobs : Overtaken(k)'
      BY <1>1, <2>2 DEF CountInv, Overtaken, LeavesBehind, Existing
    <2> QED
      BY <1>1, <2>5, <2>6 DEF CountInv
  <1>3. CASE job'[j] = IdleJob
    <2>1. job'[j].pc = "idle"
      BY <1>3 DEF IdleJob
    <2>2. \A d \in Decisions : ~uneven /\ InSomeTotal(d)' => CountOK(d)'
      BY <1>1, <2>1 DEF CountInv, InSomeTotal, CountOK, ReadsAfter, Existing
    <2>3. \A k \in Jobs : Overtaken(k)'
      BY <1>1, <2>1 DEF CountInv, Overtaken, LeavesBehind, Existing
    <2> QED
      BY <1>1, <2>2, <2>3 DEF CountInv
  <1>4. CASE /\ job[j].pc /= "idle" /\ job'[j].since = job[j].since
             /\ job'[j].updated = job[j].updated
             /\ job'[j].pc = "commit" => job[j].updated = run.updated
    <2>1. \A d \in Decisions : ~uneven /\ InSomeTotal(d)' => CountOK(d)'
      BY <1>1, <1>4 DEF CountInv, InSomeTotal, CountOK, ReadsAfter, Existing
    <2>2. \A k \in Jobs : Overtaken(k)'
      BY <1>1, <1>4 DEF CountInv, Overtaken, LeavesBehind, Existing
    <2> QED
      BY <1>1, <2>1, <2>2 DEF CountInv
  <1>5. CASE /\ ~StartSummary(j) /\ ~CommitSummary(j) /\ ~SummaryFails(j)
             /\ job'[j] /= IdleJob
    <2>1. /\ job[j].pc /= "idle" /\ job'[j].since = job[j].since
          /\ job'[j].updated = job[j].updated
          /\ job'[j].pc = "commit" => job[j].updated = run.updated
      BY <1>1, <1>5 DEF Summary, OpenWindow, ReadDecisions, ReadRules, SaveRows, SeeRows,
         BumpWatermarks, CheckVersion, WindowInv, SummariesTyped, SummaryJobType
    <2> QED
      BY <1>4, <2>1
  <1>6. CommitSummary(j) \/ SummaryFails(j) => job'[j] = IdleJob
    BY DEF CommitSummary, SummaryFails, WindowInv, SummariesTyped
  <1> QED
    BY <1>2, <1>3, <1>5, <1>6

LEMMA CommitCount ==
  ASSUME WindowInv, WindowInv', CountInv, Ruled = Decisions,
         NEW j \in Jobs, CommitSummary(j)
  PROVE  CountInv'
  <1> DEFINE old == job[j]
  <1>1. /\ UNCHANGED decision /\ ends' = ends \cup {old.bound}
        /\ job'[j] = IdleJob /\ \A k \in Jobs \ {j} : job'[k] = job[k]
        /\ old.pc = "commit" /\ uneven' = (uneven \/ LeavesBehind(j))
        /\ run'.updated = IF old.ruled /= {} THEN run.updated + 1 ELSE run.updated
    BY DEF CommitSummary, WindowInv, SummariesTyped, Touched, SavedNewData, RunType
  <1>2. /\ old \in SummaryJobType /\ run.updated \in Nat
        /\ \A d \in Decisions : decision[d].at \in Nat
        /\ \A r \in Rows, d \in Decisions : row[r].counts[d] \in Nat
        /\ ends \subseteq Nat
    BY DEF WindowInv, SummariesTyped, RunType, RowType, DecisionType
  <1>3. /\ 0 < old.bound /\ old.since <= old.bound /\ old.since \in {0} \cup ends
        /\ \A k \in Jobs : job[k].updated <= run.updated /\ job[k].updated \in Nat
    BY <1>1 DEF WindowInv, WindowOK, HasWindow, SummariesTyped, SummaryJobType
  <1>4. /\ \A d \in old.decided \cup old.ruled :
             /\ d \in Stored /\ 0 < decision[d].at
             /\ old.since <= decision[d].at /\ decision[d].at <= old.bound
        /\ old.decided \subseteq old.ruled
        /\ DecisionRows(j) \cup RuleRows(j) \subseteq old.locks
    <2>1. ReadOK(j) /\ LocksOK(j) /\ TimesPast
      BY DEF WindowInv
    <2>2. old.decided \subseteq Decisions
      BY <1>2 DEF SummaryJobType
    <2> QED
      BY <1>1, <2>1, <2>2 DEF ReadOK, LocksOK, TimesPast, Stored, Writing
  <1>5. /\ \A r \in Rows \ old.locks : row'[r] = row[r]
        /\ \A r \in Rows \cap old.locks : row'[r].watermark = old.bound
        /\ \A r \in Rows, d \in Decisions :
              row'[r].counts[d] = row[r].counts[d] +
                (IF r \in old.locks /\ Counted(j, r, d) THEN 1 ELSE 0)
    <2> SummariesTyped
      BY DEF WindowInv
    <2> QED
      BY RowAfterSummary
  <1>6. Existing' = Existing \cup (Rows \cap old.locks)
    BY <1>3, <1>5 DEF Existing
  \* Only what is read by the job is counted now and was not before.
  <1>7. \A d \in Decisions : InSomeTotal(d)' => InSomeTotal(d) \/ d \in old.ruled
    <2> SUFFICES ASSUME NEW d \in Decisions, NEW r \in Rows, row'[r].counts[d] > 0,
                        ~InSomeTotal(d)
                 PROVE  d \in old.ruled
      BY DEF InSomeTotal
    <2>1. row[r].counts[d] = 0
      BY <1>2 DEF InSomeTotal
    <2>2. Counted(j, r, d)
      BY <1>5, <2>1
    <2> QED
      BY <1>4, <2>2 DEF Counted
  <1>8. ASSUME NEW k \in Jobs
        PROVE  Overtaken(k)'
    <2>1. CASE k = j
      BY <1>1, <2>1 DEF Overtaken, IdleJob
    <2>2. CASE k /= j /\ old.ruled = {}
      <3>1. job'[k] = job[k] /\ run'.updated = run.updated /\ Existing \subseteq Existing'
        BY <1>1, <1>6, <2>2
      <3> QED
        BY <3>1 DEF CountInv, Overtaken, LeavesBehind
    <2>3. CASE k /= j /\ old.ruled /= {}
      <3>1. PICK d \in old.ruled : TRUE
        BY <2>3
      <3>2. <<"rules", Outcome[d]>> \in old.locks /\ <<"rules", Outcome[d]>> \in Rows
        BY <1>2, <1>4, <3>1, OutcomeRows DEF RuleRows, SummaryJobType
      <3>3. <<"rules", Outcome[d]>> \in Existing' \ job'[k].locks
        BY <1>1, <1>6, <2>3, <3>2 DEF WindowInv, LocksApart
      <3> QED
        BY <3>3 DEF Overtaken, LeavesBehind
    <2> QED
      BY <2>1, <2>2, <2>3
  <1>9. ASSUME ~uneven', NEW d \in Decisions, InSomeTotal(d)'
        PROVE  CountOK(d)'
    <2>1. ~uneven /\ Existing \subseteq old.locks /\ old.updated = run.updated
      BY <1>1, <1>9 DEF LeavesBehind, CountInv, Overtaken
    <2>2. InSomeTotal(d) => CountOK(d) /\ decision[d].at <= old.since
      BY <1>1, <2>1 DEF CountInv, CountOK, ReadsAfter
    <2>3. decision[d].at <= old.bound
      BY <1>2, <1>3, <1>4, <1>7, <1>9, <2>2 DEF SummaryJobType
    <2>4. \A r \in Existing' : decision'[d].at <= row'[r].watermark
      BY <1>1, <1>5, <1>6, <2>1, <2>3 DEF Existing
    <2>5. ASSUME decision[d].at \notin ends', NEW r \in Rows
          PROVE  row'[r].counts[d] <= 1
      <3>1. CASE Counted(j, r, d)
        <4>1. d \in old.ruled
          BY <1>4, <3>1 DEF Counted
        <4>2. ~InSomeTotal(d)
          BY <1>1, <1>2, <1>3, <1>4, <2>2, <2>5, <4>1 DEF SummaryJobType
        <4>3. row[r].counts[d] = 0
          BY <1>2, <4>2 DEF InSomeTotal
        <4> QED
          BY <1>5, <4>3
      <3>2. CASE ~Counted(j, r, d)
        <4>1. row'[r].counts[d] = row[r].counts[d]
          BY <1>2, <1>5, <3>2
        <4>2. CASE row[r].counts[d] > 0
          BY <1>1, <2>2, <2>5, <4>1, <4>2 DEF InSomeTotal, CountOK
        <4> QED
          BY <1>2, <4>1, <4>2
      <3> QED
        BY <3>1, <3>2
    <2>6. ASSUME NEW k \in Jobs
          PROVE  ReadsAfter(k, d)'
      <3>1. CASE k = j
        BY <1>1, <3>1 DEF ReadsAfter, IdleJob
      <3>2. CASE k /= j
        <4> job'[k] = job[k]
          BY <1>1, <3>2
        <4>1. CASE d \in old.ruled
          <5>1. <<"rules", Outcome[d]>> \in old.locks
            BY <1>4, <4>1 DEF RuleRows
          <5>2. ~(job[k].pc = "commit" /\ d \in job[k].ruled)
            <6> SUFFICES ASSUME job[k].pc = "commit", d \in job[k].ruled
                         PROVE  FALSE
              OBVIOUS
            <6>1. <<"rules", Outcome[d]>> \in job[k].locks
              BY DEF WindowInv, LocksOK, Writing, RuleRows
            <6> QED
              BY <3>2, <5>1, <6>1 DEF WindowInv, LocksApart
          <5>3. job[k].updated /= run'.updated
            BY <1>1, <1>2, <1>3, <4>1
          <5> QED
            BY <5>2, <5>3 DEF ReadsAfter
        <4>2. CASE d \notin old.ruled
          <5>1. CountOK(d)
            BY <1>7, <1>9, <2>2, <4>2
          <5>2. job[k].updated = run'.updated => job[k].updated = run.updated
            BY <1>1, <1>2, <1>3
          <5> QED
            BY <1>1, <5>1, <5>2 DEF CountOK, ReadsAfter
        <4> QED
          BY <4>1, <4>2
      <3> QED
        BY <3>1, <3>2
    <2> QED
      BY <1>1, <2>4, <2>5, <2>6 DEF CountOK
  <1> QED
    BY <1>8, <1>9 DEF CountInv

\* As long as no summary has left rows behind, no decision is counted twice in a total, if
\* every decision has rules: updated_at is touched when statistics of rules were saved.
THEOREM DecisionsCountedOnce ==
  ASSUME Ruled = Decisions
  PROVE  SummariesSpec => []CountedOnce
  <1>1. SummariesInit => WindowInv /\ CountInv
    BY InitWindow, InitCount
  <1>2. WindowInv /\ CountInv /\ [SummariesNext]_summariesVars => WindowInv' /\ CountInv'
    <2> SUFFICES ASSUME WindowInv, CountInv, [SummariesNext]_summariesVars
                 PROVE  WindowInv' /\ CountInv'
      OBVIOUS
    <2>1. WindowInv' /\ SummariesTyped
      BY NextWindow DEF WindowInv
    <2> QED
      BY <2>1, SummaryCases, OutsideCount, PreparesCount, CommitCount
  <1>3. WindowInv /\ CountInv => CountedOnce
    <2> SUFFICES ASSUME WindowInv, CountInv, ~uneven, NEW r \in Rows, NEW d \in Decisions,
                        decision[d].at \notin ends
                 PROVE  row[r].counts[d] <= 1
      BY DEF CountedOnce
    <2>1. row[r].counts[d] \in Nat
      BY DEF WindowInv, SummariesTyped, RowType
    <2>2. CASE row[r].counts[d] > 0
      BY <2>2 DEF CountInv, CountOK, InSomeTotal
    <2> QED
      BY <2>1, <2>2
  <1> QED
    BY <1>1, <1>2, <1>3, PTL DEF SummariesSpec

-----------------------------------------------------------------------------
(* No decision is missed.                                                  *)

\* A job that has read its window has found the decision in it.
Finds(j, d) ==
  job[j].since <= decision[d].at /\ decision[d].at <= job[j].bound =>
    /\ job[j].pc \in {"rules", "save"} \cup Writing => d \in job[j].decided
    /\ job[j].pc \in {"save"} \cup Writing /\ d \in Ruled => d \in job[j].ruled

\* What was stored in time is in the totals as soon as a window that covers it is committed.
MissInv == \A d \in Stored \ late :
  /\ \A e \in ends : decision[d].at <= e => InTotals(d)
  /\ \A j \in Jobs : Finds(j, d)

LEMMA InitMiss == SummariesInit => MissInv
  <1> SUFFICES ASSUME SummariesInit PROVE MissInv
    OBVIOUS
  <1>1. ASSUME NEW d \in Decisions
        PROVE  decision[d].state = "none"
    <2>1. decision[d] = [state |-> "none", at |-> 0]
      BY DEF SummariesInit
    <2> QED
      BY <2>1
  <1> QED
    BY <1>1 DEF MissInv, Stored

LEMMA OutsideMiss ==
  ASSUME WindowInv, MissInv,
         \/ \E d \in Decisions : MakeDecision(d) \/ StoreDecision(d)
         \/ StopTestRun
         \/ UNCHANGED summariesVars
  PROVE  MissInv'
  <1>1. UNCHANGED <<row, job, ends>>
    BY DEF MakeDecision, StoreDecision, StopTestRun, summariesVars
  <1>2. ASSUME NEW d \in Stored, d \notin late', decision'[d] = decision[d],
               late \subseteq late'
        PROVE  (\A e \in ends : decision[d].at <= e => InTotals(d))'
               /\ \A j \in Jobs : Finds(j, d)'
    BY <1>1, <1>2 DEF MissInv, InTotals, Finds
  <1>3. ASSUME NEW d \in Decisions, StoreDecision(d)
        PROVE  MissInv'
    <2>1. /\ \A c \in Decisions \ {d} : decision'[c] = decision[c]
          /\ decision'[d].at = decision[d].at /\ late \subseteq late'
          /\ Stored' \subseteq Stored \cup {d}
      BY <1>3 DEF StoreDecision, WindowInv, SummariesTyped, DecisionType, Stored
    <2>2. ASSUME d \notin late'
          PROVE  /\ \A e \in ends' : ~(decision'[d].at <= e)
                 /\ \A j \in Jobs : Finds(j, d)'
      <3>1. ~Opened(decision[d].at)
        BY <1>3, <2>2 DEF StoreDecision
      <3> QED
        BY <1>1, <2>1, <3>1 DEF Opened, Finds
    <2>3. \A c \in (Stored \ late)' \ {d} : c \in Stored /\ c \notin late'
                                         /\ decision'[c] = decision[c]
      BY <2>1 DEF Stored
    <2> QED
      BY <1>2, <2>1, <2>2, <2>3 DEF MissInv
  <1>4. CASE \/ \E d \in Decisions : MakeDecision(d)
             \/ StopTestRun \/ UNCHANGED summariesVars
    <2>1. /\ Stored' = Stored /\ late' = late
          /\ \A c \in Stored : decision'[c] = decision[c]
      BY <1>4 DEF MakeDecision, StopTestRun, summariesVars, WindowInv, SummariesTyped, Stored
    <2> QED
      BY <1>2, <2>1 DEF MissInv
  <1> QED
    BY <1>3, <1>4

LEMMA PreparesMiss ==
  ASSUME WindowInv, MissInv, NEW j \in Jobs, Summary(j), Prepares(j)
  PROVE  MissInv'
  <1>1. /\ UNCHANGED <<decision, row, ends, late>>
        /\ \A k \in Jobs \ {j} : job'[k] = job[k]
        /\ job[j] \in SummaryJobType
    BY DEF Prepares, WindowInv, SummariesTyped
  <1>2. ASSUME NEW d \in Stored \ late
        PROVE  Finds(j, d)'
    <2>1. Finds(j, d)
      BY DEF MissInv
    <2>2. CASE ReadDecisions(j)
      BY <1>1, <2>2 DEF ReadDecisions, Finds, Covered, Writing, WindowInv, SummariesTyped,
                        SummaryJobType
    <2>3. CASE ReadRules(j)
      BY <1>1, <2>1, <2>3 DEF ReadRules, Finds, Covered, Writing, WindowInv, SummariesTyped,
                        SummaryJobType
    <2>4. CASE job'[j].pc \in {"idle", "listed", "decisions"}
      BY <2>4 DEF Finds, Writing
    <2>5. CASE /\ job[j].pc \in {"save"} \cup Writing
               /\ job'[j].since = job[j].since /\ job'[j].bound = job[j].bound
               /\ job'[j].decided = job[j].decided /\ job'[j].ruled = job[j].ruled
      BY <1>1, <2>1, <2>5 DEF Finds
    <2>6. SaveRows(j) \/ SeeRows(j) \/ BumpWatermarks(j) \/ CheckVersion(j) =>
            \/ job'[j].pc = "idle"
            \/ /\ job[j].pc \in {"save"} \cup Writing
               /\ job'[j].since = job[j].since /\ job'[j].bound = job[j].bound
               /\ job'[j].decided = job[j].decided /\ job'[j].ruled = job[j].ruled
      BY <1>1 DEF SaveRows, SeeRows, BumpWatermarks, CheckVersion, WindowInv, SummariesTyped,
                  SummaryJobType, Writing, IdleJob
    <2>7. StartSummary(j) => job'[j].pc = "listed"
      <3> SUFFICES ASSUME StartSummary(j) PROVE job'[j].pc = "listed"
        OBVIOUS
      <3>1. PICK t \in Since :
              job'[j] = [IdleJob EXCEPT !.pc = "listed", !.since = t, !.status = run.status,
                                        !.expires = run.expires, !.updated = run.updated]
        BY DEF StartSummary, WindowInv, SummariesTyped
      <3> QED
        BY <3>1 DEF IdleJob
    <2>8. OpenWindow(j) \/ CommitSummary(j) \/ SummaryFails(j) =>
            job'[j].pc \in {"idle", "listed", "decisions"}
      BY <1>1 DEF OpenWindow, CommitSummary, SummaryFails, WindowInv,
                  SummariesTyped, SummaryJobType, IdleJob
    <2> QED
      BY <2>2, <2>3, <2>4, <2>5, <2>6, <2>7, <2>8 DEF Summary
  <1>3. \A k \in Jobs \ {j}, d \in Stored \ late : Finds(k, d)'
    BY <1>1 DEF MissInv, Finds
  <1> QED
    BY <1>1, <1>2, <1>3 DEF MissInv, Stored, InTotals

LEMMA CommitMiss ==
  ASSUME WindowInv, MissInv, NEW j \in Jobs, CommitSummary(j)
  PROVE  MissInv'
  <1>1. /\ UNCHANGED <<decision, late>> /\ ends' = ends \cup {job[j].bound}
        /\ job'[j] = IdleJob /\ \A k \in Jobs \ {j} : job'[k] = job[k]
        /\ job[j].pc = "commit"
    BY DEF CommitSummary, WindowInv, SummariesTyped
  <1>2. /\ job[j].since \in {0} \cup ends /\ ends \subseteq Nat
        /\ DecisionRows(j) \cup RuleRows(j) \subseteq job[j].locks
    BY <1>1 DEF WindowInv, WindowOK, LocksOK, Writing, SummariesTyped
  <1>3. \A r \in Rows, d \in Decisions :
          /\ row[r].counts[d] \in Nat
          /\ row'[r].counts[d] = row[r].counts[d] +
               (IF r \in job[j].locks /\ Counted(j, r, d) THEN 1 ELSE 0)
    <2> SummariesTyped
      BY DEF WindowInv
    <2> QED
      BY RowAfterSummary DEF SummariesTyped, RowType
  <1>4. ASSUME NEW d \in Decisions, InTotals(d)
        PROVE  InTotals(d)'
    <2>1. \A r \in Rows : row[r].counts[d] > 0 => row'[r].counts[d] > 0
      BY <1>3
    <2> QED
      BY <1>4, <2>1, OutcomeRows DEF InTotals
  <1>5. ASSUME NEW d \in Stored \ late, NEW e \in ends', decision[d].at <= e
        PROVE  InTotals(d)'
    <2> d \in Decisions /\ decision[d].at \in Nat /\ 0 < decision[d].at
      BY DEF Stored, WindowInv, SummariesTyped, TimesPast, DecisionType
    <2>1. CASE e \in ends
      BY <1>4, <1>5, <2>1 DEF MissInv
    <2>2. CASE e = job[j].bound /\ job[j].since <= decision[d].at
      <3>1. d \in job[j].decided /\ (d \in Ruled => d \in job[j].ruled)
        BY <1>1, <1>5, <2>2 DEF MissInv, Finds, Writing
      <3>2. /\ <<"decisions", Outcome[d]>> \in job[j].locks
            /\ d \in Ruled => <<"rules", Outcome[d]>> \in job[j].locks
        BY <1>2, <3>1 DEF DecisionRows, RuleRows
      <3>3. /\ Counted(j, <<"decisions", Outcome[d]>>, d)
            /\ d \in Ruled => Counted(j, <<"rules", Outcome[d]>>, d)
        BY <3>1 DEF Counted
      <3>4. \A r \in Rows : r \in job[j].locks /\ Counted(j, r, d) => row'[r].counts[d] > 0
        BY <1>3
      <3> QED
        BY <3>2, <3>3, <3>4, OutcomeRows DEF InTotals
    <2>3. CASE ~(job[j].since <= decision[d].at)
      <3>1. job[j].since \in ends /\ decision[d].at <= job[j].since
        <4>1. job[j].since \in Nat
          BY DEF WindowInv, SummariesTyped, SummaryJobType
        <4> QED
          BY <1>2, <2>3, <4>1
      <3> QED
        BY <1>4, <3>1 DEF MissInv
    <2> QED
      BY <1>1, <2>1, <2>2, <2>3
  <1>6. \A d \in Decisions : Finds(j, d)'
    BY <1>1 DEF Finds, IdleJob, Writing
  <1>7. \A k \in Jobs \ {j}, d \in Stored \ late : Finds(k, d)'
    BY <1>1 DEF MissInv, Finds
  <1> QED
    BY <1>1, <1>5, <1>6, <1>7 DEF MissInv, Stored

LEMMA NextMiss ==
  ASSUME WindowInv, MissInv, [SummariesNext]_summariesVars
  PROVE  MissInv'
  <1>1. SummariesTyped
    BY DEF WindowInv
  <1> QED
    BY <1>1, SummaryCases, OutsideMiss, PreparesMiss, CommitMiss

-----------------------------------------------------------------------------
(* What is marked summarized was summarized up to its end, as long as no   *)
(* window is cut off.                                                      *)

\* A window with this end covers all of the test run.
CoversRun(e) == run.expires <= e \/ EndDate <= e

\* A job that has listed the stopped test run opens its window after the stop, which the
\* window covers if it is not cut off.
StatusOK(j) ==
  /\ RunRow \in job[j].locks => CoversRun(job[j].bound) \/ CutOff(j)
  /\ job[j].pc /= "idle" /\ job[j].status = "up" => job[j].expires = EndDate
  /\ job[j].pc /= "idle" /\ job[j].status = "down" =>
       /\ run.status = "down"
       /\ HasWindow(j) => run.expires <= job[j].bound \/ CutOff(j)

EndInv ==
  /\ run.status = "up" => run.expires = EndDate
  /\ run.status = "down" => run.expires <= clock
  /\ run.summarized => cut \/ \E e \in ends : CoversRun(e)
  /\ \A j \in Jobs : StatusOK(j)

LEMMA InitEnd == SummariesInit => EndInv
  BY DEF SummariesInit, EndInv, StatusOK, IdleJob

LEMMA OutsideEnd ==
  ASSUME WindowInv, EndInv,
         \/ \E d \in Decisions : MakeDecision(d) \/ StoreDecision(d)
         \/ StopTestRun
         \/ UNCHANGED summariesVars
  PROVE  EndInv'
  <1>1. UNCHANGED <<job, ends, cut>> /\ clock' \in {clock, Now}
    BY DEF MakeDecision, StoreDecision, StopTestRun, summariesVars
  <1>2. clock \in Nat /\ Now \in Nat /\ clock < Now /\ run \in RunType
    BY DEF WindowInv, SummariesTyped, Now
  <1>3. CASE run' = run
    BY <1>1, <1>2, <1>3 DEF EndInv, StatusOK, CoversRun, CutOff, HasWindow, RunType
  <1>4. CASE StopTestRun
    <2>1. /\ run.status = "up" /\ run'.status = "down" /\ run'.expires = Now /\ clock' = Now
          /\ run'.summarized = run.summarized
          /\ \A j \in Jobs : RunRow \notin job[j].locks
      BY <1>2, <1>4 DEF StopTestRun, RunType
    <2>2. \A e \in ends : CoversRun(e) => EndDate <= e
      BY <2>1 DEF CoversRun, EndInv
    <2>3. \A j \in Jobs : job[j].pc /= "idle" => job[j].status = "up"
      BY <2>1 DEF EndInv, StatusOK, WindowInv, SummariesTyped, SummaryJobType
    <2> QED
      BY <1>1, <1>2, <2>1, <2>2, <2>3 DEF EndInv, StatusOK, CoversRun, CutOff
  <1> QED
    BY <1>3, <1>4 DEF MakeDecision, StoreDecision, summariesVars

LEMMA PreparesEnd ==
  ASSUME WindowInv, EndInv,
         NEW j \in Jobs, Summary(j), Prepares(j)
  PROVE  EndInv'
  <1> DEFINE old == job[j]
             new == job'[j]
  <1>1. /\ UNCHANGED <<run, ends, cut>> /\ clock' \in {clock, Now}
        /\ \A k \in Jobs \ {j} : job'[k] = job[k]
        /\ old \in SummaryJobType /\ run \in RunType
        /\ clock \in Nat /\ Now \in Nat /\ clock < Now
    BY DEF Prepares, WindowInv, SummariesTyped, Now
  <1>2. /\ WindowOK(j) /\ StatusOK(j) /\ LocksOK(j)
        /\ run.status = "up" => run.expires = EndDate
        /\ run.status = "down" => run.expires <= clock
    BY DEF WindowInv, EndInv
  <1>3. StatusOK(j)'
    <2>1. CASE job'[j] = IdleJob
      BY <2>1 DEF StatusOK, IdleJob
    <2>2. CASE StartSummary(j)
      <3>1. PICK t \in Since :
              job'[j] = [IdleJob EXCEPT !.pc = "listed", !.since = t, !.status = run.status,
                                        !.expires = run.expires, !.updated = run.updated]
        BY <2>2 DEF StartSummary, WindowInv, SummariesTyped
      <3>2. /\ new.pc = "listed" /\ new.locks = {} /\ new.status = run.status
            /\ new.expires = run.expires
        BY <3>1 DEF IdleJob
      <3> QED
        BY <1>1, <1>2, <3>2 DEF StatusOK, HasWindow, RunType
    <2>3. CASE OpenWindow(j)
      <3> DEFINE b == IF old.since + Window > Now THEN Now ELSE old.since + Window
      <3>1. /\ new = [old EXCEPT !.pc = "decisions", !.bound = b]
            /\ old.pc = "listed" /\ clock' = Now
        BY <2>3 DEF OpenWindow, WindowInv, SummariesTyped
      <3>2. old.since \in Nat
        BY <1>1 DEF SummaryJobType
      <3>3. b = Now \/ b = old.since + Window
        OBVIOUS
      <3> HIDE DEF b
      <3>4. /\ new.bound = b /\ new.since = old.since /\ new.locks = old.locks
            /\ new.pc = "decisions" /\ new.status = old.status /\ new.expires = old.expires
        BY <1>1, <3>1 DEF SummaryJobType
      <3>5. old.locks = {}
        BY <1>2, <3>1 DEF LocksOK, Writing
      <3>6. run.status = "down" => run.expires <= Now
        BY <1>1, <1>2 DEF RunType
      <3> QED
        BY <1>1, <1>2, <3>1, <3>3, <3>4, <3>5, <3>6 DEF StatusOK, CutOff
    <2>4. CASE CheckVersion(j) /\ new /= IdleJob
      <3> DEFINE l == old.locks \cup IF Summarizes(j) THEN {RunRow} ELSE {}
      <3>1. /\ new = [old EXCEPT !.pc = "commit", !.locks = l]
            /\ old.pc = "check"
        BY <2>4 DEF CheckVersion, WindowInv, SummariesTyped
      <3>2. /\ new.bound = old.bound /\ new.since = old.since /\ new.locks = l
            /\ new.pc = "commit"
            /\ new.status = old.status /\ new.expires = old.expires
        BY <1>1, <3>1 DEF SummaryJobType
      <3>3. Summarizes(j) => CoversRun(old.bound) \/ CutOff(j)
        BY <1>1, <1>2, <3>1, SummaryAssumption
        DEF Summarizes, CoversRun, StatusOK, HasWindow, SummaryJobType
      <3>4. RunRow \in new.locks => CoversRun(new.bound) \/ CutOff(j)
        BY <1>2, <3>2, <3>3 DEF StatusOK
      <3>5. CutOff(j) => CutOff(j)'
        BY <3>2 DEF CutOff
      <3> QED
        BY <1>1, <1>2, <3>1, <3>2, <3>4, <3>5 DEF StatusOK, HasWindow, CoversRun
    <2>5. CASE \/ ReadDecisions(j) \/ ReadRules(j) \/ SaveRows(j)
               \/ SeeRows(j) \/ BumpWatermarks(j)
      <3>1. /\ old.pc \notin {"idle", "listed"}
            /\ new.bound = old.bound /\ new.since = old.since
            /\ new.status = old.status /\ new.expires = old.expires
        BY <1>1, <2>5 DEF ReadDecisions, ReadRules, SaveRows, SeeRows, BumpWatermarks,
                          WindowInv, SummariesTyped, SummaryJobType
      <3>2. RunRow \in new.locks => RunRow \in old.locks
        <4>1. CASE SaveRows(j)
          <5>1. new.locks = DecisionRows(j) \cup RuleRows(j)
            BY <1>1, <4>1 DEF SaveRows, WindowInv, SummariesTyped, SummaryJobType
          <5>2. new.locks \subseteq Rows
            BY <5>1, RowsOfJob DEF WindowInv
          <5> QED
            BY <5>2, OutcomeRows
        <4>2. CASE BumpWatermarks(j)
          <5>1. new.locks = old.locks \cup old.seen /\ old.seen \subseteq Rows
            BY <1>1, <4>2 DEF BumpWatermarks, WindowInv, SummariesTyped, SummaryJobType
          <5> QED
            BY <5>1, OutcomeRows
        <4>3. CASE ReadDecisions(j) \/ ReadRules(j) \/ SeeRows(j)
          BY <1>1, <4>3 DEF ReadDecisions, ReadRules, SeeRows, WindowInv, SummariesTyped,
                            SummaryJobType
        <4> QED
          BY <2>5, <4>1, <4>2, <4>3
      <3> QED
        BY <1>1, <1>2, <3>1, <3>2 DEF StatusOK, HasWindow, CoversRun, CutOff
    <2>6. CommitSummary(j) \/ SummaryFails(j) => job'[j] = IdleJob
      BY DEF CommitSummary, SummaryFails, WindowInv, SummariesTyped
    <2> QED
      BY <2>1, <2>2, <2>3, <2>4, <2>5, <2>6 DEF Summary
  <1>4. \A k \in Jobs \ {j} : StatusOK(k)'
    BY <1>1 DEF EndInv, StatusOK, HasWindow, CoversRun, CutOff
  <1>5. run.status = "down" => run.expires <= clock'
    BY <1>1, <1>2 DEF RunType
  <1> QED
    BY <1>1, <1>3, <1>4, <1>5 DEF EndInv, CoversRun

LEMMA CommitEnd ==
  ASSUME WindowInv, EndInv, NEW j \in Jobs, CommitSummary(j)
  PROVE  EndInv'
  <1>1. /\ UNCHANGED clock /\ ends' = ends \cup {job[j].bound}
        /\ job'[j] = IdleJob /\ \A k \in Jobs \ {j} : job'[k] = job[k]
        /\ run'.status = run.status /\ run'.expires = run.expires
        /\ run'.summarized = (run.summarized \/ RunRow \in job[j].locks)
        /\ cut' = (cut \/ (RunRow \in job[j].locks /\ CutOff(j)))
    BY DEF CommitSummary, WindowInv, SummariesTyped, Touched, RunType
  <1>2. StatusOK(j)'
    BY <1>1 DEF StatusOK, IdleJob
  <1>3. \A k \in Jobs \ {j} : StatusOK(k)'
    BY <1>1 DEF EndInv, StatusOK, HasWindow, CoversRun, CutOff
  <1>4. run'.summarized => cut' \/ \E e \in ends' : CoversRun(e)'
    BY <1>1 DEF EndInv, StatusOK, CoversRun
  <1> QED
    BY <1>1, <1>2, <1>3, <1>4 DEF EndInv

\* What lies before the watermark is in the totals, and so is what was decided before the
\* end of a test run that is marked summarized, if that was not for a stop more than a
\* window ahead; except what was committed after a window that covers it had been opened.
THEOREM DecisionsNotMissed == SummariesSpec => []NoneMissed
  <1>1. SummariesInit => WindowInv /\ MissInv /\ EndInv
    BY InitWindow, InitMiss, InitEnd
  <1>2. /\ WindowInv /\ MissInv /\ EndInv
        /\ [SummariesNext]_summariesVars
        => WindowInv' /\ MissInv' /\ EndInv'
    <2> SUFFICES ASSUME WindowInv, MissInv, EndInv,
                        [SummariesNext]_summariesVars
                 PROVE  WindowInv' /\ MissInv' /\ EndInv'
      OBVIOUS
    <2>1. WindowInv' /\ MissInv' /\ SummariesTyped
      BY NextWindow, NextMiss DEF WindowInv
    <2> QED
      BY <2>1, SummaryCases, OutsideEnd, PreparesEnd, CommitEnd
  <1>3. WindowInv /\ MissInv /\ EndInv => NoneMissed
    <2> SUFFICES ASSUME WindowInv, MissInv, EndInv, NEW d \in Stored \ late,
                        \/ \E r \in Existing : decision[d].at <= row[r].watermark
                        \/ /\ run.summarized /\ ~cut /\ decision[d].at <= run.expires
                           /\ decision[d].at <= EndDate
                 PROVE  InTotals(d)
      BY DEF NoneMissed
    <2>1. \A e \in ends : decision[d].at <= e => InTotals(d)
      BY DEF MissInv
    <2>2. CASE \E r \in Existing : decision[d].at <= row[r].watermark
      BY <2>1, <2>2 DEF WindowInv, Watermarked
    <2>3. CASE /\ run.summarized /\ ~cut /\ decision[d].at <= run.expires
               /\ decision[d].at <= EndDate
      <3>1. PICK e \in ends : run.expires <= e \/ EndDate <= e
        BY <2>3 DEF EndInv, CoversRun
      <3>2. e \in Nat /\ run.expires \in Nat /\ EndDate \in Nat /\ decision[d].at \in Nat
        BY SummaryAssumption
        DEF WindowInv, SummariesTyped, RunType, DecisionType, Stored
      <3> QED
        BY <2>1, <2>3, <3>1, <3>2
    <2> QED
      BY <2>2, <2>3
  <1> QED
    BY <1>1, <1>2, <1>3, PTL DEF SummariesSpec

=============================================================================
