-------------------------- MODULE ScenarioLifecycle --------------------------
(***************************************************************************)
(* The iterations of one scenario: drafts are created, edited and          *)
(* committed as a version, versions are published and unpublished, and a   *)
(* test run runs an iteration next to the live one.  Each process keeps    *)
(* the iterations it reads in a cache of its own, which evaluations use:   *)
(* nothing removes an iteration from the cache of a process that did not   *)
(* edit or commit it.                                                      *)
(*                                                                         *)
(* A request reads what it decides upon, adds the iteration that it read   *)
(* to the cache in another step, and writes in a later one, as its         *)
(* transaction is read committed and locks nothing it has read.            *)
(***************************************************************************)
EXTENDS Integers, FiniteSets

CONSTANTS
  Iterations,   \* ids
  None,         \* no iteration
  NbTestRuns,   \* bound: test runs 1, 2, ... in order of creation
  Requests,     \* requests that may be handled at a time
  Processes,    \* server processes
  MaxContents,  \* bound: contents an iteration may be given
  MaxOverlaps   \* bound: requests that write and start while another one does

ASSUME LifecycleAssumption ==
  /\ NbTestRuns \in Nat /\ MaxContents \in Nat /\ MaxOverlaps \in Nat
  /\ None \notin Iterations

VARIABLES
  \* scenario_iterations, and the scenario's live version.
  stored, version, content, live,
  \* scenario_test_run: the status, iteration and live version of each, and the
  \* progress of the goroutine that creates its indexes.
  testRun,
  request,     \* local variables of the requests that write
  reading,     \* the iteration a request has read and not yet added to the cache
  cache,       \* scenarioIterationCache of each process, 0 if an id is not in it
  \* History: the processes that committed an iteration or read it once it was
  \* committed; those that had read it but not yet added it to their cache when it was
  \* edited; the test runs whose callback came late.
  aware, torn, overtaken,
  contents, overlaps

iterationVars == <<stored, version, content, live>>
historyVars == <<aware, torn, overtaken>>
cacheVars == <<reading, cache, historyVars>>
vars == <<iterationVars, testRun, request, cacheVars, contents, overlaps>>

NotCached == 0
TestRuns == 1 .. NbTestRuns

NoTestRun == [status |-> "none", iteration |-> None, live |-> None, indexes |-> "done"]
IdleRequest == [op |-> "idle"]
NothingRead == [iteration |-> None]

Init ==
  /\ stored = {} /\ live = None
  /\ version = [i \in Iterations |-> 0]
  /\ content = [i \in Iterations |-> 0]
  /\ testRun = [t \in TestRuns |-> NoTestRun]
  /\ request = [q \in Requests |-> IdleRequest]
  /\ reading = [q \in Requests |-> NothingRead]
  /\ cache = [p \in Processes |-> [i \in Iterations |-> NotCached]]
  /\ aware = {} /\ torn = {} /\ overtaken = {}
  /\ contents = 0 /\ overlaps = 0

IsDraft(i) == i \in stored /\ version[i] = 0
Drafts == {i \in stored : version[i] = 0}

\* The id of an iteration that has never been stored.
Unused(i) == content[i] = 0

-----------------------------------------------------------------------------
(* A request begins: it reads, checks and keeps what it will write from.   *)

\* The SELECT of GetScenarioIteration, without the cache.
Reads(q, p, i) ==
  /\ reading[q] = NothingRead
  /\ reading' = [reading EXCEPT ![q] =
       [process |-> p, iteration |-> i, content |-> content[i], committed |-> version[i] > 0]]

\* An iteration is viewed, or evaluated when it is not in the cache.
View(q, p, i) ==
  /\ i \in stored
  /\ request[q] = IdleRequest
  /\ Reads(q, p, i)
  /\ UNCHANGED <<iterationVars, testRun, request, cache, historyVars, contents, overlaps>>

Started(q, r) ==
  /\ request[q] = IdleRequest
  /\ request' = [request EXCEPT ![q] = r]
  /\ \/ (\A k \in Requests : request[k] = IdleRequest) /\ UNCHANGED overlaps
     \/ /\ \E k \in Requests : request[k] /= IdleRequest
        /\ overlaps < MaxOverlaps /\ overlaps' = overlaps + 1
  /\ UNCHANGED <<iterationVars, testRun, cache, aware, torn, contents>>

\* Mutant: edits do not look at the version.
Mutant_EditAny(q, p, i) ==
  /\ i \in stored
  /\ Started(q, [op |-> "edit", iteration |-> i]) /\ Reads(q, p, i)
  /\ UNCHANGED overtaken

\* UpdateScenarioIteration, CreateRule, UpdateRule, DeleteRule.
BeginEdit(q, p, i) ==
  /\ IsDraft(i)
  /\ Started(q, [op |-> "edit", iteration |-> i]) /\ Reads(q, p, i)
  /\ UNCHANGED overtaken

\* getScenarioVersion
LatestVersions == {n \in {0} \cup {version[i] : i \in stored} :
                     \A i \in stored : version[i] <= n}

BeginCommit(q, p, i) ==
  /\ IsDraft(i)
  /\ \E latest \in LatestVersions :
       Started(q, [op |-> "commit", process |-> p, iteration |-> i, version |-> latest + 1,
                   updated |-> FALSE])
  /\ Reads(q, p, i)
  /\ UNCHANGED overtaken

\* CreateDraftFromScenarioIteration lists the drafts, which it will replace.
BeginDraft(q, p, i) ==
  /\ i \in stored
  /\ Started(q, [op |-> "draft", content |-> content[i], drafts |-> Drafts])
  /\ Reads(q, p, i)
  /\ UNCHANGED overtaken

\* Mutant: publishing does not look at the version.
Mutant_PublishAny(q, p, i) ==
  /\ i \in stored /\ live /= i
  /\ Started(q, [op |-> "publish", iteration |-> i, live |-> live]) /\ Reads(q, p, i)
  /\ UNCHANGED overtaken

BeginPublish(q, p, i) ==
  /\ i \in stored /\ version[i] > 0 /\ live /= i
  /\ Started(q, [op |-> "publish", iteration |-> i, live |-> live]) /\ Reads(q, p, i)
  /\ UNCHANGED overtaken

BeginUnpublish(q, p, i) ==
  /\ i \in stored /\ live = i
  /\ Started(q, [op |-> "unpublish", iteration |-> i]) /\ Reads(q, p, i)
  /\ UNCHANGED overtaken

Up == {t \in TestRuns : testRun[t].status = "up"}
Awaited == {t \in TestRuns : testRun[t].indexes /= "done"}

\* CreateScenarioTestRun: only a test run that is up already, or indexes being
\* created, stand in its way; the iteration may be a draft.  The callback of another
\* test run may be still to come.
BeginTestRun(q, p, i) ==
  /\ live /= None /\ live /= i /\ i \in stored
  /\ Up = {}
  /\ \A t \in TestRuns : testRun[t].indexes /= "creating"
  /\ Started(q, [op |-> "test", iteration |-> i, live |-> live]) /\ Reads(q, p, i)
  /\ overtaken' = overtaken \cup Awaited

-----------------------------------------------------------------------------
(* The cache.                                                              *)

\* Mutant: an iteration that is in the cache is left as it is there.
Mutant_KeepCached(r) ==
  IF cache[r.process][r.iteration] = NotCached
  THEN [cache EXCEPT ![r.process][r.iteration] = r.content] ELSE cache

Cached(r) == [cache EXCEPT ![r.process][r.iteration] = r.content]

\* The cache.Add of GetScenarioIteration, which follows its SELECT.
AddToCache(q) ==
  LET r == reading[q]
  IN  /\ r /= NothingRead
      /\ reading' = [reading EXCEPT ![q] = NothingRead]
      /\ cache' = Cached(r)
      /\ aware' = IF r.committed THEN aware \cup {<<r.process, r.iteration>>} ELSE aware
      /\ UNCHANGED <<iterationVars, testRun, request, torn, overtaken, contents, overlaps>>

\* 50 iterations, for 24 hours.
Evict(p, i) ==
  /\ cache[p][i] /= NotCached
  /\ cache' = [cache EXCEPT ![p][i] = NotCached]
  /\ UNCHANGED <<iterationVars, testRun, request, reading, historyVars, contents, overlaps>>

\* What EvalScenario evaluates: it reads through the cache.
Evaluated(p, i) == IF cache[p][i] = NotCached THEN content[i] ELSE cache[p][i]

-----------------------------------------------------------------------------
(* The request writes, and its transaction commits.                        *)

Ends(q, op) ==
  /\ request[q].op = op /\ reading[q] = NothingRead
  /\ request' = [request EXCEPT ![q] = IdleRequest]
  /\ UNCHANGED <<reading, cache, overtaken, overlaps>>

Fresh == contents < MaxContents /\ contents' = contents + 1

CreateScenarioIteration(i) ==
  /\ Unused(i)
  /\ Fresh
  /\ stored' = stored \cup {i}
  /\ content' = [content EXCEPT ![i] = contents']
  /\ UNCHANGED <<version, live, testRun, request, cacheVars, overlaps>>

\* The processes that have read an iteration and not yet added it to their cache.
NotAdded(i) == {reading[k].process : k \in {q \in Requests : reading[q].iteration = i}}

ApplyEdit(q) ==
  LET i == request[q].iteration
  IN  /\ Ends(q, "edit")
      /\ i \in stored
      /\ Fresh
      /\ content' = [content EXCEPT ![i] = contents']
      /\ torn' = torn \cup {<<p, i>> : p \in NotAdded(i)}
      /\ UNCHANGED <<stored, version, live, testRun, aware>>

\* UpdateScenarioIterationVersion; its transaction reads the iteration once more.
UpdateVersion(q) ==
  LET r == request[q]
  IN  /\ r.op = "commit" /\ ~r.updated
      /\ r.iteration \in stored
      /\ request' = [request EXCEPT ![q] = [r EXCEPT !.updated = TRUE]]
      /\ Reads(q, r.process, r.iteration)
      /\ UNCHANGED <<iterationVars, testRun, cache, historyVars, contents, overlaps>>

ApplyCommit(q) ==
  LET i == request[q].iteration
  IN  /\ Ends(q, "commit") /\ request[q].updated
      /\ i \in stored
      /\ version' = [version EXCEPT ![i] = request[q].version]
      /\ aware' = aware \cup {<<request[q].process, i>>}
      /\ UNCHANGED <<stored, content, live, testRun, torn, contents>>

\* Deleting iterations deletes their test runs.
Delete(gone, new) ==
  /\ stored' = (stored \ gone) \cup {new}
  /\ testRun' = [t \in TestRuns |-> IF testRun[t].iteration \in gone
                 THEN [testRun[t] EXCEPT !.status = "none"] ELSE testRun[t]]

\* The drafts that were listed are deleted, whatever became of them.  If one is
\* live by now, the scenario would be deleted with it, and then the new draft
\* violates its foreign key: the transaction is rolled back.
ApplyDraft(q) ==
  /\ Ends(q, "draft")
  /\ live \notin request[q].drafts
  /\ \E i \in Iterations :
       /\ Unused(i)
       /\ Delete(request[q].drafts, i)
       /\ content' = [content EXCEPT ![i] = request[q].content]
  /\ UNCHANGED <<version, live, aware, torn, contents>>

\* GetTestRunByLiveVersionID: the last one that was created next to a version.
LastNextTo(i) == {t \in TestRuns : /\ i /= None /\ testRun[t].live = i
                                   /\ testRun[t].status /= "none"
                                   /\ \A u \in TestRuns :
                                        (testRun[u].live = i /\ testRun[u].status /= "none")
                                          => u <= t}

\* Mutant: the test run of the version that was live goes on.
Mutant_NewVersionOnly(old, new) ==
  testRun' = [t \in TestRuns |-> IF t \in LastNextTo(new)
                                 THEN [testRun[t] EXCEPT !.status = "down"] ELSE testRun[t]]

\* shutDownTestRunIfNeeded for the version that was live and the one that will be.
ShutDown(old, new) ==
  testRun' = [t \in TestRuns |-> IF t \in LastNextTo(old) \cup LastNextTo(new)
                                 THEN [testRun[t] EXCEPT !.status = "down"] ELSE testRun[t]]

ApplyPublish(q) ==
  /\ Ends(q, "publish")
  /\ request[q].iteration \in stored
  /\ live' = request[q].iteration
  /\ ShutDown(request[q].live, request[q].iteration)
  /\ UNCHANGED <<stored, version, content, aware, torn, contents>>

ApplyUnpublish(q) ==
  /\ Ends(q, "unpublish")
  /\ request[q].iteration \in stored
  /\ live' = None
  /\ ShutDown(request[q].iteration, None)
  /\ UNCHANGED <<stored, version, content, aware, torn, contents>>

\* CreateTestRun, then CreateIndexesAsyncForScenarioWithCallback, if there are
\* indexes to create.
ApplyTestRun(q) ==
  /\ Ends(q, "test")
  /\ request[q].iteration \in stored
  /\ \E t \in TestRuns, indexes \in {"creating", "created"} :
       /\ testRun[t] = NoTestRun /\ \A u \in 1 .. t - 1 : testRun[u] /= NoTestRun
       /\ testRun' = [testRun EXCEPT ![t] =
            [status |-> "pending", iteration |-> request[q].iteration,
             live |-> request[q].live, indexes |-> indexes]]
  /\ UNCHANGED <<iterationVars, aware, torn, contents>>

\* An error of the database or of a check, or the end of the process.
Abort(q) ==
  /\ request[q] /= IdleRequest \/ reading[q] /= NothingRead
  /\ request' = [request EXCEPT ![q] = IdleRequest]
  /\ reading' = [reading EXCEPT ![q] = NothingRead]
  /\ UNCHANGED <<iterationVars, testRun, cache, historyVars, contents, overlaps>>

-----------------------------------------------------------------------------
(* The indexes of a test run, its callback, and its cancellation.          *)

CreateIndexes(t) ==
  /\ testRun[t].indexes = "creating"
  /\ \E next \in {"created", "done"} : testRun' = [testRun EXCEPT ![t].indexes = next]
  /\ UNCHANGED <<iterationVars, request, cacheVars, contents, overlaps>>

\* The callback sets the status, whatever it is by now, even down; it may fail.
Callback(t) ==
  /\ testRun[t].indexes = "created"
  /\ \E s \in {testRun[t].status} \cup
              (IF testRun[t].status = "none" THEN {} ELSE {"up"}) :
       testRun' = [testRun EXCEPT ![t].indexes = "done", ![t].status = s]
  /\ overtaken' = IF testRun[t].status = "down" THEN overtaken \cup {t} ELSE overtaken
  /\ UNCHANGED <<iterationVars, request, reading, cache, aware, torn, contents, overlaps>>

CancelTestRunById(t) ==
  /\ testRun[t].status \in {"pending", "up"}
  /\ testRun' = [testRun EXCEPT ![t].status = "down"]
  /\ UNCHANGED <<iterationVars, request, cacheVars, contents, overlaps>>

-----------------------------------------------------------------------------

Next ==
  \/ \E p \in Processes, i \in Iterations :
       \/ Evict(p, i)
       \/ \E q \in Requests :
            \/ View(q, p, i) \/ BeginEdit(q, p, i) \/ BeginCommit(q, p, i)
            \/ BeginDraft(q, p, i) \/ BeginPublish(q, p, i) \/ BeginUnpublish(q, p, i)
            \/ BeginTestRun(q, p, i)
  \/ \E i \in Iterations : CreateScenarioIteration(i)
  \/ \E q \in Requests :
       \/ AddToCache(q)
       \/ ApplyEdit(q) \/ UpdateVersion(q) \/ ApplyCommit(q) \/ ApplyDraft(q)
       \/ ApplyPublish(q) \/ ApplyUnpublish(q) \/ ApplyTestRun(q) \/ Abort(q)
  \/ \E t \in TestRuns : CreateIndexes(t) \/ Callback(t) \/ CancelTestRunById(t)

Spec == Init /\ [][Next]_vars

-----------------------------------------------------------------------------

\* Whatever requests overlap, the live version is an iteration that is stored and
\* was committed: publishing checks it before it writes, and only the foreign keys
\* keep it from being deleted in between.
LiveCommitted == live /= None => live \in stored /\ version[live] > 0

\* Unless requests that write overlap, an iteration that was committed is never edited,
\* committed again or deleted, and the next versions differ from its own.
CommittedFrozen == [][
  overlaps' = 0 => \A i \in stored : version[i] > 0 =>
    /\ i \in stored' /\ version'[i] = version[i] /\ content'[i] = content[i]
    /\ \A j \in stored' \ {i} : version'[j] /= version[i] ]_vars

\* Unless requests that write overlap, a process evaluates the live version as it was
\* committed, whatever it had in its cache of the draft, if it committed the version or
\* read it from the database since; unless it was reading the draft while that was
\* edited, and may have added it to the cache late.  It says nothing of a process that
\* has the draft in its cache and has not read the version since, by a publication for
\* instance: it may evaluate that draft for as long as it stays in the cache.
EvaluatedAsCommitted == (overlaps = 0 /\ live /= None) =>
  \A p \in Processes : <<p, live>> \in aware \ torn => Evaluated(p, live) = content[live]

\* Unless requests that write overlap, there is one test run at most that is up, next to
\* the version that is live, besides those whose callback came late: it set up a test
\* run that was already cancelled, or whose version was already replaced, or next to
\* which another one had been asked for.
UpNextToLive == overlaps = 0 =>
  /\ \A t \in Up \ overtaken : testRun[t].live = live
  /\ Cardinality(Up \ overtaken) <= 1
==============================================================================
