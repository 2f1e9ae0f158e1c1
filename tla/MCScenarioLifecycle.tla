------------------------- MODULE MCScenarioLifecycle -------------------------
(* Instances of ScenarioLifecycle for TLC.                                 *)
EXTENDS ScenarioLifecycle, TLC

CONSTANTS q1, q2, i1, i2, p1, p2

Symmetry == 
  Permutations({q1, q2}) \cup Permutations({i1, i2}) \cup Permutations({p1, p2})

\* Caches have nothing to do with test runs, nor with requests that overlap: then one
\* process reads, as it writes, it keeps one iteration in its cache, and none was torn.
Apart ==
  \/ overlaps = 0 /\ \A t \in TestRuns : testRun[t] = NoTestRun
  \/ LET held == {x \in Processes \X Iterations : cache[x[1]][x[2]] /= NotCached}
     IN  /\ torn = {} /\ Cardinality(held) <= 1
         /\ \A q \in Requests : request[q] = IdleRequest => reading[q] = NothingRead
         /\ \E p \in Processes : aware \cup held \subseteq {p} \X Iterations
==============================================================================
