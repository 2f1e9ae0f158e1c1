-------------------------- MODULE MCBatchExecution --------------------------
(* Instances of BatchExecution for TLC.                                    *)
EXTENDS BatchExecution, TLC

\* Every manifest of distinct objects, in every order, up to a length.
DistinctManifests(n) ==
  UNION {{m \in [1 .. k -> Objects] :
            \A i, j \in 1 .. k : m[i] = m[j] => i = j} : k \in 0 .. n}

Distinct2 == DistinctManifests(2)
Distinct3 == DistinctManifests(3)

\* Two manifests that share objects, in opposite orders.
Crossing == {m \in Distinct2 : Len(m) = 2}

\* For tables that hold two valid rows for one object.
Repeated == UNION {[1 .. k -> Objects] : k \in 1 .. 2}

\* A bound: one setup runs again, or one commit is reported as failed.
OneFault == reruns + ambiguous <= 1

Symmetry == Permutations(Executions) \cup Permutations(Objects) \cup Permutations(Creators)
=============================================================================
