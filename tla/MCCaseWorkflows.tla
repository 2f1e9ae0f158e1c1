-------------------------- MODULE MCCaseWorkflows --------------------------
(* Instances of CaseWorkflows for TLC. *)
EXTENDS CaseWorkflows, TLC

CONSTANTS p, a, b

\* All decisions are about one entity.
OnePivot == [d \in Decisions |-> [id |-> p, value |-> p]]

\* Cases of a may be escalated to b.
AToB == [i \in Inboxes |-> IF i = a THEN b ELSE None]

Create == [type |-> "create", inbox |-> a, anyInbox |-> FALSE]
AddIn(inbox) == [type |-> "addIfPossible", inbox |-> inbox, anyInbox |-> FALSE]
AddAnywhere == [type |-> "addIfPossible", inbox |-> a, anyInbox |-> TRUE]

AllKinds == {Create, AddIn(a), AddAnywhere}
AddKinds == {AddIn(a), AddAnywhere}

\* Bounds: one job has a second attempt, and one, at a time, has another action than
\* to add to a case of a.
Few ==
  /\ Cardinality({d \in Decisions : job[d].attempts > 1}) <= 1
  /\ Cardinality({d \in Decisions :
       \/ job[d].action \in {Create, AddAnywhere}
       \/ \E c \in Opened : cases[c].by = d /\ cases[c].lock \in {None, [pivot |-> Pivot[d], inbox |-> None]}}) <= 1

Symmetry == Permutations(Decisions)
==============================================================================
