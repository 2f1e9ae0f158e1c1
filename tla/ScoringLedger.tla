---------------------------- MODULE ScoringLedger ----------------------------
(***************************************************************************)
(* What the batch executions of a scenario promise, without manifests,     *)
(* jobs, cursors or crashes: each execution goes once from pending to      *)
(* processing to an end, and while it is processing it records outcomes in *)
(* a ledger, some rows at a time.  A deduplicated execution only records   *)
(* evaluations of objects nobody evaluated before.                         *)
(***************************************************************************)
EXTENDS Integers, Sequences

CONSTANTS Executions, Objects

VARIABLES status, dedup, ledger

ledgerVars == <<status, dedup, ledger>>

Evaluations == {"decision", "untriggered"}
Entries == [object : Objects,
            outcome : Evaluations \cup {"missing", "prefiltered", "lost"}]

\* The rows of a sequence of entries that are evaluations.
EvaluationRows(entries) == {i \in DOMAIN entries : entries[i].outcome \in Evaluations}

EvaluatedBefore(o) ==
  \E e \in Executions : \E i \in EvaluationRows(ledger[e]) : ledger[e][i].object = o

\* Every evaluation among the entries is the first one of its object.
AllFresh(entries) == \A i \in EvaluationRows(entries) :
  /\ ~EvaluatedBefore(entries[i].object)
  /\ \A j \in EvaluationRows(entries) : entries[i].object = entries[j].object => i = j

LedgerInit ==
  /\ status = [e \in Executions |-> "none"]
  /\ dedup = [e \in Executions |-> FALSE]
  /\ ledger = [e \in Executions |-> <<>>]

Open(e) ==
  /\ status[e] = "none"
  /\ status' = [status EXCEPT ![e] = "pending"]
  /\ \E d \in BOOLEAN : dedup' = [dedup EXCEPT ![e] = d]
  /\ UNCHANGED ledger

Begin(e) ==
  /\ status[e] = "pending"
  /\ status' = [status EXCEPT ![e] = "processing"]
  /\ UNCHANGED <<dedup, ledger>>

\* A setup that runs again after its commit starts its execution again.
BeginAgain(e) ==
  /\ status[e] \notin {"none", "pending"}
  /\ status' = [status EXCEPT ![e] = "processing"]
  /\ UNCHANGED <<dedup, ledger>>

\* The entries that ledger' adds to execution e's.
Added(e) == SubSeq(ledger'[e], Len(ledger[e]) + 1, Len(ledger'[e]))

Record(e) ==
  /\ status[e] = "processing"
  /\ ledger' = [ledger EXCEPT ![e] = @ \o Added(e)]
  /\ dedup[e] => AllFresh(Added(e))
  /\ UNCHANGED <<status, dedup>>

Close(e) ==
  /\ \/ status[e] = "processing" /\ \E s \in {"success", "failure"} :
          status' = [status EXCEPT ![e] = s]
     \/ status[e] = "pending" /\ status' = [status EXCEPT ![e] = "failure"]
  /\ UNCHANGED <<dedup, ledger>>

LedgerNext == \E e \in Executions : Open(e) \/ Begin(e) \/ BeginAgain(e) \/ Record(e) \/ Close(e)

LedgerSpec == LedgerInit /\ [][LedgerNext]_ledgerVars
==============================================================================
