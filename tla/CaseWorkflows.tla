--------------------------- MODULE CaseWorkflows ---------------------------
(***************************************************************************)
(* Decisions are gathered in cases.  After a decision, a job carries out   *)
(* the workflow of its scenario: it opens a case for the decision, or adds *)
(* it to an open case that has the same pivot value and opens one only if  *)
(* there is none.  Users open, fill, close, reopen, move and escalate      *)
(* cases meanwhile.                                                        *)
(*                                                                         *)
(* Transactions are read committed: what one reads may change before it    *)
(* writes.  A job that may add to a case holds an advisory lock on its     *)
(* pivot until its transaction ends; users take no lock.  Names, tags,     *)
(* assignment, snoozes and events of cases are left out.                   *)
(***************************************************************************)
EXTENDS Integers, FiniteSets

CONSTANTS
  Decisions,
  Pivot,          \* pivot of each decision: its id and its value
  NoPivot,        \* the scenario has none
  Inboxes,
  Escalation,     \* the inbox to which cases of an inbox are escalated
  None,
  Actions,        \* case actions of workflows: type, inbox, any inbox or not
  MaxAttempts,    \* attempts of a workflow job
  Requests,       \* requests of users that may be handled at a time
  MaxRequests,    \* bound: requests of users that write
  MaxCases        \* bound: cases 1, 2, ... in the order they are opened

Action == [type : {"create", "addIfPossible"}, inbox : Inboxes, anyInbox : BOOLEAN]

ASSUME CaseAssumption ==
  /\ None \notin Decisions \cup Inboxes \cup Nat
  /\ Escalation \in [Inboxes -> Inboxes \cup {None}]
  /\ Actions \subseteq Action
  /\ MaxAttempts \in Nat \ {0} /\ MaxRequests \in Nat /\ MaxCases \in Nat

VARIABLES
  cases,      \* status and inbox of each case; the job and the lock it was opened under
  caseOf,     \* decisions.case_id
  job,        \* the workflow job of each decision
  request,    \* local variables of the requests
  requests,   \* counter of the bound
  foreign     \* history: cases closed, reopened, moved or given decisions by someone
              \* who did not hold the lock they were opened under

vars == <<cases, caseOf, job, request, requests, foreign>>

Cases == 1 .. MaxCases

NoCase == [status |-> "none", inbox |-> None, by |-> None, lock |-> None]
NewCase(inbox, by, lock) ==
  [status |-> "pending", inbox |-> inbox, by |-> by, lock |-> lock]

IdleJob(state, attempts) ==
  [state |-> state, attempts |-> attempts, pc |-> "idle", action |-> None,
   lock |-> None, target |-> None]
IdleRequest == [op |-> "idle"]

\* Every decision was committed together with its job.
Init ==
  /\ cases = [c \in Cases |-> NoCase]
  /\ caseOf = [d \in Decisions |-> None]
  /\ job = [d \in Decisions |-> IdleJob("queued", 0)]
  /\ request = [q \in Requests |-> IdleRequest]
  /\ requests = 0
  /\ foreign = {}

Opened == {c \in Cases : cases[c].status /= "none"}
Open == {c \in Cases : cases[c].status \in {"pending", "investigating"}}

\* The id the next case gets.
NextCase == {c \in Cases \ Opened : \A e \in Cases \ Opened : c <= e}

ValueOf(d) == Pivot[d].value

\* A decision of case c has pivot value v.
HasValue(c, v) == \E d \in Decisions :
  caseOf[d] = c /\ Pivot[d] /= NoPivot /\ ValueOf(d) = v

-----------------------------------------------------------------------------
(* The job: DecisionWorkflowsWorker.Work                                   *)

\* WorkflowAddToCaseIfPossible, of a decision that has a pivot.
Serialized(d, a) == a.type = "addIfPossible" /\ Pivot[d] /= NoPivot

\* The rules are read anew in every attempt; the first action that matches counts.
\* WorkflowCreateCase, and a decision without a pivot, need no lock.
StartWorkflow(d) ==
  /\ job[d].state = "queued"
  /\ \E a \in Actions :
       job' = [job EXCEPT ![d] = [IdleJob("running", job[d].attempts + 1) EXCEPT
                 !.pc = IF Serialized(d, a) THEN "lock" ELSE "validate", !.action = a]]
  /\ UNCHANGED <<cases, caseOf, request, requests, foreign>>

NoRuleMatches(d) ==
  /\ job[d].state = "queued"
  /\ job' = [job EXCEPT ![d] = IdleJob("completed", job[d].attempts + 1)]
  /\ UNCHANGED <<cases, caseOf, request, requests, foreign>>

\* lockKey
LockKey(d) == [pivot |-> Pivot[d],
  inbox |-> IF job[d].action.anyInbox THEN None ELSE job[d].action.inbox]

Locked(key) == \E d \in Decisions : job[d].lock = key

\* Mutant: the lock is not waited for.
Mutant_NoLock(d) ==
  /\ job[d].pc = "lock"
  /\ job' = [job EXCEPT ![d].pc = "select", ![d].lock = LockKey(d)]
  /\ UNCHANGED <<cases, caseOf, request, requests, foreign>>

\* GetAdvisoryLockTx, released with the transaction.
LockPivot(d) ==
  /\ job[d].pc = "lock"
  /\ ~Locked(LockKey(d))
  /\ job' = [job EXCEPT ![d].pc = "select", ![d].lock = LockKey(d)]
  /\ UNCHANGED <<cases, caseOf, request, requests, foreign>>

\* SelectCasesWithPivot
Eligible(d) == {c \in Open :
  /\ HasValue(c, ValueOf(d))
  /\ job[d].action.anyInbox \/ cases[c].inbox = job[d].action.inbox}

NbValues(c) == Cardinality({ValueOf(d) : d \in {x \in Decisions :
                              caseOf[x] = c /\ Pivot[x] /= NoPivot}})

\* caseIsBetterMatch: fewer pivot values, then pending rather than investigating.
\* Among equals it takes the most recent by the start of its transaction: any.
Better(c, e) ==
  \/ NbValues(c) < NbValues(e)
  \/ /\ NbValues(c) = NbValues(e)
     /\ cases[c].status = "pending" /\ cases[e].status /= "pending"

BestMatches(d) == {c \in Eligible(d) : \A e \in Eligible(d) : ~Better(e, c)}

SelectCase(d) ==
  /\ job[d].pc = "select"
  /\ \/ /\ Eligible(d) = {}
        /\ job' = [job EXCEPT ![d].pc = "validate"]
     \/ \E c \in BestMatches(d) :
          job' = [job EXCEPT ![d].pc = "write", ![d].target = c]
  /\ UNCHANGED <<cases, caseOf, request, requests, foreign>>

\* The state of a job whose attempt failed.
AfterError(d) == IdleJob(IF job[d].attempts < MaxAttempts THEN "queued" ELSE "discarded",
                         job[d].attempts)

\* Mutant: a new case is opened for a decision that has one.
Mutant_NotValidated(d) ==
  /\ job[d].pc = "validate"
  /\ job' = [job EXCEPT ![d].pc = "write"]
  /\ UNCHANGED <<cases, caseOf, request, requests, foreign>>

\* validateDecisions: only a decision that has no case gets a new one.
ValidateDecision(d) ==
  /\ job[d].pc = "validate"
  /\ job' = [job EXCEPT ![d] = IF caseOf[d] = None THEN [job[d] EXCEPT !.pc = "write"]
                               ELSE AfterError(d)]
  /\ UNCHANGED <<cases, caseOf, request, requests, foreign>>

\* The job has committed; if it dies before River knows, it runs again.
EndAttempt(d) ==
  job' = [job EXCEPT ![d] = IdleJob("completed", job[d].attempts)]
    \/ job' = [job EXCEPT ![d] = AfterError(d)]

\* CreateCase, called by the workflow.
OpenCase(d) ==
  /\ job[d].pc = "write" /\ job[d].target = None
  /\ \E c \in NextCase :
       /\ cases' = [cases EXCEPT ![c] = NewCase(job[d].action.inbox, d, job[d].lock)]
       /\ caseOf' = [caseOf EXCEPT ![d] = c]
  /\ EndAttempt(d)
  /\ UNCHANGED <<request, requests, foreign>>

\* addToOpenCase: the case may no longer be open, and the decision is not validated.
AddToCase(d) ==
  /\ job[d].pc = "write" /\ job[d].target /= None
  /\ caseOf' = [caseOf EXCEPT ![d] = job[d].target]
  /\ foreign' = IF cases[job[d].target].lock = job[d].lock THEN foreign
                ELSE foreign \cup {job[d].target}
  /\ EndAttempt(d)
  /\ UNCHANGED <<cases, request, requests>>

\* An error, the timeout of ten seconds or the death of the worker.  The transaction
\* factory repeats the victim of a deadlock itself: this counts as an attempt here.
WorkflowFails(d) ==
  /\ job[d].state = "running"
  /\ job' = [job EXCEPT ![d] = AfterError(d)]
  /\ UNCHANGED <<cases, caseOf, request, requests, foreign>>

-----------------------------------------------------------------------------
(* Requests of users: what a request read is in request, until it writes.  *)

Asked(q, r) ==
  /\ request[q] = IdleRequest /\ requests < MaxRequests
  /\ request' = [request EXCEPT ![q] = r]
  /\ requests' = requests + 1
  /\ UNCHANGED <<cases, caseOf, job, foreign>>

Validated(ds) == \A d \in ds : caseOf[d] = None

BeginCreate(q, ds, inbox) ==
  /\ Validated(ds)
  /\ Asked(q, [op |-> "create", decisions |-> ds, inbox |-> inbox])

\* AddDecisionsToCase, also to a closed case.
BeginAdd(q, c, ds) ==
  /\ c \in Opened /\ ds /= {} /\ Validated(ds)
  /\ Asked(q, [op |-> "add", case |-> c, decisions |-> ds,
               status |-> cases[c].status])

CanTransition(from, to) ==
  from = to \/ <<from, to>> \in {"pending"} \X {"investigating", "closed"}
                            \cup {<<"investigating", "closed">>, <<"closed", "investigating">>}

\* A new status, inbox, or none.
Update(c, status, inbox) == [op |-> "update", case |-> c, status |-> status, inbox |-> inbox]

\* UpdateCase; whatever else is changed, a pending case becomes investigating.
BeginUpdate(q, c, status, inbox) ==
  LET old == cases[c].status
      new == IF old = "pending" /\ status \in {None, "pending"} THEN "investigating"
             ELSE status
  IN  /\ c \in Opened /\ (status /= old \/ inbox \notin {None, cases[c].inbox})
      /\ new /= None => CanTransition(old, new)
      /\ Asked(q, Update(c, new, inbox))

\* Comments, assignments, snoozes and reviews: PerformCaseActionSideEffects.
BeginAct(q, c) ==
  /\ c \in Opened /\ cases[c].status = "pending"
  /\ Asked(q, Update(c, "investigating", None))

BeginEscalate(q, c) ==
  /\ c \in Open /\ Escalation[cases[c].inbox] /= None
  /\ Asked(q, Update(c, None, Escalation[cases[c].inbox]))

Answered(q) == request' = [request EXCEPT ![q] = IdleRequest] /\ UNCHANGED <<job, requests>>

Members(ds, c) == [d \in Decisions |-> IF d \in ds THEN c ELSE caseOf[d]]

WriteCreate(q) ==
  /\ request[q].op = "create"
  /\ \E c \in NextCase :
       /\ cases' = [cases EXCEPT ![c] = NewCase(request[q].inbox, None, None)]
       /\ caseOf' = Members(request[q].decisions, c)
  /\ Answered(q)
  /\ UNCHANGED foreign

WriteAdd(q) ==
  LET c == request[q].case
  IN  /\ request[q].op = "add"
      /\ caseOf' = Members(request[q].decisions, c)
      /\ cases' = IF request[q].status = "pending"
                  THEN [cases EXCEPT ![c].status = "investigating"] ELSE cases
      /\ foreign' = foreign \cup {c}
      /\ Answered(q)

Closing(from, to) == (from = "closed") /= (to = "closed")

\* The status and the inbox replace whatever they are by now.
WriteUpdate(q) ==
  LET c == request[q].case
      status == IF request[q].status = None THEN cases[c].status ELSE request[q].status
      inbox == IF request[q].inbox = None THEN cases[c].inbox ELSE request[q].inbox
  IN  /\ request[q].op = "update"
      /\ cases' = [cases EXCEPT ![c].status = status, ![c].inbox = inbox]
      /\ foreign' = IF Closing(cases[c].status, status) \/ inbox /= cases[c].inbox
                    THEN foreign \cup {c} ELSE foreign
      /\ Answered(q)
      /\ UNCHANGED caseOf

RequestFails(q) ==
  /\ request[q] /= IdleRequest
  /\ Answered(q)
  /\ UNCHANGED <<cases, caseOf, foreign>>

\* MassUpdate closes, reopens or moves cases in one statement.
MassChangeStatus(cs, status) ==
  /\ requests < MaxRequests /\ cs /= {} /\ cs \subseteq Opened
  /\ cases' = [c \in Cases |-> IF c \in cs THEN [cases[c] EXCEPT !.status = status]
                                ELSE cases[c]]
  /\ foreign' = foreign \cup {c \in cs : Closing(cases[c].status, status)}
  /\ requests' = requests + 1
  /\ UNCHANGED <<caseOf, job, request>>

MassMoveToInbox(cs, inbox) ==
  /\ requests < MaxRequests /\ cs /= {} /\ cs \subseteq Opened
  /\ cases' = [c \in Cases |-> IF c \in cs THEN [cases[c] EXCEPT !.inbox = inbox]
                                ELSE cases[c]]
  /\ foreign' = foreign \cup {c \in cs : cases[c].inbox /= inbox}
  /\ requests' = requests + 1
  /\ UNCHANGED <<caseOf, job, request>>

-----------------------------------------------------------------------------

Workflow(d) ==
  \/ StartWorkflow(d) \/ NoRuleMatches(d) \/ LockPivot(d)
  \/ SelectCase(d) \/ ValidateDecision(d) \/ OpenCase(d) \/ AddToCase(d)
  \/ WorkflowFails(d)

Begin(q) ==
  \/ \E ds \in SUBSET Decisions, inbox \in Inboxes : BeginCreate(q, ds, inbox)
  \/ \E c \in Cases :
       \/ \E ds \in SUBSET Decisions : BeginAdd(q, c, ds)
       \/ \E status \in {"pending", "investigating", "closed", None},
             inbox \in Inboxes \cup {None} : BeginUpdate(q, c, status, inbox)
       \/ BeginAct(q, c) \/ BeginEscalate(q, c)

Mass == \E cs \in SUBSET Cases :
  \/ \E status \in {"pending", "closed"} : MassChangeStatus(cs, status)
  \/ \E inbox \in Inboxes : MassMoveToInbox(cs, inbox)

Next ==
  \/ \E d \in Decisions : Workflow(d)
  \/ \E q \in Requests :
       Begin(q) \/ WriteCreate(q) \/ WriteAdd(q) \/ WriteUpdate(q) \/ RequestFails(q)
  \/ Mass

Spec == Init /\ [][Next]_vars

-----------------------------------------------------------------------------
(* Properties.                                                             *)

Key == [pivot : {Pivot[d] : d \in Decisions}, inbox : Inboxes \cup {None}]

CaseType ==
  [status : {"none", "pending", "investigating", "closed"}, inbox : Inboxes \cup {None},
   by : Decisions \cup {None}, lock : Key \cup {None}]

JobType ==
  [state : {"queued", "running", "completed", "discarded"}, attempts : 0 .. MaxAttempts,
   pc : {"idle", "lock", "select", "validate", "write"}, action : Actions \cup {None},
   lock : Key \cup {None}, target : Cases \cup {None}]

RequestType ==
  {IdleRequest}
    \cup [op : {"create"}, decisions : SUBSET Decisions, inbox : Inboxes]
    \cup [op : {"add"}, case : Cases, decisions : SUBSET Decisions,
          status : {"pending", "investigating", "closed"}]
    \cup [op : {"update"}, case : Cases, status : {"pending", "investigating", "closed", None},
          inbox : Inboxes \cup {None}]

CasesOK ==
  /\ cases \in [Cases -> CaseType] /\ caseOf \in [Decisions -> Cases \cup {None}]
  /\ \A c \in Opened : cases[c].inbox \in Inboxes
  /\ foreign \subseteq Opened

JobsOK ==
  /\ job \in [Decisions -> JobType]
  /\ \A d \in Decisions :
       /\ job[d].state = "queued" => job[d].attempts < MaxAttempts
       /\ job[d].pc = "idle" <=> job[d].state /= "running"
       /\ job[d].pc /= "idle" => job[d].action \in Actions
       /\ job[d].target /= None => job[d].target \in Opened

RequestsOK ==
  /\ request \in [Requests -> RequestType] /\ requests \in 0 .. MaxRequests
  /\ \A q \in Requests : request[q].op \in {"add", "update"} => request[q].case \in Opened

\* Type invariant; no job runs more often than its attempts allow, and no one has read
\* a case that does not exist.
TypeOK == CasesOK /\ JobsOK /\ RequestsOK

\* Jobs that share a lock never leave two cases for one pivot value: of the cases they
\* opened under it, and which nobody else closed, moved or added to, one at most has
\* decisions of that value, whatever jobs fail, die and run again, and although users
\* and jobs of other locks move decisions at any time.
OneCasePerLock == \A c, e \in Opened \ foreign :
  /\ cases[c].lock /= None /\ cases[c].lock = cases[e].lock
  /\ HasValue(c, cases[c].lock.pivot.value) /\ HasValue(e, cases[c].lock.pivot.value)
  => c = e

\* A decision's job opens one case at most, however often it runs, and whatever becomes
\* of the case between two attempts.
OneCasePerJob == \A c, e \in Opened : cases[c].by /= None /\ cases[c].by = cases[e].by => c = e

\* What the comment of the lock says: only one case gets opened per pivot value, in an
\* inbox, by actions that add to a case when they can.
OneCasePerPivotValue == \A c, e \in Opened \ foreign :
  /\ cases[c].lock /= None /\ cases[e].lock /= None
  /\ cases[c].inbox = cases[e].inbox
  /\ cases[c].lock.pivot.value = cases[e].lock.pivot.value
  /\ HasValue(c, cases[c].lock.pivot.value) /\ HasValue(e, cases[c].lock.pivot.value)
  => c = e

=============================================================================
