------------------------ MODULE CaseWorkflowsProofs ------------------------
(***************************************************************************)
(* Proofs about CaseWorkflows, for any number of decisions, cases, inboxes *)
(* and requests: no job opens two cases, and jobs that share a lock leave  *)
(* no two cases for one pivot value.                                       *)
(***************************************************************************)
EXTENDS CaseWorkflows, TLAPS

USE CaseAssumption

\* A decision whose job has opened a case has had a case since.
OpenedHadCase == \A c \in Opened : cases[c].by /= None => caseOf[cases[c].by] /= None

\* A job that is about to open a case has opened none.
NoneOpenedYet == \A d \in Decisions :
  job[d].pc = "write" /\ job[d].target = None => \A c \in Opened : cases[c].by /= d

JobInv == TypeOK /\ OpenedHadCase /\ NoneOpenedYet /\ OneCasePerJob

\* The lock a job holds is that of its decision and action.
HoldsItsLock == \A d \in Decisions :
  /\ job[d].pc \in {"lock", "select"} => Serialized(d, job[d].action)
  /\ job[d].pc = "select" \/ job[d].lock /= None => job[d].lock = LockKey(d)

Exclusive == \A d, e \in Decisions :
  job[d].lock /= None /\ job[d].lock = job[e].lock => d = e

\* Case c was opened under lock k, and nobody else has changed it.
Own(c, k) == c \in Opened \ foreign /\ cases[c].lock = k

\* Such a case is one that the holders of the lock find.
OwnIsFound == \A c \in Opened \ foreign : cases[c].lock /= None =>
  c \in Open /\ cases[c].lock.inbox \in {None, cases[c].inbox}

\* The case a job has chosen, if it was opened under the job's lock, is the only such
\* case with the value; and if the job has found none, there is none.
ChosenIsOnly == \A d \in Decisions : LET k == job[d].lock IN
  /\ k /= None /\ job[d].pc \in {"validate", "write"}
  /\ job[d].target = None \/ Own(job[d].target, k)
  => \A c \in Cases : Own(c, k) /\ HasValue(c, k.pivot.value) => c = job[d].target

LockInv == TypeOK /\ HoldsItsLock /\ Exclusive /\ OwnIsFound /\ ChosenIsOnly /\ OneCasePerLock

-----------------------------------------------------------------------------
(* What steps of users leave alone.                                        *)

Users ==
  \/ \E q \in Requests :
       Begin(q) \/ WriteCreate(q) \/ WriteAdd(q) \/ WriteUpdate(q) \/ RequestFails(q)
  \/ Mass

UserKeeps ==
  /\ job' = job /\ foreign \subseteq foreign' /\ Opened \subseteq Opened'
  /\ \A d \in Decisions : caseOf[d] /= None => caseOf'[d] /= None
  /\ \A c \in Opened : cases'[c].by = cases[c].by /\ cases'[c].lock = cases[c].lock
  /\ \A c \in Opened' \ Opened : cases'[c].by = None /\ cases'[c].lock = None
  /\ \A c \in Opened \ foreign' :
       /\ c \in Open => c \in Open'
       /\ cases'[c].inbox = cases[c].inbox
       /\ \A d \in Decisions : caseOf'[d] = c => caseOf[d] = c

LEMMA BeginKeeps ==
  ASSUME TypeOK, NEW q \in Requests, Begin(q)
  PROVE  TypeOK' /\ UserKeeps
  <1>1. PICK r : Asked(q, r) /\ r \in RequestType /\ r /= IdleRequest
                 /\ (r.op \in {"add", "update"} => r.case \in Opened)
    <2>1. ASSUME NEW ds \in SUBSET Decisions, NEW inbox \in Inboxes, BeginCreate(q, ds, inbox)
          PROVE  \E r : Asked(q, r) /\ r \in RequestType /\ r /= IdleRequest
                        /\ (r.op \in {"add", "update"} => r.case \in Opened)
      BY <2>1 DEF BeginCreate, RequestType, IdleRequest
    <2>2. ASSUME NEW c \in Cases, NEW ds \in SUBSET Decisions, BeginAdd(q, c, ds)
          PROVE  \E r : Asked(q, r) /\ r \in RequestType /\ r /= IdleRequest
                        /\ (r.op \in {"add", "update"} => r.case \in Opened)
      <3>1. cases[c].status \in {"pending", "investigating", "closed"}
        BY <2>2 DEF BeginAdd, Opened, TypeOK, CasesOK, CaseType
      <3> QED BY <2>2, <3>1 DEF BeginAdd, RequestType, IdleRequest
    <2>3. ASSUME NEW c \in Cases, NEW status \in {"pending", "investigating", "closed", None},
                 NEW inbox \in Inboxes \cup {None}, BeginUpdate(q, c, status, inbox)
          PROVE  \E r : Asked(q, r) /\ r \in RequestType /\ r /= IdleRequest
                        /\ (r.op \in {"add", "update"} => r.case \in Opened)
      BY <2>3 DEF BeginUpdate, Update, RequestType, IdleRequest
    <2>4. ASSUME NEW c \in Cases, BeginAct(q, c) \/ BeginEscalate(q, c)
          PROVE  \E r : Asked(q, r) /\ r \in RequestType /\ r /= IdleRequest
                        /\ (r.op \in {"add", "update"} => r.case \in Opened)
      <3>1. c \in Opened
        BY <2>4 DEF BeginAct, BeginEscalate, Open, Opened
      <3>2. CASE BeginAct(q, c)
        BY <3>1, <3>2 DEF BeginAct, Update, RequestType, IdleRequest
      <3>3. CASE BeginEscalate(q, c)
        <4>1. Escalation[cases[c].inbox] \in Inboxes \cup {None}
          BY <3>1, <3>3 DEF TypeOK, CasesOK, CaseType, BeginEscalate
        <4> QED BY <3>1, <3>3, <4>1 DEF BeginEscalate, Update, RequestType, IdleRequest
      <3> QED BY <2>4, <3>2, <3>3
    <2> QED BY <2>1, <2>2, <2>3, <2>4 DEF Begin
  <1>2. UNCHANGED <<cases, caseOf, job, foreign>> /\ request' = [request EXCEPT ![q] = r]
        /\ requests' = requests + 1 /\ requests < MaxRequests
    BY <1>1 DEF Asked
  <1>3. Opened' = Opened /\ Open' = Open
    BY <1>2 DEF Opened, Open
  <1>4. TypeOK'
    BY <1>1, <1>2, <1>3 DEF TypeOK, CasesOK, JobsOK, RequestsOK
  <1> QED BY <1>2, <1>3, <1>4 DEF UserKeeps

\* A request that ends frees its local variables.
LEMMA AnsweredKeeps ==
  ASSUME TypeOK, NEW q \in Requests, Answered(q), Opened \subseteq Opened'
  PROVE  RequestsOK' /\ job' = job /\ requests' = requests
  BY DEF TypeOK, RequestsOK, Answered, RequestType, IdleRequest

LEMMA WriteCreateKeeps ==
  ASSUME TypeOK, NEW q \in Requests, WriteCreate(q)
  PROVE  TypeOK' /\ UserKeeps
  <1> DEFINE new == NewCase(request[q].inbox, None, None)
  <1>1. PICK c \in NextCase :
          cases' = [cases EXCEPT ![c] = new] /\ caseOf' = Members(request[q].decisions, c)
    BY DEF WriteCreate
  <1>2. c \in Cases \ Opened /\ request[q].inbox \in Inboxes
    BY DEF NextCase, WriteCreate, TypeOK, RequestsOK, RequestType, IdleRequest
  <1>3. new \in CaseType /\ new.status = "pending" /\ new.inbox \in Inboxes
        /\ new.by = None /\ new.lock = None
    BY <1>2 DEF NewCase, CaseType
  <1> HIDE DEF new
  <1>4. /\ Opened' = Opened \cup {c} /\ cases' \in [Cases -> CaseType]
        /\ cases'[c] = new
        /\ \A e \in Cases \ {c} : cases'[e] = cases[e]
    BY <1>1, <1>2, <1>3 DEF Opened, TypeOK, CasesOK
  <1>5. caseOf' \in [Decisions -> Cases \cup {None}]
        /\ \A d \in Decisions : caseOf'[d] = c \/ caseOf'[d] = caseOf[d]
    BY <1>1, <1>2 DEF Members, TypeOK, CasesOK
  <1>6. foreign' = foreign /\ job' = job /\ requests' = requests /\ Answered(q)
    BY DEF WriteCreate, Answered
  <1>7. UserKeeps
    BY <1>2, <1>3, <1>4, <1>5, <1>6 DEF UserKeeps, Open, Opened, TypeOK, CasesOK, Cases
  <1>8. CasesOK'
    BY <1>2, <1>3, <1>4, <1>5, <1>6 DEF TypeOK, CasesOK, Opened
  <1>9. TypeOK'
    BY <1>4, <1>6, <1>8, AnsweredKeeps DEF TypeOK, JobsOK
  <1> QED BY <1>7, <1>9

\* One request changes the status and the inbox of one case, and who is in it.
LEMMA WriteAddKeeps ==
  ASSUME TypeOK, NEW q \in Requests, WriteAdd(q)
  PROVE  TypeOK' /\ UserKeeps
  <1> DEFINE c == request[q].case
  <1>1. c \in Opened /\ c \in Cases
    BY DEF WriteAdd, TypeOK, RequestsOK, Opened
  <1>2. /\ cases' \in [Cases -> CaseType] /\ \A e \in Cases \ {c} : cases'[e] = cases[e]
        /\ cases'[c].by = cases[c].by /\ cases'[c].lock = cases[c].lock
        /\ cases'[c].inbox = cases[c].inbox /\ cases'[c].status /= "none"
    <2>1. cases \in [Cases -> CaseType] /\ cases[c] \in CaseType /\ cases[c].status /= "none"
      BY <1>1 DEF TypeOK, CasesOK, Opened
    <2>2. CASE cases' = cases
      BY <2>1, <2>2
    <2>3. CASE cases' = [cases EXCEPT ![c].status = "investigating"]
      BY <1>1, <2>1, <2>3 DEF CaseType
    <2> QED BY <2>2, <2>3 DEF WriteAdd
  <1>3. Opened' = Opened
    BY <1>1, <1>2 DEF Opened
  <1>4. caseOf' \in [Decisions -> Cases \cup {None}]
        /\ \A d \in Decisions : caseOf'[d] = c \/ caseOf'[d] = caseOf[d]
    BY <1>1 DEF WriteAdd, Members, TypeOK, CasesOK
  <1>5. foreign' = foreign \cup {c} /\ job' = job /\ requests' = requests /\ Answered(q)
    BY DEF WriteAdd, Answered
  <1>6. UserKeeps
    BY <1>1, <1>2, <1>3, <1>4, <1>5 DEF UserKeeps, Open, Opened, TypeOK, CasesOK, Cases
  <1>7. CasesOK'
    BY <1>1, <1>2, <1>3, <1>4, <1>5 DEF TypeOK, CasesOK, Opened
  <1>8. TypeOK'
    BY <1>3, <1>5, <1>7, AnsweredKeeps DEF TypeOK, JobsOK
  <1> QED BY <1>6, <1>8

LEMMA WriteUpdateKeeps ==
  ASSUME TypeOK, NEW q \in Requests, WriteUpdate(q)
  PROVE  TypeOK' /\ UserKeeps
  <1> DEFINE c == request[q].case
             status == IF request[q].status = None THEN cases[c].status ELSE request[q].status
             inbox == IF request[q].inbox = None THEN cases[c].inbox ELSE request[q].inbox
  <1>1. /\ c \in Opened /\ c \in Cases
        /\ status \in {"pending", "investigating", "closed"} /\ inbox \in Inboxes
    <2>1. c \in Opened /\ request[q] \in [op : {"update"}, case : Cases,
            status : {"pending", "investigating", "closed", None}, inbox : Inboxes \cup {None}]
      BY DEF WriteUpdate, TypeOK, RequestsOK, RequestType, IdleRequest
    <2> QED BY <2>1 DEF TypeOK, CasesOK, CaseType, Opened
  <1>2. cases' = [cases EXCEPT ![c].status = status, ![c].inbox = inbox]
        /\ foreign' = IF Closing(cases[c].status, status) \/ inbox /= cases[c].inbox
                      THEN foreign \cup {c} ELSE foreign
    BY DEF WriteUpdate
  <1> HIDE DEF status, inbox
  <1>3. /\ cases' \in [Cases -> CaseType] /\ \A e \in Cases \ {c} : cases'[e] = cases[e]
        /\ cases'[c].by = cases[c].by /\ cases'[c].lock = cases[c].lock
        /\ cases'[c].inbox = inbox /\ cases'[c].status = status
    BY <1>1, <1>2 DEF TypeOK, CasesOK, CaseType, Opened
  <1>4. Opened' = Opened
    BY <1>1, <1>3 DEF Opened
  <1>5. caseOf' = caseOf /\ job' = job /\ requests' = requests /\ Answered(q)
    BY DEF WriteUpdate, Answered
  <1>6. c \notin foreign' => inbox = cases[c].inbox /\ (c \in Open => status /= "closed")
    BY <1>2 DEF Closing, Open
  <1>7. UserKeeps
    BY <1>1, <1>2, <1>3, <1>4, <1>5, <1>6 DEF UserKeeps, Open, Opened
  <1>8. CasesOK'
    BY <1>1, <1>2, <1>3, <1>4, <1>5 DEF TypeOK, CasesOK, Opened
  <1>9. TypeOK'
    BY <1>4, <1>5, <1>8, AnsweredKeeps DEF TypeOK, JobsOK
  <1> QED BY <1>7, <1>9

LEMMA MassKeeps ==
  ASSUME TypeOK, Mass
  PROVE  TypeOK' /\ UserKeeps
  <1>1. ASSUME NEW cs \in SUBSET Cases, NEW status \in {"pending", "closed"},
               MassChangeStatus(cs, status)
        PROVE  TypeOK' /\ UserKeeps
    <2>1. /\ cs \subseteq Opened
          /\ cases' \in [Cases -> CaseType] /\ \A e \in Cases \ cs : cases'[e] = cases[e]
          /\ \A e \in cs : /\ cases'[e].by = cases[e].by /\ cases'[e].lock = cases[e].lock
                           /\ cases'[e].inbox = cases[e].inbox /\ cases'[e].status = status
      BY <1>1 DEF MassChangeStatus, TypeOK, CasesOK, CaseType, Opened
    <2>2. Opened' = Opened
      BY <2>1 DEF Opened
    <2>3. /\ UNCHANGED <<caseOf, job, request>>
          /\ requests' = requests + 1 /\ requests < MaxRequests
          /\ foreign' = foreign \cup {c \in cs : Closing(cases[c].status, status)}
      BY <1>1 DEF MassChangeStatus
    <2>4. \A c \in cs : c \in Open /\ c \notin foreign' => status /= "closed"
      BY <2>3 DEF Closing, Open
    <2>5. UserKeeps
      BY <2>1, <2>2, <2>3, <2>4 DEF UserKeeps, Open, Opened
    <2>6. TypeOK'
      BY <2>1, <2>2, <2>3 DEF TypeOK, CasesOK, JobsOK, RequestsOK, Opened
    <2> QED BY <2>5, <2>6
  <1>2. ASSUME NEW cs \in SUBSET Cases, NEW inbox \in Inboxes, MassMoveToInbox(cs, inbox)
        PROVE  TypeOK' /\ UserKeeps
    <2>1. /\ cs \subseteq Opened
          /\ cases' \in [Cases -> CaseType] /\ \A e \in Cases \ cs : cases'[e] = cases[e]
          /\ \A e \in cs : /\ cases'[e].by = cases[e].by /\ cases'[e].lock = cases[e].lock
                           /\ cases'[e].inbox = inbox /\ cases'[e].status = cases[e].status
      BY <1>2 DEF MassMoveToInbox, TypeOK, CasesOK, CaseType, Opened
    <2>2. Opened' = Opened
      BY <2>1 DEF Opened
    <2>3. /\ UNCHANGED <<caseOf, job, request>>
          /\ requests' = requests + 1 /\ requests < MaxRequests
          /\ foreign' = foreign \cup {c \in cs : cases[c].inbox /= inbox}
      BY <1>2 DEF MassMoveToInbox
    <2>4. UserKeeps
      BY <2>1, <2>2, <2>3 DEF UserKeeps, Open, Opened
    <2>5. TypeOK'
      BY <2>1, <2>2, <2>3 DEF TypeOK, CasesOK, JobsOK, RequestsOK, Opened
    <2> QED BY <2>4, <2>5
  <1> QED BY <1>1, <1>2 DEF Mass

LEMMA UsersKeep ==
  ASSUME TypeOK, Users
  PROVE  TypeOK' /\ UserKeeps
  <1>1. ASSUME NEW q \in Requests, RequestFails(q)
        PROVE  TypeOK' /\ UserKeeps
    <2>1. UNCHANGED <<cases, caseOf, job, requests, foreign>> /\ Answered(q)
      BY <1>1 DEF RequestFails, Answered
    <2>2. Opened' = Opened /\ Open' = Open
      BY <2>1 DEF Opened, Open
    <2> QED BY <2>1, <2>2, AnsweredKeeps DEF TypeOK, CasesOK, JobsOK, UserKeeps
  <1> QED BY <1>1, BeginKeeps, WriteCreateKeeps, WriteAddKeeps, WriteUpdateKeeps, MassKeeps
          DEF Users

-----------------------------------------------------------------------------
(* What the steps of a job do to it.                                       *)

IdleOK(j) == /\ j \in JobType /\ j.state /= "running" /\ j.pc = "idle"
             /\ j.state = "queued" => j.attempts < MaxAttempts
             /\ j.lock = None /\ j.target = None

LEMMA IdleJobs ==
  ASSUME TypeOK, NEW d \in Decisions
  PROVE  /\ IdleOK(AfterError(d)) /\ IdleOK(IdleJob("completed", job[d].attempts))
         /\ job[d].state = "queued" => IdleOK(IdleJob("completed", job[d].attempts + 1))
  <1>1. job[d].attempts \in 0 .. MaxAttempts /\ MaxAttempts \in Nat
        /\ (job[d].state = "queued" => job[d].attempts < MaxAttempts)
    BY DEF TypeOK, JobsOK, JobType
  <1> QED BY <1>1 DEF AfterError, IdleJob, IdleOK, JobType

\* A step of a job that neither ends it nor writes.
Proceeds(d) ==
  /\ UNCHANGED <<cases, caseOf, foreign>>
  /\ job'[d].state = "running"
  /\ \/ /\ job[d].state = "queued" /\ job'[d].target = None /\ job'[d].lock = None
        /\ job'[d].pc = IF Serialized(d, job'[d].action) THEN "lock" ELSE "validate"
     \/ /\ job[d].pc = "lock" /\ job'[d].pc = "select" /\ job'[d].target = job[d].target
        /\ job'[d].action = job[d].action
        /\ job'[d].lock = LockKey(d) /\ ~Locked(LockKey(d))
     \/ /\ job[d].pc = "select" /\ job'[d].lock = job[d].lock
        /\ job'[d].action = job[d].action
        /\ \/ job'[d].pc = "validate" /\ Eligible(d) = {} /\ job'[d].target = job[d].target
           \/ job'[d].pc = "write" /\ job'[d].target \in BestMatches(d)
     \/ /\ job[d].pc = "validate" /\ job'[d].pc = "write" /\ caseOf[d] = None
        /\ job'[d].lock = job[d].lock /\ job'[d].action = job[d].action
        /\ job'[d].target = job[d].target

Ends(d) == IdleOK(job'[d])

Works(d) ==
  /\ JobsOK' /\ \A e \in Decisions \ {d} : job'[e] = job[e]
  /\ UNCHANGED <<request, requests>>
  /\ \/ Proceeds(d)
     \/ Ends(d) /\ UNCHANGED <<cases, caseOf, foreign>>
     \/ Ends(d) /\ OpenCase(d)
     \/ Ends(d) /\ AddToCase(d)

LEMMA SetJobKeeps ==
  ASSUME TypeOK, NEW d \in Decisions, NEW j \in JobType, job' = [job EXCEPT ![d] = j],
         Opened \subseteq Opened',
         j.state = "queued" => j.attempts < MaxAttempts,
         j.pc = "idle" <=> j.state /= "running",
         j.pc /= "idle" => j.action \in Actions,
         j.target /= None => j.target \in Opened
  PROVE  JobsOK' /\ job'[d] = j /\ \A e \in Decisions \ {d} : job'[e] = job[e]
  BY DEF TypeOK, JobsOK

LEMMA EndsWorks ==
  ASSUME TypeOK, NEW d \in Decisions, NEW j, IdleOK(j), job' = [job EXCEPT ![d] = j],
         Opened \subseteq Opened'
  PROVE  JobsOK' /\ Ends(d) /\ \A e \in Decisions \ {d} : job'[e] = job[e]
  BY SetJobKeeps DEF IdleOK, Ends

LEMMA EndAttemptWorks ==
  ASSUME TypeOK, NEW d \in Decisions, EndAttempt(d), Opened \subseteq Opened'
  PROVE  JobsOK' /\ Ends(d) /\ \A e \in Decisions \ {d} : job'[e] = job[e]
  <1>1. PICK j : IdleOK(j) /\ job' = [job EXCEPT ![d] = j]
    BY IdleJobs DEF EndAttempt
  <1> QED BY <1>1, EndsWorks

LEMMA WorkflowWorks ==
  ASSUME TypeOK, NEW d \in Decisions, Workflow(d)
  PROVE  Works(d)
  <1>1. job[d] \in JobType
    BY DEF TypeOK, JobsOK
  <1>2. CASE StartWorkflow(d)
    <2>1. PICK a \in Actions : job' = [job EXCEPT ![d] =
            [IdleJob("running", job[d].attempts + 1) EXCEPT
               !.pc = IF Serialized(d, a) THEN "lock" ELSE "validate", !.action = a]]
      BY <1>2 DEF StartWorkflow
    <2> DEFINE new == IdleJob("running", job[d].attempts + 1)
               pc == IF Serialized(d, a) THEN "lock" ELSE "validate"
               j == [new EXCEPT !.pc = pc, !.action = a]
    <2>2. job[d].attempts \in 0 .. MaxAttempts /\ job[d].attempts < MaxAttempts
      BY <1>1, <1>2 DEF StartWorkflow, TypeOK, JobsOK, JobType
    <2>3. new \in JobType /\ new.state = "running" /\ new.lock = None /\ new.target = None
      BY <2>2 DEF IdleJob, JobType
    <2>4. j \in JobType /\ j.state = "running" /\ j.pc = pc /\ j.action = a
          /\ j.lock = None /\ j.target = None
      BY <2>3 DEF JobType
    <2>5. UNCHANGED <<cases, caseOf, request, requests, foreign>> /\ Opened' = Opened
      BY <1>2 DEF StartWorkflow, Opened
    <2>6. JobsOK' /\ job'[d] = j /\ \A e \in Decisions \ {d} : job'[e] = job[e]
      <3>1. job' = [job EXCEPT ![d] = j]
        BY <2>1
      <3> HIDE DEF j
      <3> QED BY <2>4, <2>5, <3>1, SetJobKeeps
    <2> HIDE DEF j
    <2>7. Proceeds(d)
      <3>1. job'[d].pc = IF Serialized(d, job'[d].action) THEN "lock" ELSE "validate"
        BY <2>4, <2>6
      <3> QED BY <1>2, <2>4, <2>5, <2>6, <3>1 DEF Proceeds, StartWorkflow
    <2> QED BY <2>5, <2>6, <2>7 DEF Works
  <1>3. CASE NoRuleMatches(d) \/ WorkflowFails(d) \/ (ValidateDecision(d) /\ caseOf[d] /= None)
    <2>1. UNCHANGED <<cases, caseOf, request, requests, foreign>> /\ Opened' = Opened
      BY <1>3 DEF NoRuleMatches, WorkflowFails, ValidateDecision, Opened
    <2>2. PICK j : IdleOK(j) /\ job' = [job EXCEPT ![d] = j]
      BY <1>3, IdleJobs DEF NoRuleMatches, WorkflowFails, ValidateDecision
    <2> QED BY <2>1, <2>2, EndsWorks DEF Works
  <1>4. CASE LockPivot(d)
    <2> DEFINE j == [job[d] EXCEPT !.pc = "select", !.lock = LockKey(d)]
    <2>1. job[d].pc = "lock" /\ job[d].state = "running" /\ job[d].action \in Actions
          /\ ~Locked(LockKey(d))
      BY <1>1, <1>4 DEF LockPivot, TypeOK, JobsOK
    <2>2. LockKey(d) \in Key
      BY <2>1 DEF LockKey, Key, Action
    <2>3. job' = [job EXCEPT ![d] = j]
      BY <1>4 DEF LockPivot
    <2>4. j \in JobType /\ j.state = job[d].state /\ j.attempts = job[d].attempts
          /\ j.pc = "select" /\ j.action = job[d].action /\ j.lock = LockKey(d)
          /\ j.target = job[d].target
      BY <1>1, <2>2 DEF JobType
    <2> HIDE DEF j
    <2>5. UNCHANGED <<cases, caseOf, request, requests, foreign>> /\ Opened' = Opened
      BY <1>4 DEF LockPivot, Opened
    <2>6. JobsOK' /\ job'[d] = j /\ \A e \in Decisions \ {d} : job'[e] = job[e]
      BY <2>1, <2>3, <2>4, <2>5, SetJobKeeps DEF TypeOK, JobsOK
    <2>7. Proceeds(d)
      BY <2>1, <2>4, <2>5, <2>6 DEF Proceeds
    <2> QED BY <2>5, <2>6, <2>7 DEF Works
  <1>5. CASE SelectCase(d)
    <2>1. job[d].pc = "select" /\ job[d].state = "running" /\ job[d].action \in Actions
      BY <1>1, <1>5 DEF SelectCase, TypeOK, JobsOK
    <2>2. UNCHANGED <<cases, caseOf, request, requests, foreign>> /\ Opened' = Opened
      BY <1>5 DEF SelectCase, Opened
    <2>3. CASE Eligible(d) = {} /\ job' = [job EXCEPT ![d].pc = "validate"]
      <3> DEFINE j == [job[d] EXCEPT !.pc = "validate"]
      <3>1. job' = [job EXCEPT ![d] = j]
        BY <2>3
      <3>2. j \in JobType /\ j.state = job[d].state /\ j.attempts = job[d].attempts
            /\ j.pc = "validate" /\ j.action = job[d].action /\ j.lock = job[d].lock
            /\ j.target = job[d].target
        BY <1>1 DEF JobType
      <3> HIDE DEF j
      <3>3. JobsOK' /\ job'[d] = j /\ \A e \in Decisions \ {d} : job'[e] = job[e]
        BY <2>1, <2>2, <3>1, <3>2, SetJobKeeps DEF TypeOK, JobsOK
      <3>4. Proceeds(d)
        BY <2>1, <2>2, <2>3, <3>2, <3>3 DEF Proceeds
      <3> QED BY <2>2, <3>3, <3>4 DEF Works
    <2>4. ASSUME NEW c \in BestMatches(d), job' = [job EXCEPT ![d].pc = "write", ![d].target = c]
          PROVE  Works(d)
      <3> DEFINE j == [job[d] EXCEPT !.pc = "write", !.target = c]
      <3>1. job' = [job EXCEPT ![d] = j]
        BY <2>4
      <3>2. c \in Opened /\ c \in Cases
        BY DEF BestMatches, Eligible, Open, Opened
      <3>3. j \in JobType /\ j.state = job[d].state /\ j.attempts = job[d].attempts
            /\ j.pc = "write" /\ j.action = job[d].action /\ j.lock = job[d].lock
            /\ j.target = c
        BY <1>1, <3>2 DEF JobType
      <3> HIDE DEF j
      <3>4. JobsOK' /\ job'[d] = j /\ \A e \in Decisions \ {d} : job'[e] = job[e]
        BY <2>1, <2>2, <3>1, <3>2, <3>3, SetJobKeeps DEF TypeOK, JobsOK
      <3>5. Proceeds(d)
        BY <2>1, <2>2, <3>3, <3>4 DEF Proceeds
      <3> QED BY <2>2, <3>4, <3>5 DEF Works
    <2> QED BY <1>5, <2>3, <2>4 DEF SelectCase
  <1>6. CASE ValidateDecision(d) /\ caseOf[d] = None
    <2> DEFINE j == [job[d] EXCEPT !.pc = "write"]
    <2>1. job[d].pc = "validate" /\ job[d].state = "running" /\ job[d].action \in Actions
      BY <1>1, <1>6 DEF ValidateDecision, TypeOK, JobsOK
    <2>2. job' = [job EXCEPT ![d] = j]
      BY <1>6 DEF ValidateDecision
    <2>3. j \in JobType /\ j.state = job[d].state /\ j.attempts = job[d].attempts
          /\ j.pc = "write" /\ j.action = job[d].action /\ j.lock = job[d].lock
          /\ j.target = job[d].target
      BY <1>1 DEF JobType
    <2> HIDE DEF j
    <2>4. UNCHANGED <<cases, caseOf, request, requests, foreign>> /\ Opened' = Opened
      BY <1>6 DEF ValidateDecision, Opened
    <2>5. JobsOK' /\ job'[d] = j /\ \A e \in Decisions \ {d} : job'[e] = job[e]
      BY <2>1, <2>2, <2>3, <2>4, SetJobKeeps DEF TypeOK, JobsOK
    <2>6. Proceeds(d)
      BY <1>6, <2>1, <2>3, <2>4, <2>5 DEF Proceeds
    <2> QED BY <2>4, <2>5, <2>6 DEF Works
  <1>7. CASE OpenCase(d)
    <2>1. Opened \subseteq Opened'
      BY <1>7 DEF OpenCase, NextCase, NewCase, Opened, TypeOK, CasesOK
    <2> QED BY <1>7, <2>1, EndAttemptWorks DEF OpenCase, Works
  <1>8. CASE AddToCase(d)
    <2>1. Opened \subseteq Opened'
      BY <1>8 DEF AddToCase, Opened
    <2> QED BY <1>8, <2>1, EndAttemptWorks DEF AddToCase, Works
  <1> QED BY <1>2, <1>3, <1>4, <1>5, <1>6, <1>7, <1>8 DEF Workflow

\* A case opened by a job.
LEMMA Opens ==
  ASSUME TypeOK, NEW d \in Decisions, OpenCase(d)
  PROVE  \E c \in Cases \ Opened :
           /\ Opened' = Opened \cup {c} /\ \A e \in Cases \ {c} : cases'[e] = cases[e]
           /\ cases'[c].status = "pending" /\ cases'[c].by = d
           /\ cases'[c].lock = job[d].lock /\ cases'[c].inbox = job[d].action.inbox
           /\ caseOf' = [caseOf EXCEPT ![d] = c] /\ foreign' = foreign /\ CasesOK'
  <1> DEFINE new == NewCase(job[d].action.inbox, d, job[d].lock)
  <1>1. PICK c \in NextCase :
          cases' = [cases EXCEPT ![c] = new] /\ caseOf' = [caseOf EXCEPT ![d] = c]
    BY DEF OpenCase
  <1>2. c \in Cases \ Opened /\ foreign' = foreign
    BY DEF NextCase, OpenCase
  <1>3. new \in CaseType /\ new.status = "pending" /\ new.by = d
        /\ new.lock = job[d].lock /\ new.inbox = job[d].action.inbox /\ new.inbox \in Inboxes
    <2>1. job[d].action \in Actions /\ job[d].lock \in Key \cup {None}
      BY DEF OpenCase, TypeOK, JobsOK, JobType
    <2> QED BY <2>1 DEF NewCase, CaseType, Action
  <1> HIDE DEF new
  <1>4. Opened' = Opened \cup {c} /\ cases'[c] = new /\ cases' \in [Cases -> CaseType]
        /\ \A e \in Cases \ {c} : cases'[e] = cases[e]
    BY <1>1, <1>2, <1>3 DEF Opened, TypeOK, CasesOK
  <1>5. CasesOK'
    BY <1>1, <1>2, <1>3, <1>4 DEF TypeOK, CasesOK, Opened
  <1> QED BY <1>1, <1>2, <1>3, <1>4, <1>5

\* A decision added to a case by a job.
LEMMA Adds ==
  ASSUME TypeOK, NEW d \in Decisions, AddToCase(d)
  PROVE  LET t == job[d].target
         IN  /\ t \in Opened /\ cases' = cases /\ Opened' = Opened /\ Open' = Open
             /\ caseOf' = [caseOf EXCEPT ![d] = t] /\ CasesOK'
             /\ foreign \subseteq foreign'
             /\ cases[t].lock /= job[d].lock => t \in foreign'
  <1> DEFINE t == job[d].target
  <1>1. /\ t \in Opened /\ t \in Cases /\ cases' = cases /\ caseOf' = [caseOf EXCEPT ![d] = t]
        /\ foreign \subseteq foreign' /\ foreign' \subseteq foreign \cup {t}
        /\ cases[t].lock /= job[d].lock => t \in foreign'
    BY DEF AddToCase, TypeOK, JobsOK, Opened
  <1>2. Opened' = Opened /\ Open' = Open
    BY <1>1 DEF Opened, Open
  <1>3. CasesOK'
    BY <1>1, <1>2 DEF TypeOK, CasesOK
  <1> QED BY <1>1, <1>2, <1>3

LEMMA StepCases ==
  ASSUME TypeOK, [Next]_vars
  PROVE  \/ Users
         \/ \E d \in Decisions : Workflow(d) /\ Works(d)
         \/ UNCHANGED vars
  BY WorkflowWorks DEF Next, Users

LEMMA TypeInit == Init => TypeOK
  BY DEF Init, TypeOK, CasesOK, JobsOK, RequestsOK, NoCase, CaseType, IdleJob, JobType,
         IdleRequest, RequestType, Opened

LEMMA TypeStep ==
  ASSUME TypeOK, [Next]_vars
  PROVE  TypeOK'
  <1>1. CASE Users
    BY <1>1, UsersKeep
  <1>2. ASSUME NEW d \in Decisions, Workflow(d), Works(d)
        PROVE  TypeOK'
    <2>1. CASE UNCHANGED <<cases, caseOf, foreign>>
      BY <1>2, <2>1 DEF Works, TypeOK, CasesOK, RequestsOK, Opened
    <2>2. CASE OpenCase(d)
      BY <1>2, <2>2, Opens DEF Works, TypeOK, RequestsOK
    <2>3. CASE AddToCase(d)
      BY <1>2, <2>3, Adds DEF Works, TypeOK, RequestsOK
    <2> QED BY <1>2, <2>1, <2>2, <2>3 DEF Works, Proceeds
  <1>3. CASE UNCHANGED vars
    BY <1>3 DEF vars, TypeOK, CasesOK, JobsOK, RequestsOK, Opened
  <1> QED BY <1>1, <1>2, <1>3, StepCases

-----------------------------------------------------------------------------
(* No job opens two cases.                                                 *)

LEMMA JobInvInit == Init => JobInv
  <1> SUFFICES ASSUME Init PROVE JobInv
    OBVIOUS
  <1>1. Opened = {} /\ \A d \in Decisions : job[d].pc = "idle"
    BY DEF Init, Opened, NoCase, IdleJob
  <1> QED BY <1>1, TypeInit DEF JobInv, OpenedHadCase, NoneOpenedYet, OneCasePerJob

LEMMA JobInvStep ==
  ASSUME JobInv, [Next]_vars
  PROVE  JobInv'
  <1>1. TypeOK /\ TypeOK'
    BY TypeStep DEF JobInv
  <1>2. CASE Users
    <2>1. UserKeeps
      BY <1>1, <1>2, UsersKeep
    <2>2. OpenedHadCase'
      BY <1>1, <2>1 DEF JobInv, OpenedHadCase, UserKeeps, TypeOK, CasesOK, CaseType, Opened
    <2>3. OneCasePerJob'
      BY <2>1 DEF JobInv, OneCasePerJob, UserKeeps
    <2>4. NoneOpenedYet'
      BY <2>1 DEF JobInv, NoneOpenedYet, UserKeeps
    <2> QED BY <1>1, <2>2, <2>3, <2>4 DEF JobInv
  <1>3. ASSUME NEW d \in Decisions, Workflow(d), Works(d)
        PROVE  JobInv'
    <2>1. CASE UNCHANGED <<cases, caseOf, foreign>>
      <3>1. Opened' = Opened
        BY <2>1 DEF Opened
      <3>2. job'[d].pc = "write" /\ job'[d].target = None => \A c \in Opened : cases[c].by /= d
        <4>1. ASSUME Ends(d) PROVE job'[d].pc /= "write"
          BY <4>1 DEF Ends, IdleOK
        <4>2. ASSUME Proceeds(d), job'[d].pc = "write", job'[d].target = None
              PROVE  caseOf[d] = None
          <5>1. None \notin BestMatches(d)
            BY DEF BestMatches, Eligible, Open, Cases
          <5> QED BY <4>2, <5>1 DEF Proceeds
        <4> QED BY <1>3, <4>1, <4>2 DEF Works, JobInv, OpenedHadCase
      <3> QED BY <1>1, <1>3, <2>1, <3>1, <3>2
              DEF Works, JobInv, OpenedHadCase, NoneOpenedYet, OneCasePerJob
    <2>2. CASE Ends(d) /\ OpenCase(d)
      <3>1. PICK c \in Cases \ Opened :
              /\ Opened' = Opened \cup {c} /\ \A e \in Cases \ {c} : cases'[e] = cases[e]
              /\ cases'[c].by = d /\ caseOf' = [caseOf EXCEPT ![d] = c]
        BY <1>1, <2>2, Opens
      <3>2. \A e \in Opened : cases[e].by /= d
        BY <2>2 DEF OpenCase, JobInv, NoneOpenedYet
      <3>3. c /= None /\ \A x \in Decisions : caseOf[x] /= None => caseOf'[x] /= None
        BY <1>1, <3>1 DEF TypeOK, CasesOK, Cases
      <3>4. OpenedHadCase'
        BY <1>1, <3>1, <3>3 DEF JobInv, OpenedHadCase, TypeOK, CasesOK, CaseType, Opened
      <3>5. OneCasePerJob'
        BY <3>1, <3>2 DEF JobInv, OneCasePerJob, Opened
      <3>6. NoneOpenedYet'
        BY <1>3, <2>2, <3>1 DEF JobInv, NoneOpenedYet, Works, Ends, IdleOK, Opened
      <3> QED BY <1>1, <3>4, <3>5, <3>6 DEF JobInv
    <2>3. CASE Ends(d) /\ AddToCase(d)
      <3>1. cases' = cases /\ Opened' = Opened /\ job[d].target \in Opened
            /\ caseOf' = [caseOf EXCEPT ![d] = job[d].target]
        BY <1>1, <2>3, Adds
      <3>2. \A x \in Decisions : caseOf[x] /= None => caseOf'[x] /= None
        BY <1>1, <3>1 DEF TypeOK, CasesOK, Opened, Cases
      <3>3. OpenedHadCase' /\ OneCasePerJob'
        BY <1>1, <3>1, <3>2 DEF JobInv, OpenedHadCase, OneCasePerJob, TypeOK, CasesOK, CaseType, Opened
      <3>4. NoneOpenedYet'
        BY <1>3, <2>3, <3>1 DEF JobInv, NoneOpenedYet, Works, Ends, IdleOK
      <3> QED BY <1>1, <3>3, <3>4 DEF JobInv
    <2> QED BY <1>3, <2>1, <2>2, <2>3 DEF Works, Proceeds
  <1>4. CASE UNCHANGED vars
    BY <1>1, <1>4 DEF vars, JobInv, OpenedHadCase, NoneOpenedYet, OneCasePerJob, Opened
  <1> QED BY <1>1, <1>2, <1>3, <1>4, StepCases

-----------------------------------------------------------------------------
(* Jobs that share a lock leave no two cases for one pivot value.          *)

LEMMA LockInvInit == Init => LockInv
  <1> SUFFICES ASSUME Init PROVE LockInv
    OBVIOUS
  <1>1. Opened = {} /\ \A d \in Decisions : job[d].pc = "idle" /\ job[d].lock = None
    BY DEF Init, Opened, NoCase, IdleJob
  <1> QED BY <1>1, TypeInit
          DEF LockInv, HoldsItsLock, Exclusive, OwnIsFound, ChosenIsOnly, OneCasePerLock

LEMMA UsersKeepLocks ==
  ASSUME LockInv, TypeOK', UserKeeps
  PROVE  LockInv'
  <1>1. \A c \in Opened' \ foreign' : cases'[c].lock /= None =>
          c \in Opened \ foreign /\ cases'[c].lock = cases[c].lock
          /\ \A v : HasValue(c, v)' => HasValue(c, v)
    BY DEF UserKeeps, HasValue
  <1>2. HoldsItsLock' /\ Exclusive'
    BY DEF LockInv, UserKeeps, HoldsItsLock, Exclusive, LockKey
  <1>3. OwnIsFound'
    BY <1>1 DEF LockInv, UserKeeps, OwnIsFound
  <1>4. \A c, k : k /= None /\ Own(c, k)' => Own(c, k) /\ \A v : HasValue(c, v)' => HasValue(c, v)
    BY <1>1 DEF Own
  <1>5. ChosenIsOnly'
    BY <1>4 DEF LockInv, UserKeeps, ChosenIsOnly
  <1>6. OneCasePerLock'
    BY <1>1 DEF LockInv, OneCasePerLock
  <1> QED BY <1>2, <1>3, <1>5, <1>6 DEF LockInv

\* A job that finds no case leaves none to find; one that finds a case of its lock finds
\* the only one.
LEMMA Selects ==
  ASSUME LockInv, NEW d \in Decisions, job[d].pc = "select",
         NEW c \in Cases, Own(c, job[d].lock), HasValue(c, job[d].lock.pivot.value),
         job[d].lock /= None
  PROVE  c \in Eligible(d) /\ \A t \in BestMatches(d) : Own(t, job[d].lock) => c = t
  <1> DEFINE k == job[d].lock
  <1>1. k = LockKey(d) /\ job[d].action \in Actions
    BY DEF LockInv, HoldsItsLock, TypeOK, JobsOK
  <1>2. k.pivot.value = ValueOf(d)
        /\ k.inbox = IF job[d].action.anyInbox THEN None ELSE job[d].action.inbox
    BY <1>1 DEF LockKey, ValueOf
  <1>3. job[d].action.inbox /= None
    BY <1>1 DEF Action
  <1>4. c \in Open /\ k.inbox \in {None, cases[c].inbox}
    BY DEF LockInv, OwnIsFound, Own
  <1>5. c \in Eligible(d)
    BY <1>2, <1>3, <1>4 DEF Eligible
  <1>6. ASSUME NEW t \in BestMatches(d), Own(t, k) PROVE c = t
    <2>1. HasValue(t, k.pivot.value)
      BY <1>2 DEF BestMatches, Eligible
    <2> QED BY <1>6, <2>1 DEF LockInv, OneCasePerLock, Own
  <1> QED BY <1>5, <1>6

LEMMA ProceedsKeepsLocks ==
  ASSUME LockInv, TypeOK', NEW d \in Decisions, Works(d), Proceeds(d)
  PROVE  LockInv'
  <1>1. Opened' = Opened /\ Open' = Open /\ cases' = cases /\ foreign' = foreign
        /\ \A c, v : HasValue(c, v)' <=> HasValue(c, v)
    BY DEF Proceeds, Opened, Open, HasValue
  <1>2. OwnIsFound' /\ OneCasePerLock' /\ \A c, k : Own(c, k)' <=> Own(c, k)
    BY <1>1 DEF LockInv, OwnIsFound, OneCasePerLock, Own
  <1>3. \A x \in Decisions \ {d} : job'[x] = job[x]
    BY DEF Works
  <1>4. HoldsItsLock'
    <2>1. /\ job'[d].pc \in {"lock", "select"} => Serialized(d, job'[d].action)
          /\ job'[d].pc = "select" \/ job'[d].lock /= None => job'[d].lock = LockKey(d)'
      BY DEF Proceeds, LockInv, HoldsItsLock, LockKey
    <2>2. \A x \in Decisions \ {d} : LockKey(x)' = LockKey(x)
      BY <1>3 DEF LockKey
    <2> QED BY <1>3, <2>1, <2>2 DEF LockInv, HoldsItsLock
  <1>5. Exclusive'
    <2>1. job'[d].lock /= None => \A x \in Decisions \ {d} : job[x].lock /= job'[d].lock
      BY DEF Proceeds, LockInv, Exclusive, Locked
    <2> QED BY <1>3, <2>1 DEF LockInv, Exclusive
  <1>6. ChosenIsOnly'
    <2>1. ASSUME job'[d].lock /= None, job'[d].pc \in {"validate", "write"},
                 job'[d].target = None \/ Own(job'[d].target, job'[d].lock),
                 NEW c \in Cases, Own(c, job'[d].lock), HasValue(c, job'[d].lock.pivot.value)
          PROVE  c = job'[d].target
      <3>1. CASE /\ job[d].pc = "select" /\ job'[d].lock = job[d].lock
                 /\ Eligible(d) = {}
        BY <2>1, <3>1, Selects
      <3>2. CASE /\ job[d].pc = "select" /\ job'[d].lock = job[d].lock
                 /\ job'[d].target \in BestMatches(d)
        <4>1. job'[d].target /= None
          BY <3>2 DEF BestMatches, Eligible, Open, Cases
        <4> QED BY <2>1, <3>2, <4>1, Selects
      <3>3. CASE job[d].pc = "validate" /\ job'[d].lock = job[d].lock
                 /\ job'[d].target = job[d].target
        BY <2>1, <3>3 DEF LockInv, ChosenIsOnly
      <3> QED BY <2>1, <3>1, <3>2, <3>3 DEF Proceeds
    <2> QED BY <1>1, <1>2, <1>3, <2>1 DEF LockInv, ChosenIsOnly
  <1> QED BY <1>2, <1>4, <1>5, <1>6 DEF LockInv

\* A job that ends gives up its lock, and leaves the other jobs their own.
LEMMA EndsKeepsLocks ==
  ASSUME LockInv, NEW d \in Decisions, Works(d), Ends(d)
  PROVE  /\ HoldsItsLock' /\ Exclusive' /\ job'[d].lock = None
         /\ \A x \in Decisions \ {d} : job'[x] = job[x]
  <1>1. job'[d].lock = None /\ job'[d].pc = "idle" /\ \A x \in Decisions \ {d} : job'[x] = job[x]
    BY DEF Works, Ends, IdleOK
  <1>2. \A x \in Decisions \ {d} : LockKey(x)' = LockKey(x)
    BY <1>1 DEF LockKey
  <1> QED BY <1>1, <1>2 DEF LockInv, HoldsItsLock, Exclusive

LEMMA OpenKeepsLocks ==
  ASSUME LockInv, TypeOK', NEW d \in Decisions, Works(d), Ends(d), OpenCase(d)
  PROVE  LockInv'
  <1>1. PICK c \in Cases \ Opened :
          /\ Opened' = Opened \cup {c} /\ \A e \in Cases \ {c} : cases'[e] = cases[e]
          /\ cases'[c].status = "pending" /\ cases'[c].lock = job[d].lock
          /\ cases'[c].inbox = job[d].action.inbox
          /\ caseOf' = [caseOf EXCEPT ![d] = c] /\ foreign' = foreign
    BY Opens DEF LockInv
  <1>2. /\ HoldsItsLock' /\ Exclusive' /\ job'[d].lock = None
        /\ \A x \in Decisions \ {d} : job'[x] = job[x]
    BY EndsKeepsLocks
  <1>3. \A e \in Cases \ {c} : \A v : HasValue(e, v)' => HasValue(e, v)
    BY <1>1 DEF HasValue, LockInv, TypeOK, CasesOK
  <1>4. \A e \in Cases \ {c} : \A k : Own(e, k)' => Own(e, k)
    BY <1>1 DEF Own
  <1>5. OwnIsFound'
    <2>1. ASSUME cases'[c].lock /= None
          PROVE  c \in Open' /\ cases'[c].lock.inbox \in {None, cases'[c].inbox}
      <3>1. job[d].lock = LockKey(d)
        BY <1>1, <2>1 DEF LockInv, HoldsItsLock
      <3> QED BY <1>1, <3>1 DEF LockKey, Open
    <2>2. \A e \in Opened' \ foreign' : e /= c =>
            e \in Opened \ foreign /\ cases'[e] = cases[e] /\ (e \in Open => e \in Open')
      BY <1>1 DEF Opened, Open
    <2> QED BY <2>1, <2>2 DEF LockInv, OwnIsFound
  <1>6. ChosenIsOnly'
    <2> SUFFICES ASSUME NEW x \in Decisions \ {d}, job[x].lock /= None,
                        job[x].pc \in {"validate", "write"},
                        job[x].target = None \/ Own(job[x].target, job[x].lock)',
                        NEW e \in Cases, Own(e, job[x].lock)',
                        HasValue(e, job[x].lock.pivot.value)'
                 PROVE  e = job[x].target
      BY <1>2 DEF ChosenIsOnly
    <2>1. job[x].lock /= job[d].lock
      BY DEF LockInv, Exclusive
    <2>2. e /= c /\ job[x].target /= c
      BY <1>1, <1>2, <2>1 DEF Own, LockInv, TypeOK, JobsOK, Cases
    <2>3. Own(job[x].target, job[x].lock)' => Own(job[x].target, job[x].lock)
      BY <1>1, <1>2, <2>2 DEF Own, Opened
    <2> QED BY <1>2, <1>3, <1>4, <2>2, <2>3 DEF LockInv, ChosenIsOnly
  <1>7. OneCasePerLock'
    <2>1. ASSUME NEW e \in Opened \ foreign, job[d].lock /= None,
                 cases[e].lock = job[d].lock, HasValue(e, job[d].lock.pivot.value)
          PROVE  FALSE
      <3>1. Own(e, job[d].lock) /\ e \in Cases
        BY <2>1 DEF Own, Opened
      <3>2. e = None
        BY <2>1, <3>1 DEF OpenCase, LockInv, ChosenIsOnly
      <3> QED BY <3>1, <3>2 DEF Cases
    <2> SUFFICES ASSUME NEW e \in Opened' \ foreign', NEW f \in Opened' \ foreign',
                        cases'[e].lock /= None, cases'[e].lock = cases'[f].lock,
                        HasValue(e, cases[e].lock.pivot.value)',
                        HasValue(f, cases[e].lock.pivot.value)'
                 PROVE  e = f
      BY DEF OneCasePerLock
    <2>2. e \in Cases /\ f \in Cases /\ (e /= c => e \in Opened \ foreign) /\ (f /= c => f \in Opened \ foreign)
      BY <1>1 DEF Opened
    <2>3. CASE e /= c /\ f /= c
      <3>1. cases'[e] = cases[e] /\ cases'[f] = cases[f]
        BY <1>1, <2>2, <2>3
      <3> QED BY <1>3, <2>2, <2>3, <3>1 DEF LockInv, OneCasePerLock
    <2>4. CASE e = c /\ f /= c
      BY <1>1, <1>3, <2>1, <2>2, <2>4
    <2>5. CASE e /= c /\ f = c
      BY <1>1, <1>3, <2>1, <2>2, <2>5
    <2> QED BY <2>3, <2>4, <2>5
  <1> QED BY <1>2, <1>5, <1>6, <1>7 DEF LockInv

LEMMA AddKeepsLocks ==
  ASSUME LockInv, TypeOK', NEW d \in Decisions, Works(d), Ends(d), AddToCase(d)
  PROVE  LockInv'
  <1> DEFINE t == job[d].target
  <1>1. /\ t \in Opened /\ cases' = cases /\ Opened' = Opened /\ Open' = Open
        /\ caseOf' = [caseOf EXCEPT ![d] = t] /\ foreign \subseteq foreign'
        /\ cases[t].lock /= job[d].lock => t \in foreign'
        /\ job[d].pc = "write"
    BY Adds DEF LockInv, AddToCase
  <1>2. /\ HoldsItsLock' /\ Exclusive' /\ job'[d].lock = None
        /\ \A x \in Decisions \ {d} : job'[x] = job[x]
    BY EndsKeepsLocks
  <1>3. \A e, v : e /= t /\ HasValue(e, v)' => HasValue(e, v)
    BY <1>1 DEF HasValue, LockInv, TypeOK, CasesOK
  <1>4. \A e, k : Own(e, k)' => Own(e, k)
    BY <1>1 DEF Own
  <1>5. OwnIsFound'
    BY <1>1 DEF LockInv, OwnIsFound
  <1>6. ChosenIsOnly'
    <2> SUFFICES ASSUME NEW x \in Decisions \ {d}, job[x].lock /= None,
                        job[x].pc \in {"validate", "write"},
                        job[x].target = None \/ Own(job[x].target, job[x].lock)',
                        NEW e \in Cases, Own(e, job[x].lock)',
                        HasValue(e, job[x].lock.pivot.value)'
                 PROVE  e = job[x].target
      BY <1>2 DEF ChosenIsOnly
    <2>1. job[x].lock /= job[d].lock
      BY DEF LockInv, Exclusive
    <2>2. e /= t
      BY <1>1, <1>2, <2>1 DEF Own
    <2>3. Own(job[x].target, job[x].lock)' => Own(job[x].target, job[x].lock)
      BY <1>1, <1>2 DEF Own
    <2> QED BY <1>2, <1>3, <1>4, <2>2, <2>3 DEF LockInv, ChosenIsOnly
  <1>7. OneCasePerLock'
    <2>1. ASSUME NEW e \in Opened \ foreign, t \notin foreign', cases[t].lock /= None,
                 cases[e].lock = cases[t].lock, HasValue(e, cases[t].lock.pivot.value)
          PROVE  e = t
      <3>1. Own(e, job[d].lock) /\ e \in Cases /\ Own(t, job[d].lock)
        BY <1>1, <2>1 DEF Own, Opened
      <3> QED BY <1>1, <2>1, <3>1 DEF LockInv, ChosenIsOnly, Own
    <2> SUFFICES ASSUME NEW e \in Opened \ foreign', NEW f \in Opened \ foreign',
                        cases[e].lock /= None, cases[e].lock = cases[f].lock,
                        HasValue(e, cases[e].lock.pivot.value)',
                        HasValue(f, cases[e].lock.pivot.value)'
                 PROVE  e = f
      BY <1>1 DEF OneCasePerLock
    <2>2. CASE e /= t /\ f /= t
      BY <1>1, <1>3, <2>2 DEF LockInv, OneCasePerLock
    <2>3. CASE e = t /\ f /= t
      BY <1>1, <1>3, <2>1, <2>3
    <2>4. CASE e /= t /\ f = t
      BY <1>1, <1>3, <2>1, <2>4
    <2> QED BY <2>2, <2>3, <2>4
  <1> QED BY <1>2, <1>5, <1>6, <1>7 DEF LockInv

LEMMA LockInvStep ==
  ASSUME LockInv, [Next]_vars
  PROVE  LockInv'
  <1>1. TypeOK /\ TypeOK'
    BY TypeStep DEF LockInv
  <1>2. CASE Users
    BY <1>1, <1>2, UsersKeep, UsersKeepLocks
  <1>3. ASSUME NEW d \in Decisions, Works(d)
        PROVE  LockInv'
    <2>1. CASE Ends(d) /\ UNCHANGED <<cases, caseOf, foreign>>
      <3>1. /\ HoldsItsLock' /\ Exclusive' /\ job'[d].lock = None
            /\ \A x \in Decisions \ {d} : job'[x] = job[x]
        BY <1>3, <2>1, EndsKeepsLocks
      <3>2. Opened' = Opened /\ Open' = Open /\ \A c, v : HasValue(c, v)' <=> HasValue(c, v)
        BY <2>1 DEF Opened, Open, HasValue
      <3>3. OwnIsFound' /\ OneCasePerLock' /\ \A c, k : Own(c, k)' <=> Own(c, k)
        BY <2>1, <3>2 DEF LockInv, OwnIsFound, OneCasePerLock, Own
      <3>4. ChosenIsOnly'
        BY <3>1, <3>2, <3>3 DEF LockInv, ChosenIsOnly
      <3> QED BY <1>1, <3>1, <3>3, <3>4 DEF LockInv
    <2> QED BY <1>1, <1>3, <2>1, ProceedsKeepsLocks, OpenKeepsLocks, AddKeepsLocks DEF Works
  <1>4. CASE UNCHANGED vars
    <2>1. /\ UNCHANGED <<cases, caseOf, job, foreign>> /\ Opened' = Opened /\ Open' = Open
          /\ \A c, v : HasValue(c, v)' <=> HasValue(c, v)
          /\ \A c, k : Own(c, k)' <=> Own(c, k)
          /\ \A d \in Decisions : LockKey(d)' = LockKey(d)
      BY <1>4 DEF vars, Opened, Open, HasValue, Own, LockKey
    <2> QED BY <1>1, <2>1
            DEF LockInv, HoldsItsLock, Exclusive, OwnIsFound, ChosenIsOnly, OneCasePerLock
  <1> QED BY <1>1, <1>2, <1>3, <1>4, StepCases

-----------------------------------------------------------------------------

\* No job runs more often than its attempts allow, and what a job or a request has read
\* of a case stays the id of a case, whatever is written meanwhile.
THEOREM TypeCorrect == Spec => []TypeOK
  BY TypeInit, TypeStep, PTL DEF Spec

\* The job of a decision opens one case at most, although it runs again after attempts
\* that committed, and users move the decision and close its case meanwhile: for any
\* number of decisions, attempts, requests and cases.
THEOREM JobsOpenOneCase == Spec => []OneCasePerJob
  <1>1. JobInv => OneCasePerJob
    BY DEF JobInv
  <1> QED BY <1>1, JobInvInit, JobInvStep, PTL DEF Spec

\* Jobs that share the lock of a pivot leave no two cases for its value, of those that
\* nobody else closed, moved or added to, whatever jobs of other locks and users do.
THEOREM LocksKeepOneCase == Spec => []OneCasePerLock
  <1>1. LockInv => OneCasePerLock
    BY DEF LockInv
  <1> QED BY <1>1, LockInvInit, LockInvStep, PTL DEF Spec

=============================================================================
