-------------------------- MODULE ScreeningReviews --------------------------
(***************************************************************************)
(* A decision is screened against lists of entities.  Reviewers decide on  *)
(* each match of the screening, which decides on the screening, or refine  *)
(* it: a new search archives the screening and stores another.  Entities   *)
(* that are whitelisted are left out of searches, as many as a provider    *)
(* is sent.                                                                *)
(*                                                                         *)
(* The screenings of one decision and one configuration.  What permits a   *)
(* request is read before its transaction; a transaction is read committed *)
(* and locks nothing that it only reads.  Payloads, files, comments and    *)
(* the events of cases are left out.                                       *)
(***************************************************************************)
EXTENDS Integers, FiniteSets

CONSTANTS
  Entities,
  MaxExcluded,    \* entities a search excludes: 50, or all of them, as the provider takes
  Requests,       \* requests that may be handled at a time
  MaxRequests,    \* bound: requests that are permitted
  MaxScreenings   \* bound: screenings 1, 2, ... in the order they are stored

Screenings == 1 .. MaxScreenings

VARIABLES
  screening,  \* rows of screenings and screening_matches
  whitelist,  \* entities whitelisted for the counterparty of the decision
  request,    \* local variables of the requests
  requests,   \* counter of the bound
  lasting,    \* history: entities on the whitelist ever since a request began
  regular     \* history: no requests overlapped

vars == <<screening, whitelist, request, requests, lasting, regular>>

NoScreening ==
  [status |-> "none", archived |-> FALSE, partial |-> FALSE,
   match |-> [e \in Entities |-> "none"]]

Idle == [op |-> "idle"]

\* InitialStatusFromMatches: the result of a search.
Found(entities, partial) ==
  [status |-> IF entities = {} THEN "no_hit" ELSE "in_review", archived |-> FALSE,
   partial |-> partial,
   match |-> [e \in Entities |-> IF e \in entities THEN "pending" ELSE "none"]]

\* A search that is known to be cut at its limit has found something.
Results(excluded) ==
  {Found(es, FALSE) : es \in SUBSET (Entities \ excluded)}
    \cup {Found(es, TRUE) : es \in (SUBSET (Entities \ excluded)) \ {{}}}

\* What the provider is told to exclude.
Sent(excluded) ==
  IF Cardinality(excluded) <= MaxExcluded THEN {excluded}
  ELSE {es \in SUBSET excluded : Cardinality(es) = MaxExcluded}

Init ==
  /\ \E first \in Results({}) \cup {[NoScreening EXCEPT !.status = "error"]} :
       screening = [s \in Screenings |-> IF s = 1 THEN first ELSE NoScreening]
  /\ whitelist = {}
  /\ request = [q \in Requests |-> Idle] /\ requests = 0
  /\ lasting = [q \in Requests |-> {}] /\ regular = TRUE

Stored == {s \in Screenings : screening[s].status /= "none"}
Active == {s \in Stored : ~screening[s].archived}
Pending(s) == {e \in Entities : screening[s].match[e] = "pending"}

Begins(q, r) ==
  /\ request[q] = Idle /\ requests < MaxRequests
  /\ request' = [request EXCEPT ![q] = r]
  /\ requests' = requests + 1
  /\ lasting' = [lasting EXCEPT ![q] = whitelist]
  /\ regular' = (regular /\ \A p \in Requests : request[p] = Idle)
  /\ UNCHANGED <<screening, whitelist>>

Answered(q) ==
  /\ request' = [request EXCEPT ![q] = Idle]
  /\ lasting' = [lasting EXCEPT ![q] = {}]

-----------------------------------------------------------------------------
(* UpdateMatchStatus.                                                      *)

\* The match and its screening are read, one after the other, and checked.
BeginReview(q, s, e, verdict, whitelists) ==
  /\ s \in Active /\ screening[s].status = "in_review"
  /\ e \in Pending(s)
  /\ Begins(q, [op |-> "review", step |-> "list", screening |-> s, entity |-> e,
                verdict |-> verdict, whitelists |-> whitelists,
                partial |-> screening[s].partial, others |-> {}])

\* pendingMatchesExcludingThis
ListMatches(q) ==
  LET r == request[q]
  IN  /\ r.op = "review" /\ r.step = "list"
      /\ request' = [request EXCEPT ![q] = [r EXCEPT !.step = "write",
                                              !.others = Pending(r.screening) \ {r.entity}]]
      /\ UNCHANGED <<screening, whitelist, requests, lasting, regular>>

\* The match gets its verdict; after a hit the other pending ones are skipped.
MatchesAfter(r) ==
  [e \in Entities |->
     IF e = r.entity THEN r.verdict
     ELSE IF r.verdict = "confirmed_hit" /\ e \in r.others THEN "skipped"
     ELSE screening[r.screening].match[e]]

IsLast(r) == ~r.partial /\ r.others = {}

StatusAfter(r) ==
  IF r.verdict = "confirmed_hit" THEN "confirmed_hit"
  ELSE IF IsLast(r) THEN "no_hit" ELSE screening[r.screening].status

WriteReview(q) ==
  LET r == request[q]
  IN  /\ r.op = "review" /\ r.step = "write"
      /\ screening' = [screening EXCEPT ![r.screening].match = MatchesAfter(r),
                                        ![r.screening].status = StatusAfter(r)]
      /\ whitelist' = IF r.verdict = "no_hit" /\ r.whitelists
                      THEN whitelist \cup {r.entity} ELSE whitelist
      /\ Answered(q)
      /\ UNCHANGED <<requests, regular>>

\* The transaction factory repeats the transaction of a victim of a deadlock.
RepeatReview(q) ==
  /\ request[q].op = "review" /\ request[q].step = "write"
  /\ request' = [request EXCEPT ![q] = [request[q] EXCEPT !.step = "list", !.others = {}]]
  /\ UNCHANGED <<screening, whitelist, requests, lasting, regular>>

-----------------------------------------------------------------------------
(* Refine.                                                                 *)

\* enforceCanRefineScreening: an archived screening is not refused.
BeginRefine(q, s) ==
  /\ screening[s].status \in {"in_review", "error"}
  /\ Begins(q, [op |-> "refine", step |-> "whitelist", screening |-> s, excluded |-> {}])

\* Mutant: the counterparty is not known to the refinement, nor is its whitelist.
Mutant_NoWhitelist(q) ==
  LET r == request[q]
  IN  /\ r.op = "refine" /\ r.step = "whitelist"
      /\ request' = [request EXCEPT ![q] = [r EXCEPT !.step = "active", !.excluded = {}]]
      /\ UNCHANGED <<screening, whitelist, requests, lasting, regular>>

\* getWhitelistFromScreening
ReadWhitelist(q) ==
  LET r == request[q]
  IN  /\ r.op = "refine" /\ r.step = "whitelist"
      /\ request' = [request EXCEPT ![q] = [r EXCEPT !.step = "active", !.excluded = whitelist]]
      /\ UNCHANGED <<screening, whitelist, requests, lasting, regular>>

\* GetActiveScreeningForDecision, which fails if the screening asked for is archived and
\* several are active.  The search has answered by then.
FindActive(q) ==
  LET r == request[q]
  IN  /\ r.op = "refine" /\ r.step = "active"
      /\ screening[r.screening].archived => Cardinality(Active) = 1
      /\ request' = [request EXCEPT ![q] = [r EXCEPT !.step = "store"]]
      /\ UNCHANGED <<screening, whitelist, requests, lasting, regular>>

\* ArchiveScreening: the one that was asked for.
Archived(s) == [screening EXCEPT ![s].archived = TRUE]

\* InsertScreening, and the end of the transaction.
StoreRefined(q) ==
  LET r == request[q]
      new == Cardinality(Stored) + 1
  IN  /\ r.op = "refine" /\ r.step = "store" /\ new \in Screenings
      /\ \E sent \in Sent(r.excluded) : \E result \in Results(sent) :
           screening' = [Archived(r.screening) EXCEPT ![new] = result]
      /\ Answered(q)
      /\ UNCHANGED <<whitelist, requests, regular>>

RepeatRefinement(q) ==
  /\ request[q].op = "refine" /\ request[q].step = "store"
  /\ request' = [request EXCEPT ![q] = [request[q] EXCEPT !.step = "active"]]
  /\ UNCHANGED <<screening, whitelist, requests, lasting, regular>>

RequestFails(q) ==
  /\ request[q] /= Idle
  /\ Answered(q)
  /\ UNCHANGED <<screening, whitelist, requests, regular>>

-----------------------------------------------------------------------------
(* Requests that write the whitelist themselves, in one statement.         *)

CreateWhitelist(e) ==
  /\ whitelist' = whitelist \cup {e}
  /\ UNCHANGED <<screening, request, requests, lasting, regular>>

DeleteWhitelist(e) ==
  /\ whitelist' = whitelist \ {e}
  /\ lasting' = [q \in Requests |-> lasting[q] \ {e}]
  /\ UNCHANGED <<screening, request, requests, regular>>

-----------------------------------------------------------------------------

Begin(q) ==
  \E s \in Screenings :
    \/ \E e \in Entities, verdict \in {"confirmed_hit", "no_hit"}, whitelists \in BOOLEAN :
         BeginReview(q, s, e, verdict, whitelists)
    \/ BeginRefine(q, s)

Next ==
  \/ \E q \in Requests :
       \/ Begin(q) \/ ListMatches(q) \/ WriteReview(q) \/ RepeatReview(q)
       \/ ReadWhitelist(q) \/ FindActive(q) \/ StoreRefined(q) \/ RepeatRefinement(q)
       \/ RequestFails(q)
  \/ \E e \in Entities : CreateWhitelist(e) \/ DeleteWhitelist(e)

Spec == Init /\ [][Next]_vars

-----------------------------------------------------------------------------
(* Properties.                                                             *)

Reviewed(s, verdict) == \E e \in Entities : screening[s].match[e] = verdict

\* A screening that is decided leaves no match to review, in whatever order reviews of
\* several reviewers and refinements are read and written.
NoneLeftPending == \A s \in Stored :
  screening[s].status \in {"confirmed_hit", "no_hit"} => Pending(s) = {}

\* Of requests that do not overlap, the status of a screening is what its reviews say: a
\* hit if there is one, none once every result it has is reviewed as such, unless the
\* provider said that there were more; and what was archived had not been decided.
StatusFollowsReviews == regular => \A s \in Stored :
  /\ screening[s].status = "confirmed_hit" <=> Reviewed(s, "confirmed_hit")
  /\ screening[s].status = "in_review" =>
       Reviewed(s, "pending") \/ screening[s].partial
  /\ screening[s].status = "no_hit" =>
       ~screening[s].partial /\ ~Reviewed(s, "pending") /\ ~Reviewed(s, "skipped")
  /\ screening[s].archived => screening[s].status \in {"in_review", "error"}

\* However requests overlap, a refinement does not ask about an entity that was on the
\* whitelist when it began and was not taken off it since; unless it found more entities
\* on the whitelist than the provider is told to exclude.
NotAsked == \A q \in Requests :
  (/\ request[q].op = "refine" /\ request'[q] = Idle
   /\ Cardinality(request[q].excluded) <= MaxExcluded)
    => \A s \in Stored' \ Stored, e \in lasting[q] : screening'[s].match[e] /= "pending"

WhitelistedNotAsked == [][NotAsked]_vars

=============================================================================
