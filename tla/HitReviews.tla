----------------------------- MODULE HitReviews -----------------------------
(***************************************************************************)
(* One continuous screening that found something and has a case.  It was   *)
(* triggered by an object, for which one match at most is a hit, or by an  *)
(* update of the dataset, for which several objects may be.  Users review  *)
(* its matches, dismiss it, or load more matches if it has only a part.    *)
(*                                                                         *)
(* A request reads the screening with its matches in one statement, and    *)
(* writes in the same transaction, read committed, by id.  The whitelist   *)
(* of refused matches, the tags of confirmed ones, and the events of the   *)
(* case are left out.                                                      *)
(***************************************************************************)
EXTENDS Integers, FiniteSets

CONSTANTS
  Entities,
  NoEntity,
  Requests,     \* requests that may be handled at a time
  MaxRequests,  \* bound: requests that are permitted
  MaxMatches    \* bound: matches 1, 2, ... in the order they are stored

Matches == 1 .. MaxMatches

VARIABLES
  screening,  \* row of continuous_screenings: trigger, status, is_partial
  match,      \* rows of continuous_screening_matches
  request,    \* local variables of the requests
  requests,   \* counter of the bound
  late,       \* history: matches loaded while other requests were under way, or too late
  dismissed,  \* history: the screening was dismissed
  regular     \* history: no requests overlapped, and no load ended the search with
              \* nothing left to review

vars == <<screening, match, request, requests, late, dismissed, regular>>

Idle == [op |-> "idle"]

NoMatch == [entity |-> NoEntity, status |-> "none"]

\* The entities of new matches, each once.
Inserted(es, ms) == {new \in [ms -> es] : \A e \in es : \E m \in ms : new[m] = e}

\* The matches with new ones for some entities.
Extended(old, new) == [m \in Matches |-> IF m \in DOMAIN new
                                          THEN [entity |-> new[m], status |-> "pending"]
                                          ELSE old[m]]

Init ==
  /\ \E trigger \in {"object", "dataset"}, partial \in BOOLEAN :
       screening = [trigger |-> trigger, status |-> "in_review", partial |-> partial]
  /\ \E es \in (SUBSET Entities) \ {{}} :
       LET ms == 1 .. Cardinality(es)
       IN  /\ ms \subseteq Matches
           /\ \E new \in Inserted(es, ms) : match = Extended([m \in Matches |-> NoMatch], new)
  /\ request = [q \in Requests |-> Idle] /\ requests = 0
  /\ late = {} /\ dismissed = FALSE /\ regular = TRUE

Stored == {m \in Matches : match[m] /= NoMatch}
With(status) == {m \in Stored : match[m].status = status}
Known == {match[m].entity : m \in Stored}

\* All requests check that the screening is in review; what they read of it is in request.
Begins(q, r) ==
  /\ request[q] = Idle /\ requests < MaxRequests
  /\ screening.status = "in_review"
  /\ request' = [request EXCEPT ![q] = r]
  /\ requests' = requests + 1
  /\ regular' = (regular /\ \A p \in Requests : request[p] = Idle)
  /\ UNCHANGED <<screening, match, late, dismissed>>

Answered(q) == request' = [request EXCEPT ![q] = Idle]

-----------------------------------------------------------------------------
(* UpdateContinuousScreeningMatchStatus.                                   *)

\* The status of the match itself is not checked.
BeginReview(q, m, verdict) ==
  /\ m \in Stored
  /\ Begins(q, [op |-> "review", match |-> m, verdict |-> verdict,
                partial |-> screening.partial, others |-> With("pending") \ {m},
                hit |-> With("confirmed_hit") /= {}])

ForObject == screening.trigger = "object"

\* handleConfirmedHit and skipPendingMatches.
MatchesAfter(r) ==
  [m \in Matches |->
     IF m = r.match THEN [match[m] EXCEPT !.status = r.verdict]
     ELSE IF r.verdict = "confirmed_hit" /\ ForObject /\ m \in r.others
     THEN [match[m] EXCEPT !.status = "skipped"]
     ELSE match[m]]

\* Mutant: the last match of a part of the results decides on the screening.
Mutant_LastOfPart(r) == r.others = {}

\* isLastPendingMatch
IsLast(r) == ~r.partial /\ r.others = {}

Decides(r) == IsLast(r) \/ (ForObject /\ r.verdict = "confirmed_hit")

\* handleNoHitLastMatch: hits of a dataset update remain hits.
IsHit(r) == r.verdict = "confirmed_hit" \/ (~ForObject /\ r.hit)

WriteReview(q) ==
  LET r == request[q]
  IN  /\ r.op = "review"
      /\ match' = MatchesAfter(r)
      /\ screening' = [screening EXCEPT !.status =
           IF ~Decides(r) THEN screening.status
           ELSE IF IsHit(r) THEN "confirmed_hit" ELSE "no_hit"]
      /\ Answered(q)
      /\ UNCHANGED <<requests, late, dismissed, regular>>

-----------------------------------------------------------------------------
(* DismissContinuousScreening.                                             *)

BeginDismiss(q) == Begins(q, [op |-> "dismiss", pending |-> With("pending")])

\* Mutant: the matches are left as they are.
Mutant_KeepMatches(ms) == match

Skipped(ms) == [m \in Matches |-> IF m \in ms THEN [match[m] EXCEPT !.status = "skipped"]
                                  ELSE match[m]]

WriteDismiss(q) ==
  /\ request[q].op = "dismiss"
  /\ match' = Skipped(request[q].pending)
  /\ screening' = [screening EXCEPT !.status = "no_hit"]
  /\ dismissed' = TRUE
  /\ Answered(q)
  /\ UNCHANGED <<requests, late, regular>>

-----------------------------------------------------------------------------
(* LoadMoreContinuousScreeningMatches.                                     *)

BeginLoad(q) == screening.partial /\ Begins(q, [op |-> "load", known |-> Known])

NextMatches(n) == (Cardinality(Stored) + 1) .. (Cardinality(Stored) + n)

\* The search has answered: entities that were not known when the request began are added,
\* and there may be more.
WriteLoad(q) ==
  LET Alone == \A p \in Requests \ {q} : request[p] = Idle
  IN  /\ request[q].op = "load"
      /\ \E es \in SUBSET (Entities \ request[q].known), partial \in BOOLEAN :
           LET ms == NextMatches(Cardinality(es))
           IN  /\ ms \subseteq Matches
               /\ \E new \in Inserted(es, ms) : match' = Extended(match, new)
               /\ screening' = [screening EXCEPT !.partial = partial]
               /\ late' = IF Alone /\ screening.status = "in_review" THEN late ELSE late \cup ms
               /\ regular' = (regular /\ (partial \/ es /= {} \/ With("pending") /= {}))
      /\ Answered(q)
      /\ UNCHANGED <<requests, dismissed>>

\* Errors; the transaction factory repeats the victim of a deadlock as if it began anew.
RequestFails(q) ==
  /\ request[q] /= Idle
  /\ Answered(q)
  /\ UNCHANGED <<screening, match, requests, late, dismissed, regular>>

-----------------------------------------------------------------------------

Next ==
  \E q \in Requests :
    \/ \E m \in Matches, verdict \in {"confirmed_hit", "no_hit"} : BeginReview(q, m, verdict)
    \/ WriteReview(q)
    \/ BeginDismiss(q) \/ WriteDismiss(q)
    \/ BeginLoad(q) \/ WriteLoad(q)
    \/ RequestFails(q)

Spec == Init /\ [][Next]_vars

-----------------------------------------------------------------------------
(* Properties.                                                             *)

\* A screening that is decided or dismissed leaves no match to review, in whatever order
\* reviews and dismissals are read and written, other than matches that were being loaded.
NoneLeftPending == screening.status /= "in_review" => With("pending") \subseteq late

\* Of requests that do not overlap, the status of a screening is what its reviews say, by
\* the rule of its trigger; and it is decided as soon as everything is reviewed.
StatusFollowsReviews == regular /\ ~dismissed =>
  /\ screening.status = "in_review" => screening.partial \/ With("pending") /= {}
  /\ screening.status = "confirmed_hit" => With("confirmed_hit") /= {}
  /\ screening.status = "no_hit" =>
       ~screening.partial /\ With("no_hit") = Stored
  /\ ForObject /\ screening.status = "in_review" => With("confirmed_hit") = {}
  /\ ~ForObject => With("skipped") = {}

=============================================================================
