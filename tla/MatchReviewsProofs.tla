------------------------- MODULE MatchReviewsProofs -------------------------
(***************************************************************************)
(* Proofs about MatchReviews, for any number of entities, matches,         *)
(* screenings and overlapping requests: what is decided leaves nothing to  *)
(* review; a refinement does not ask about what was on the whitelist all   *)
(* along; and of requests that do not overlap, the status of a screening   *)
(* is what its reviews say.                                                *)
(***************************************************************************)
EXTENDS MatchReviews, FiniteSetTheorems, TLAPS

-----------------------------------------------------------------------------
(* The screening of a decision.                                            *)

ScreeningType ==
  [status : {"none", "error", "in_review", "confirmed_hit", "no_hit"},
   archived : BOOLEAN, partial : BOOLEAN,
   match : [Entities -> {"none", "pending", "confirmed_hit", "no_hit", "skipped"}]]

\* What a request keeps is of the right type.
Reviews ==
  [op : {"review"}, step : {"list", "write"}, screening : Dec!Stored, entity : Entities,
   verdict : {"confirmed_hit", "no_hit"}, whitelists : BOOLEAN, partial : BOOLEAN,
   others : SUBSET Entities]

Refinements ==
  [op : {"refine"}, step : {"whitelist", "active", "store"}, screening : Dec!Stored,
   excluded : SUBSET Entities]

ReviewTyped(q) == request[q] \in {Dec!Idle} \cup Reviews \cup Refinements

\* Screenings are numbered in the order they are stored.
RowsTyped ==
  /\ screening \in [Dec!Screenings -> ScreeningType]
  /\ Dec!Stored = 1 .. Cardinality(Dec!Stored) /\ Cardinality(Dec!Stored) \in Nat
  /\ request = [q \in Requests |-> request[q]]
  /\ whitelist \subseteq Entities /\ lasting \in [Requests -> SUBSET Entities]

ScreeningTyped == RowsTyped /\ \A q \in Requests : ReviewTyped(q)

\* A review that is about to write has listed all that is still pending.
ListedAll(q) ==
  LET r == request[q]
  IN  r.op = "review" /\ r.step = "write" =>
        Dec!Pending(r.screening) \subseteq r.others \cup {r.entity}

ListedInv == (\A q \in Requests : ListedAll(q)) /\ Dec!NoneLeftPending

\* Unless requests overlap there is one request, and what it has read still holds.
OneRequest == \A p, q \in Requests :
  request[p] /= Dec!Idle /\ request[q] /= Dec!Idle => p = q

StillHolds(q) ==
  LET r == request[q]
  IN  /\ r.op = "review" =>
           /\ r.screening \in Dec!Active /\ screening[r.screening].status = "in_review"
           /\ r.entity \in Dec!Pending(r.screening)
           /\ r.partial = screening[r.screening].partial
           /\ r.step = "write" => r.others = Dec!Pending(r.screening) \ {r.entity}
      /\ r.op = "refine" => screening[r.screening].status \in {"in_review", "error"}

RequestInv == regular => OneRequest /\ \A q \in Requests : StillHolds(q)

\* What the reviews of a screening say; a match is only skipped after a hit.
StatusOK(s) ==
  /\ screening[s].status = "confirmed_hit" <=> Dec!Reviewed(s, "confirmed_hit")
  /\ screening[s].status = "in_review" => Dec!Reviewed(s, "pending") \/ screening[s].partial
  /\ screening[s].status = "no_hit" => ~screening[s].partial /\ ~Dec!Reviewed(s, "pending")
  /\ screening[s].status /= "confirmed_hit" => ~Dec!Reviewed(s, "skipped")
  /\ screening[s].archived => screening[s].status \in {"in_review", "error"}

StatusInv == regular => \A s \in Dec!Stored : StatusOK(s)

\* A refinement excludes what is on the whitelist from its begin to its search.
Excludes(q) ==
  /\ lasting[q] \subseteq whitelist
  /\ request[q].op = "refine" /\ request[q].step \in {"active", "store"} =>
       lasting[q] \subseteq request[q].excluded

LastingInv == \A q \in Requests : Excludes(q)

DecisionInv == ScreeningTyped /\ ListedInv /\ RequestInv /\ StatusInv /\ LastingInv

-----------------------------------------------------------------------------
(* The steps of its requests.                                              *)

\* Each instance has definitions of Cardinality of its own.
LEMMA SameCardinality ==
  \A S : Dec!Cardinality(S) = Cardinality(S) /\ Obj!Cardinality(S) = Cardinality(S)
  BY DEF Dec!Cardinality, Obj!Cardinality, Cardinality

LEMMA ResultsTyped ==
  ASSUME NEW excluded, NEW result \in Dec!Results(excluded)
  PROVE  /\ result \in ScreeningType /\ result.status \in {"in_review", "no_hit"}
         /\ ~result.archived
         /\ \A e \in Entities : result.match[e] \in {"none", "pending"}
         /\ \A e \in Entities : result.match[e] = "pending" => e \notin excluded
         /\ result.status = "no_hit" <=> \A e \in Entities : result.match[e] = "none"
         /\ result.status = "no_hit" => ~result.partial
  <1>1. PICK es \in SUBSET (Entities \ excluded), partial \in BOOLEAN :
          result = Dec!Found(es, partial) /\ (partial => es /= {})
    <2>1. CASE result \in {Dec!Found(es, FALSE) : es \in SUBSET (Entities \ excluded)}
      BY <2>1
    <2>2. CASE result \in {Dec!Found(es, TRUE) : es \in (SUBSET (Entities \ excluded)) \ {{}}}
      <3>1. PICK es \in (SUBSET (Entities \ excluded)) \ {{}} : result = Dec!Found(es, TRUE)
        BY <2>2
      <3> QED BY <3>1
    <2> QED BY <2>1, <2>2 DEF Dec!Results
  <1>2. /\ result.status = IF es = {} THEN "no_hit" ELSE "in_review"
        /\ result.archived = FALSE /\ result.partial = partial
        /\ result.match = [e \in Entities |-> IF e \in es THEN "pending" ELSE "none"]
    BY <1>1 DEF Dec!Found
  <1>3. result \in ScreeningType
    BY <1>1 DEF Dec!Found, ScreeningType
  <1> QED BY <1>1, <1>2, <1>3

\* The operation that a request performs tells what it keeps.
LEMMA RequestRecords ==
  ASSUME NEW q, ReviewTyped(q)
  PROVE  /\ request[q].op = "review" => request[q] \in Reviews /\ request[q] /= Dec!Idle
         /\ request[q].op = "refine" => request[q] \in Refinements /\ request[q] /= Dec!Idle
  BY DEF ReviewTyped, Reviews, Refinements, Dec!Idle

\* A write of a review changes the matches and the status of one screening.
LEMMA ReviewWrites ==
  ASSUME ScreeningTyped, NEW q \in Requests, Dec!WriteReview(q)
  PROVE  LET r == request[q]
         IN  /\ r.op = "review" /\ r.step = "write"
             /\ screening' \in [Dec!Screenings -> ScreeningType]
             /\ r.screening \in Dec!Stored /\ r.entity \in Entities
             /\ r.verdict \in {"confirmed_hit", "no_hit"}
             /\ \A s \in Dec!Screenings : s /= r.screening => screening'[s] = screening[s]
             /\ screening'[r.screening].archived = screening[r.screening].archived
             /\ screening'[r.screening].partial = screening[r.screening].partial
             /\ screening'[r.screening].status = Dec!StatusAfter(r)
             /\ screening'[r.screening].match = Dec!MatchesAfter(r)
             /\ Dec!Stored' = Dec!Stored /\ Dec!Active' = Dec!Active
  <1> DEFINE r == request[q]
             s == r.screening
  <1>1. /\ r.op = "review" /\ r.step = "write"
        /\ screening' = [screening EXCEPT ![s].match = Dec!MatchesAfter(r),
                                          ![s].status = Dec!StatusAfter(r)]
    BY DEF Dec!WriteReview
  <1>2. /\ s \in Dec!Screenings /\ s \in Dec!Stored /\ r.entity \in Entities
        /\ r.verdict \in {"confirmed_hit", "no_hit"}
        /\ screening \in [Dec!Screenings -> ScreeningType] /\ screening[s].status /= "none"
    <2>1. r \in Reviews
      BY <1>1, RequestRecords DEF ScreeningTyped
    <2> QED BY <2>1 DEF ScreeningTyped, RowsTyped, Reviews, Dec!Stored
  <1>3. /\ Dec!MatchesAfter(r) \in
             [Entities -> {"none", "pending", "confirmed_hit", "no_hit", "skipped"}]
        /\ Dec!StatusAfter(r) \in {"error", "in_review", "confirmed_hit", "no_hit"}
    BY <1>2 DEF Dec!MatchesAfter, Dec!StatusAfter, ScreeningType
  <1> HIDE DEF r, s
  <1>4. /\ \A t \in Dec!Screenings : t /= s => screening'[t] = screening[t]
        /\ screening'[s] = [screening[s] EXCEPT !.match = Dec!MatchesAfter(r),
                                               !.status = Dec!StatusAfter(r)]
        /\ screening' = [t \in Dec!Screenings |-> screening'[t]]
    BY <1>1, <1>2
  <1>5. /\ screening'[s] \in ScreeningType
        /\ screening'[s].archived = screening[s].archived
        /\ screening'[s].partial = screening[s].partial
        /\ screening'[s].status = Dec!StatusAfter(r)
        /\ screening'[s].match = Dec!MatchesAfter(r)
    <2>1. screening[s] \in ScreeningType
      BY <1>2
    <2> QED BY <1>3, <1>4, <2>1 DEF ScreeningType
  <1>6. screening' \in [Dec!Screenings -> ScreeningType]
    BY <1>2, <1>4, <1>5
  <1>7. Dec!Screenings' = Dec!Screenings
    BY DEF Dec!Screenings
  <1>8. Dec!Stored' = Dec!Stored
    BY <1>2, <1>3, <1>4, <1>5, <1>7 DEF Dec!Stored
  <1>9. Dec!Active' = Dec!Active
    BY <1>2, <1>4, <1>5, <1>8 DEF Dec!Active, Dec!Stored
  <1> QED BY <1>1, <1>2, <1>4, <1>5, <1>6, <1>8, <1>9 DEF r, s

\* A refinement archives one screening and stores another, with results of the search that
\* excludes what the provider was sent.
LEMMA RefinementStores ==
  ASSUME ScreeningTyped, NEW q \in Requests, Dec!StoreRefined(q)
  PROVE  LET r == request[q]
             new == Cardinality(Dec!Stored) + 1
         IN  /\ r.op = "refine" /\ r.step = "store" /\ r.screening \in Dec!Stored
             /\ new \in Dec!Screenings \ Dec!Stored
             /\ screening' \in [Dec!Screenings -> ScreeningType]
             /\ \E sent \in Dec!Sent(r.excluded) : screening'[new] \in Dec!Results(sent)
             /\ screening'[r.screening] = [screening[r.screening] EXCEPT !.archived = TRUE]
             /\ \A s \in Dec!Screenings \ {new, r.screening} : screening'[s] = screening[s]
             /\ Dec!Stored' = Dec!Stored \cup {new} /\ Dec!Stored' = 1 .. new
             /\ Cardinality(Dec!Stored') = new
             /\ Dec!Active' = (Dec!Active \ {r.screening}) \cup {new}
  <1> DEFINE r == request[q]
             s == r.screening
             new == Cardinality(Dec!Stored) + 1
  <1>0. PICK sent \in Dec!Sent(r.excluded) :
          /\ r.op = "refine" /\ r.step = "store" /\ new \in Dec!Screenings
          /\ \E result \in Dec!Results(sent) :
               screening' = [Dec!Archived(s) EXCEPT ![new] = result]
    BY SameCardinality DEF Dec!StoreRefined
  <1>1. PICK result \in Dec!Results(sent) :
          /\ r.op = "refine" /\ r.step = "store" /\ new \in Dec!Screenings
          /\ screening' = [[screening EXCEPT ![s].archived = TRUE] EXCEPT ![new] = result]
    <2>1. /\ r.op = "refine" /\ r.step = "store" /\ new \in Dec!Screenings
          /\ \E result \in Dec!Results(sent) :
               screening' = [Dec!Archived(s) EXCEPT ![new] = result]
      BY <1>0
    <2>2. Dec!Archived(s) = [screening EXCEPT ![s].archived = TRUE]
      BY DEF Dec!Archived
    <2> QED BY <2>1, <2>2
  <1>2. /\ s \in Dec!Stored /\ s \in Dec!Screenings
        /\ screening \in [Dec!Screenings -> ScreeningType]
        /\ Dec!Stored = 1 .. Cardinality(Dec!Stored) /\ Cardinality(Dec!Stored) \in Nat
    <2>1. r \in Refinements
      BY <1>1, RequestRecords DEF ScreeningTyped
    <2> QED BY <2>1 DEF ScreeningTyped, RowsTyped, Refinements, Dec!Stored
  <1>3. new \notin Dec!Stored /\ 1 .. new = Dec!Stored \cup {new} /\ new \in Nat /\ s /= new
    <2> HIDE DEF s
    <2> QED BY <1>2
  <1>4. /\ result \in ScreeningType /\ result.status /= "none" /\ ~result.archived
    BY ResultsTyped
  <1> HIDE DEF r, s, new
  <1>5. /\ screening'[new] = result
        /\ screening'[s] = [screening[s] EXCEPT !.archived = TRUE]
        /\ \A t \in Dec!Screenings \ {new, s} : screening'[t] = screening[t]
        /\ screening' = [t \in Dec!Screenings |-> screening'[t]]
    BY <1>1, <1>2, <1>3
  <1>6. /\ screening'[s] \in ScreeningType /\ screening'[s].archived
        /\ screening'[s].status = screening[s].status
    <2>1. screening[s] \in ScreeningType
      BY <1>2
    <2> QED BY <1>5, <2>1 DEF ScreeningType
  <1>7. screening' \in [Dec!Screenings -> ScreeningType]
    BY <1>2, <1>4, <1>5, <1>6
  <1>8. Dec!Screenings' = Dec!Screenings
    BY DEF Dec!Screenings
  <1>9. Dec!Stored' = Dec!Stored \cup {new}
    BY <1>1, <1>2, <1>4, <1>5, <1>6, <1>8 DEF Dec!Stored
  <1>10. Cardinality(Dec!Stored') = new
    <2>1. 1 \in Int /\ new \in Int
      BY <1>3
    <2>2. Cardinality(1 .. new) = new
      BY <1>3, <2>1, FS_Interval
    <2> QED BY <1>3, <1>9, <2>2
  <1>11. Dec!Active' = (Dec!Active \ {s}) \cup {new}
    BY <1>1, <1>2, <1>3, <1>4, <1>5, <1>6, <1>9 DEF Dec!Active, Dec!Stored
  <1> QED BY <1>1, <1>2, <1>3, <1>5, <1>7, <1>9, <1>10, <1>11 DEF r, s, new

LEMMA DecisionInit == Dec!Init => DecisionInv
  <1> SUFFICES ASSUME Dec!Init PROVE DecisionInv
    OBVIOUS
  <1>1. PICK first \in Dec!Results({}) \cup {[Dec!NoScreening EXCEPT !.status = "error"]} :
          screening = [s \in Dec!Screenings |-> IF s = 1 THEN first ELSE Dec!NoScreening]
    BY DEF Dec!Init
  <1>2. /\ first \in ScreeningType /\ first.status \in {"error", "in_review", "no_hit"}
        /\ ~first.archived /\ \A e \in Entities : first.match[e] \in {"none", "pending"}
        /\ first.status = "no_hit" => /\ \A e \in Entities : first.match[e] = "none"
                                      /\ ~first.partial
        /\ first.status = "in_review" => \E e \in Entities : first.match[e] = "pending"
    <2>1. CASE first \in Dec!Results({})
      BY <2>1, ResultsTyped
    <2>2. CASE first = [Dec!NoScreening EXCEPT !.status = "error"]
      BY <2>2 DEF Dec!NoScreening, ScreeningType
    <2> QED BY <1>1, <2>1, <2>2
  <1>3. /\ 1 \in Dec!Screenings /\ screening \in [Dec!Screenings -> ScreeningType]
        /\ screening[1] = first
        /\ \A s \in Dec!Screenings : s /= 1 => screening[s].status = "none"
    <2>1. 1 \in Dec!Screenings /\ Dec!NoScreening.status = "none"
      BY ReviewAssumption DEF Dec!Screenings, Dec!NoScreening
    <2>2. Dec!NoScreening \in ScreeningType
      BY DEF Dec!NoScreening, ScreeningType
    <2> QED BY <1>1, <1>2, <2>1, <2>2
  <1>4. Dec!Stored = {1} /\ Dec!Active = {1}
    BY <1>2, <1>3 DEF Dec!Stored, Dec!Active
  <1>5. Cardinality(Dec!Stored) = 1 /\ Dec!Stored = 1 .. Cardinality(Dec!Stored)
    BY <1>4, FS_Singleton
  <1>6. /\ request = [q \in Requests |-> Dec!Idle] /\ whitelist = {}
        /\ lasting = [q \in Requests |-> {}]
        /\ \A q \in Requests : request[q].op = "idle" /\ request[q] = Dec!Idle
    BY DEF Dec!Init, Dec!Idle
  <1>7. ScreeningTyped
    BY <1>3, <1>5, <1>6 DEF ScreeningTyped, RowsTyped, ReviewTyped
  <1>8. ListedInv
    BY <1>2, <1>3, <1>4, <1>6 DEF ListedInv, ListedAll, Dec!NoneLeftPending, Dec!Pending
  <1>9. RequestInv
    BY <1>6 DEF RequestInv, OneRequest, StillHolds
  <1>10. StatusInv
    BY <1>2, <1>3, <1>4 DEF StatusInv, StatusOK, Dec!Reviewed
  <1>11. LastingInv
    BY <1>6 DEF LastingInv, Excludes
  <1> QED BY <1>7, <1>8, <1>9, <1>10, <1>11 DEF DecisionInv

\* Steps that only change what one request keeps.
LEMMA RequestMoves ==
  ASSUME DecisionInv, NEW q \in Requests, NEW r,
         request' = [request EXCEPT ![q] = r],
         screening' = screening, whitelist' = whitelist,
         lasting' \in [Requests -> SUBSET Entities],
         \A p \in Requests \ {q} : lasting'[p] = lasting[p],
         regular' => regular,
         ReviewTyped(q)', ListedAll(q)', Excludes(q)', regular' => StillHolds(q)',
         regular' => \/ r = Dec!Idle \/ request[q] /= Dec!Idle
                     \/ \A p \in Requests : request[p] = Dec!Idle
  PROVE  DecisionInv'
  <1>1. /\ Dec!Stored' = Dec!Stored /\ Dec!Active' = Dec!Active
        /\ \A s : Dec!Pending(s)' = Dec!Pending(s)
        /\ \A s, v : Dec!Reviewed(s, v)' = Dec!Reviewed(s, v)
        /\ Dec!Screenings' = Dec!Screenings
    BY DEF Dec!Stored, Dec!Active, Dec!Pending, Dec!Screenings, Dec!Reviewed
  <1>2. /\ request'[q] = r /\ \A p \in Requests \ {q} : request'[p] = request[p]
        /\ request' = [p \in Requests |-> request'[p]]
    BY DEF DecisionInv, ScreeningTyped, RowsTyped
  <1>3. ScreeningTyped'
    <2>1. Reviews' = Reviews /\ Refinements' = Refinements
      BY <1>1 DEF Reviews, Refinements
    <2>2. ASSUME NEW p \in Requests \ {q} PROVE ReviewTyped(p)'
      BY <1>2, <2>1 DEF DecisionInv, ScreeningTyped, ReviewTyped
    <2>3. RowsTyped'
      BY <1>1, <1>2 DEF DecisionInv, ScreeningTyped, RowsTyped
    <2> QED BY <2>2, <2>3 DEF ScreeningTyped
  <1>4. ListedInv'
    BY <1>1, <1>2 DEF DecisionInv, ListedInv, ListedAll, Dec!NoneLeftPending
  <1>5. RequestInv'
    <2>1. ASSUME regular' PROVE OneRequest'
      BY <1>2, <2>1 DEF DecisionInv, RequestInv, OneRequest, Dec!Idle
    <2>2. ASSUME regular', NEW p \in Requests \ {q} PROVE StillHolds(p)'
      BY <1>1, <1>2, <2>2 DEF DecisionInv, RequestInv, StillHolds
    <2> QED BY <2>1, <2>2 DEF RequestInv
  <1>6. StatusInv'
    BY <1>1 DEF DecisionInv, StatusInv, StatusOK
  <1>7. LastingInv'
    BY <1>2 DEF DecisionInv, LastingInv, Excludes
  <1> QED BY <1>3, <1>4, <1>5, <1>6, <1>7 DEF DecisionInv

LEMMA BeginInv ==
  ASSUME DecisionInv, NEW q \in Requests, Dec!Begin(q)
  PROVE  DecisionInv'
  <1>1. ASSUME NEW s \in Dec!Screenings, NEW e \in Entities,
               NEW verdict \in {"confirmed_hit", "no_hit"}, NEW w \in BOOLEAN,
               Dec!BeginReview(q, s, e, verdict, w)
        PROVE  DecisionInv'
    <2> DEFINE r == [op |-> "review", step |-> "list", screening |-> s, entity |-> e,
                     verdict |-> verdict, whitelists |-> w,
                     partial |-> screening[s].partial, others |-> {}]
    <2>1. /\ s \in Dec!Active /\ screening[s].status = "in_review" /\ e \in Dec!Pending(s)
          /\ request' = [request EXCEPT ![q] = r]
          /\ screening' = screening /\ whitelist' = whitelist
          /\ lasting' = [lasting EXCEPT ![q] = whitelist]
          /\ regular' = (regular /\ \A p \in Requests : request[p] = Dec!Idle)
      BY <1>1 DEF Dec!BeginReview, Dec!Begins
    <2>2. /\ r.op = "review" /\ r.step = "list" /\ r.screening = s /\ r.entity = e
          /\ r.verdict = verdict /\ r.partial = screening[s].partial
      OBVIOUS
    <2> HIDE DEF r
    <2>3. request'[q] = r
      BY <2>1 DEF DecisionInv, ScreeningTyped, RowsTyped
    <2>4. /\ s \in Dec!Stored' /\ s \in Dec!Active' /\ e \in Dec!Pending(s)'
      BY <2>1 DEF Dec!Stored, Dec!Active, Dec!Pending, Dec!Screenings
    <2>5. ReviewTyped(q)'
      <3>1. screening[s].partial \in BOOLEAN
        BY DEF DecisionInv, ScreeningTyped, RowsTyped, ScreeningType
      <3>2. r \in Reviews'
        BY <2>4, <3>1 DEF r, Reviews
      <3> QED BY <2>3, <3>2 DEF ReviewTyped
    <2>6. ListedAll(q)' /\ StillHolds(q)'
      BY <2>1, <2>2, <2>3, <2>4 DEF ListedAll, StillHolds
    <2>7. /\ lasting' \in [Requests -> SUBSET Entities] /\ lasting'[q] = whitelist
          /\ \A p \in Requests \ {q} : lasting'[p] = lasting[p]
      BY <2>1 DEF DecisionInv, ScreeningTyped, RowsTyped
    <2>8. Excludes(q)'
      BY <2>1, <2>2, <2>3, <2>7 DEF Excludes
    <2> QED BY <2>1, <2>5, <2>6, <2>7, <2>8, RequestMoves
  <1>2. ASSUME NEW s \in Dec!Screenings, Dec!BeginRefine(q, s)
        PROVE  DecisionInv'
    <2> DEFINE r == [op |-> "refine", step |-> "whitelist", screening |-> s, excluded |-> {}]
    <2>1. /\ screening[s].status \in {"in_review", "error"}
          /\ request' = [request EXCEPT ![q] = r]
          /\ screening' = screening /\ whitelist' = whitelist
          /\ lasting' = [lasting EXCEPT ![q] = whitelist]
          /\ regular' = (regular /\ \A p \in Requests : request[p] = Dec!Idle)
      BY <1>2 DEF Dec!BeginRefine, Dec!Begins
    <2>2. /\ r.op = "refine" /\ r.step = "whitelist" /\ r.screening = s
      OBVIOUS
    <2> HIDE DEF r
    <2>3. request'[q] = r
      BY <2>1 DEF DecisionInv, ScreeningTyped, RowsTyped
    <2>4. s \in Dec!Stored'
      BY <2>1 DEF Dec!Stored, Dec!Screenings
    <2>5. ReviewTyped(q)'
      <3>1. r \in Refinements'
        BY <2>4 DEF r, Refinements
      <3> QED BY <2>3, <3>1 DEF ReviewTyped
    <2>6. ListedAll(q)' /\ (regular' => StillHolds(q)')
      BY <2>1, <2>2, <2>3, <2>4 DEF ListedAll, StillHolds
    <2>7. /\ lasting' \in [Requests -> SUBSET Entities] /\ lasting'[q] = whitelist
          /\ \A p \in Requests \ {q} : lasting'[p] = lasting[p]
      BY <2>1 DEF DecisionInv, ScreeningTyped, RowsTyped
    <2>8. Excludes(q)'
      BY <2>1, <2>2, <2>3, <2>7 DEF Excludes
    <2> QED BY <2>1, <2>5, <2>6, <2>7, <2>8, RequestMoves
  <1> QED BY <1>1, <1>2 DEF Dec!Begin

LEMMA KeepsReading ==
  ASSUME DecisionInv, NEW q \in Requests,
         \/ Dec!ListMatches(q) \/ Dec!RepeatReview(q) \/ Dec!RequestFails(q)
         \/ Dec!ReadWhitelist(q) \/ Dec!FindActive(q) \/ Dec!RepeatRefinement(q)
  PROVE  DecisionInv'
  <1> DEFINE r == request[q]
  <1>1. /\ ReviewTyped(q) /\ (regular => StillHolds(q)) /\ Excludes(q)
        /\ whitelist \subseteq Entities /\ lasting \in [Requests -> SUBSET Entities]
        /\ request = [p \in Requests |-> request[p]]
    BY DEF DecisionInv, ScreeningTyped, RowsTyped, RequestInv, LastingInv
  <1>2. ASSUME screening' = screening
        PROVE  /\ Dec!Active' = Dec!Active /\ \A s : Dec!Pending(s)' = Dec!Pending(s)
               /\ Reviews' = Reviews /\ Refinements' = Refinements
    <2>1. Dec!Stored' = Dec!Stored
      BY <1>2 DEF Dec!Stored, Dec!Screenings
    <2> QED BY <1>2, <2>1 DEF Dec!Active, Dec!Pending, Reviews, Refinements
  <1>3. CASE Dec!ListMatches(q)
    <2> DEFINE n == [r EXCEPT !.step = "write", !.others = Dec!Pending(r.screening) \ {r.entity}]
    <2>1. /\ r.op = "review" /\ r.step = "list" /\ request' = [request EXCEPT ![q] = n]
          /\ screening' = screening /\ whitelist' = whitelist /\ lasting' = lasting
          /\ regular' = regular
      BY <1>3 DEF Dec!ListMatches
    <2>2. request'[q] = n /\ r \in Reviews /\ r /= Dec!Idle
      BY <1>1, <2>1, RequestRecords
    <2>3. Dec!Pending(r.screening) \subseteq Entities
      BY DEF Dec!Pending
    <2>4. /\ n \in Reviews /\ n.op = "review" /\ n.step = "write"
          /\ n.screening = r.screening /\ n.entity = r.entity /\ n.verdict = r.verdict
          /\ n.partial = r.partial /\ n.others = Dec!Pending(r.screening) \ {r.entity}
      BY <2>2, <2>3 DEF Reviews
    <2> HIDE DEF n
    <2>5. ReviewTyped(q)'
      BY <1>2, <2>1, <2>2, <2>4 DEF ReviewTyped
    <2> HIDE DEF r
    <2>6. ListedAll(q)' /\ Excludes(q)' /\ (regular' => StillHolds(q)')
      BY <1>1, <1>2, <2>1, <2>2, <2>4 DEF ListedAll, Excludes, StillHolds, r
    <2> QED BY <1>1, <2>1, <2>2, <2>5, <2>6, RequestMoves DEF r
  <1>4. CASE Dec!RepeatReview(q)
    <2> DEFINE n == [r EXCEPT !.step = "list", !.others = {}]
    <2>1. /\ r.op = "review" /\ r.step = "write" /\ request' = [request EXCEPT ![q] = n]
          /\ screening' = screening /\ whitelist' = whitelist /\ lasting' = lasting
          /\ regular' = regular
      BY <1>4 DEF Dec!RepeatReview
    <2>2. request'[q] = n /\ r \in Reviews /\ r /= Dec!Idle
      BY <1>1, <2>1, RequestRecords
    <2>3. /\ n \in Reviews /\ n.op = "review" /\ n.step = "list"
          /\ n.screening = r.screening /\ n.entity = r.entity /\ n.verdict = r.verdict
          /\ n.partial = r.partial
      BY <2>2 DEF Reviews
    <2> HIDE DEF n
    <2>4. ReviewTyped(q)'
      BY <1>2, <2>1, <2>2, <2>3 DEF ReviewTyped
    <2> HIDE DEF r
    <2>5. ListedAll(q)' /\ Excludes(q)' /\ (regular' => StillHolds(q)')
      BY <1>1, <1>2, <2>1, <2>2, <2>3 DEF ListedAll, Excludes, StillHolds, r
    <2> QED BY <1>1, <2>1, <2>2, <2>4, <2>5, RequestMoves DEF r
  <1>5. CASE Dec!ReadWhitelist(q)
    <2> DEFINE n == [r EXCEPT !.step = "active", !.excluded = whitelist]
    <2>1. /\ r.op = "refine" /\ r.step = "whitelist" /\ request' = [request EXCEPT ![q] = n]
          /\ screening' = screening /\ whitelist' = whitelist /\ lasting' = lasting
          /\ regular' = regular
      BY <1>5 DEF Dec!ReadWhitelist
    <2>2. request'[q] = n /\ r \in Refinements /\ r /= Dec!Idle
      BY <1>1, <2>1, RequestRecords
    <2>3. /\ n \in Refinements /\ n.op = "refine" /\ n.step = "active"
          /\ n.screening = r.screening /\ n.excluded = whitelist
      BY <1>1, <2>2 DEF Refinements
    <2> HIDE DEF n
    <2>4. ReviewTyped(q)'
      BY <1>2, <2>1, <2>2, <2>3 DEF ReviewTyped
    <2> HIDE DEF r
    <2>5. ListedAll(q)' /\ Excludes(q)' /\ (regular' => StillHolds(q)')
      BY <1>1, <1>2, <2>1, <2>2, <2>3 DEF ListedAll, Excludes, StillHolds, r
    <2> QED BY <1>1, <2>1, <2>2, <2>4, <2>5, RequestMoves DEF r
  <1>6. CASE Dec!RequestFails(q)
    <2>1. /\ request' = [request EXCEPT ![q] = Dec!Idle]
          /\ screening' = screening /\ whitelist' = whitelist
          /\ lasting' = [lasting EXCEPT ![q] = {}]
          /\ regular' = regular
      BY <1>6 DEF Dec!RequestFails, Dec!Answered
    <2>2. request'[q] = Dec!Idle /\ Dec!Idle.op = "idle"
      BY <1>1, <2>1 DEF Dec!Idle
    <2>3. /\ lasting' \in [Requests -> SUBSET Entities] /\ lasting'[q] = {}
          /\ \A p \in Requests \ {q} : lasting'[p] = lasting[p]
      BY <1>1, <2>1
    <2>4. ReviewTyped(q)' /\ ListedAll(q)' /\ Excludes(q)' /\ StillHolds(q)'
      BY <2>2, <2>3 DEF ReviewTyped, ListedAll, Excludes, StillHolds
    <2> QED BY <2>1, <2>3, <2>4, RequestMoves
  <1>7. CASE Dec!FindActive(q) \/ Dec!RepeatRefinement(q)
    <2>1. PICK step \in {"active", "store"} :
            /\ r.op = "refine" /\ r.step \in {"active", "store"}
            /\ request' = [request EXCEPT ![q] = [r EXCEPT !.step = step]]
            /\ screening' = screening /\ whitelist' = whitelist /\ lasting' = lasting
            /\ regular' = regular
      BY <1>7 DEF Dec!FindActive, Dec!RepeatRefinement
    <2> DEFINE n == [r EXCEPT !.step = step]
    <2>2. request'[q] = n /\ r \in Refinements /\ r /= Dec!Idle
      BY <1>1, <2>1, RequestRecords
    <2>3. /\ n \in Refinements /\ n.op = "refine" /\ n.step = step
          /\ n.screening = r.screening /\ n.excluded = r.excluded
      BY <2>2 DEF Refinements
    <2>0. request' = [request EXCEPT ![q] = n]
      BY <2>1
    <2> HIDE DEF n
    <2>4. ReviewTyped(q)'
      BY <1>2, <2>1, <2>2, <2>3 DEF ReviewTyped
    <2> HIDE DEF r
    <2>5. ListedAll(q)' /\ Excludes(q)' /\ (regular' => StillHolds(q)')
      BY <1>1, <1>2, <2>1, <2>2, <2>3 DEF ListedAll, Excludes, StillHolds, r
    <2> QED BY <1>1, <2>0, <2>1, <2>2, <2>4, <2>5, RequestMoves DEF r
  <1> QED BY <1>3, <1>4, <1>5, <1>6, <1>7

LEMMA WriteInv ==
  ASSUME DecisionInv, NEW q \in Requests, Dec!WriteReview(q)
  PROVE  DecisionInv'
  <1> SUFFICES ASSUME NEW r, r = request[q], NEW s, s = r.screening
               PROVE  DecisionInv'
    OBVIOUS
  <1>1. ScreeningTyped /\ ListedInv /\ RequestInv /\ StatusInv /\ LastingInv
    BY DEF DecisionInv
  <1>2. /\ r.op = "review" /\ r.step = "write"
        /\ screening' \in [Dec!Screenings -> ScreeningType]
        /\ s \in Dec!Stored /\ r.entity \in Entities /\ r.verdict \in {"confirmed_hit", "no_hit"}
        /\ \A t \in Dec!Screenings : t /= s => screening'[t] = screening[t]
        /\ screening'[s].archived = screening[s].archived
        /\ screening'[s].partial = screening[s].partial
        /\ screening'[s].status = Dec!StatusAfter(r)
        /\ screening'[s].match = Dec!MatchesAfter(r)
        /\ Dec!Stored' = Dec!Stored /\ Dec!Active' = Dec!Active
    BY <1>1, ReviewWrites
  <1>3. /\ request'[q] = Dec!Idle /\ \A p \in Requests \ {q} : request'[p] = request[p]
        /\ request' = [p \in Requests |-> request'[p]]
        /\ whitelist' \in {whitelist, whitelist \cup {r.entity}}
        /\ lasting' = [lasting EXCEPT ![q] = {}]
        /\ regular' = regular /\ Dec!Idle.op = "idle"
    BY <1>1 DEF Dec!WriteReview, Dec!Answered, ScreeningTyped, RowsTyped, Dec!Idle
  <1>4. /\ r \in Reviews /\ r /= Dec!Idle /\ r.others \subseteq Entities
    <2>1. r \in Reviews /\ r /= Dec!Idle
      BY <1>1, <1>2, RequestRecords DEF ScreeningTyped
    <2> QED BY <2>1 DEF Reviews
  <1>5. Dec!Stored \subseteq Dec!Screenings /\ Dec!Active \subseteq Dec!Stored
        /\ Dec!Screenings' = Dec!Screenings
    BY DEF Dec!Stored, Dec!Active, Dec!Screenings
  <1>6. \A e \in Entities :
          screening'[s].match[e] = IF e = r.entity THEN r.verdict
                                   ELSE IF r.verdict = "confirmed_hit" /\ e \in r.others
                                   THEN "skipped" ELSE screening[s].match[e]
    BY <1>2 DEF Dec!MatchesAfter
  <1>7. screening'[s].status = IF r.verdict = "confirmed_hit" THEN "confirmed_hit"
                               ELSE IF ~r.partial /\ r.others = {} THEN "no_hit"
                               ELSE screening[s].status
    BY <1>2 DEF Dec!StatusAfter, Dec!IsLast
  <1>8. \A t \in Dec!Screenings : Dec!Pending(t)' \subseteq Dec!Pending(t)
    BY <1>2, <1>6 DEF Dec!Pending
  <1>9. r.entity \notin Dec!Pending(s)' /\
        (r.verdict = "confirmed_hit" => Dec!Pending(s)' \cap r.others = {})
    BY <1>2, <1>4, <1>6 DEF Dec!Pending
  <1>10. ScreeningTyped'
    <2>1. Reviews' = Reviews /\ Refinements' = Refinements
      BY <1>2 DEF Reviews, Refinements
    <2>2. ASSUME NEW p \in Requests PROVE ReviewTyped(p)'
      BY <1>1, <1>3, <2>1 DEF ScreeningTyped, ReviewTyped
    <2>3. RowsTyped'
      BY <1>1, <1>2, <1>3, <1>5 DEF ScreeningTyped, RowsTyped
    <2> QED BY <2>2, <2>3 DEF ScreeningTyped
  <1>11. ListedInv'
    <2>1. ASSUME NEW p \in Requests PROVE ListedAll(p)'
      <3>1. CASE p = q
        BY <1>3, <3>1 DEF ListedAll
      <3>2. ASSUME p /= q, request[p].op = "review", request[p].step = "write",
                   NEW t, t = request[p].screening
            PROVE  Dec!Pending(t)' \subseteq request[p].others \cup {request[p].entity}
        <4>1. t \in Dec!Screenings
          <5>1. request[p] \in Reviews
            BY <1>1, <3>2, RequestRecords DEF ScreeningTyped
          <5> QED BY <3>2, <5>1, <1>5 DEF Reviews
        <4> QED BY <1>1, <1>8, <3>2, <4>1 DEF ListedInv, ListedAll
      <3> QED BY <1>3, <3>1, <3>2 DEF ListedAll
    <2>2. Dec!Pending(s) \subseteq r.others \cup {r.entity}
      BY <1>1, <1>2 DEF ListedInv, ListedAll
    <2>3. ASSUME NEW t \in Dec!Stored, screening'[t].status \in {"confirmed_hit", "no_hit"}
          PROVE  Dec!Pending(t)' = {}
      <3>1. CASE t /= s
        <4>1. screening[t].status \in {"confirmed_hit", "no_hit"} /\ t \in Dec!Screenings
          BY <1>2, <1>5, <2>3, <3>1
        <4>2. Dec!Pending(t) = {}
          BY <1>1, <4>1 DEF ListedInv, Dec!NoneLeftPending
        <4> QED BY <1>8, <4>1, <4>2
      <3>2. CASE t = s /\ r.verdict = "confirmed_hit"
        BY <1>5, <1>8, <1>9, <2>2, <3>2
      <3>3. CASE t = s /\ r.verdict = "no_hit" /\ r.others = {}
        BY <1>5, <1>8, <1>9, <2>2, <3>3
      <3>4. CASE t = s /\ r.verdict = "no_hit" /\ r.others /= {}
        <4>1. screening[s].status \in {"confirmed_hit", "no_hit"} /\ s \in Dec!Screenings
          BY <1>5, <1>7, <2>3, <3>4
        <4>2. Dec!Pending(s) = {}
          BY <1>1, <3>4, <4>1 DEF ListedInv, Dec!NoneLeftPending
        <4> QED BY <1>8, <3>4, <4>1, <4>2
      <3> QED BY <1>2, <3>1, <3>2, <3>3, <3>4
    <2>4. Dec!NoneLeftPending'
      BY <1>2, <2>3 DEF Dec!NoneLeftPending
    <2> QED BY <2>1, <2>4 DEF ListedInv
  <1>12. ASSUME regular
         PROVE  /\ StillHolds(q)
                /\ \A p \in Requests : request'[p] = Dec!Idle
    BY <1>1, <1>3, <1>4, <1>12 DEF RequestInv, OneRequest
  <1>13. RequestInv'
    BY <1>3, <1>12 DEF RequestInv, OneRequest, StillHolds
  <1>14. ASSUME regular
         PROVE  /\ s \in Dec!Active /\ screening[s].status = "in_review"
                /\ r.partial = screening[s].partial
                /\ r.others = Dec!Pending(s) \ {r.entity}
    BY <1>2, <1>12, <1>14 DEF StillHolds
  <1>15. StatusInv'
    <2>1. ASSUME regular, NEW t \in Dec!Stored, t /= s PROVE StatusOK(t)'
      BY <1>1, <1>2, <1>5, <2>1 DEF StatusInv, StatusOK, Dec!Reviewed
    <2>2. ASSUME regular PROVE StatusOK(s)'
      <3>1. /\ s \in Dec!Stored /\ ~screening[s].archived
            /\ \A e \in Entities : screening[s].match[e] \notin {"confirmed_hit", "skipped"}
        BY <1>1, <1>2, <1>14, <2>2 DEF StatusInv, StatusOK, Dec!Reviewed, Dec!Active
      <3>2. CASE r.verdict = "confirmed_hit"
        <4>1. Dec!Reviewed(s, "confirmed_hit")'
          BY <1>2, <1>6, <3>2 DEF Dec!Reviewed
        <4> QED BY <1>2, <1>7, <3>1, <3>2, <4>1 DEF StatusOK
      <3>3. CASE r.verdict = "no_hit"
        <4>1. ~Dec!Reviewed(s, "confirmed_hit")' /\ ~Dec!Reviewed(s, "skipped")'
          BY <1>6, <3>1, <3>3 DEF Dec!Reviewed
        <4>2. Dec!Reviewed(s, "pending")' <=> r.others /= {}
          BY <1>4, <1>6, <1>14, <2>2, <3>3 DEF Dec!Reviewed, Dec!Pending
        <4> QED BY <1>2, <1>7, <1>14, <2>2, <3>1, <3>3, <4>1, <4>2 DEF StatusOK
      <3> QED BY <1>2, <3>2, <3>3
    <2> QED BY <1>2, <1>3, <2>1, <2>2 DEF StatusInv
  <1>16. LastingInv'
    BY <1>1, <1>3 DEF ScreeningTyped, RowsTyped, LastingInv, Excludes
  <1> QED BY <1>10, <1>11, <1>13, <1>15, <1>16 DEF DecisionInv

LEMMA StoreInv ==
  ASSUME DecisionInv, NEW q \in Requests, Dec!StoreRefined(q)
  PROVE  DecisionInv'
  <1> SUFFICES ASSUME NEW r, r = request[q], NEW s, s = r.screening,
                      NEW new, new = Cardinality(Dec!Stored) + 1
               PROVE  DecisionInv'
    OBVIOUS
  <1>1. ScreeningTyped /\ ListedInv /\ RequestInv /\ StatusInv /\ LastingInv
    BY DEF DecisionInv
  <1>2. /\ r.op = "refine" /\ r.step = "store" /\ s \in Dec!Stored
        /\ new \in Dec!Screenings \ Dec!Stored
        /\ screening' \in [Dec!Screenings -> ScreeningType]
        /\ \E sent \in Dec!Sent(r.excluded) : screening'[new] \in Dec!Results(sent)
        /\ screening'[s] = [screening[s] EXCEPT !.archived = TRUE]
        /\ \A t \in Dec!Screenings \ {new, s} : screening'[t] = screening[t]
        /\ Dec!Stored' = Dec!Stored \cup {new} /\ Dec!Stored' = 1 .. new
        /\ Cardinality(Dec!Stored') = new
        /\ Dec!Active' = (Dec!Active \ {s}) \cup {new}
    BY <1>1, RefinementStores
  <1>3. /\ request'[q] = Dec!Idle /\ \A p \in Requests \ {q} : request'[p] = request[p]
        /\ request' = [p \in Requests |-> request'[p]]
        /\ whitelist' = whitelist /\ lasting' = [lasting EXCEPT ![q] = {}]
        /\ regular' = regular /\ Dec!Idle.op = "idle"
    BY <1>1 DEF Dec!StoreRefined, Dec!Answered, ScreeningTyped, RowsTyped, Dec!Idle
  <1>4. r /= Dec!Idle
    BY <1>1, <1>2, RequestRecords DEF ScreeningTyped
  <1>5. /\ Dec!Stored \subseteq Dec!Screenings /\ Dec!Active \subseteq Dec!Stored
        /\ Dec!Screenings' = Dec!Screenings /\ new \in Nat
    BY <1>1 DEF Dec!Stored, Dec!Active, Dec!Screenings, ScreeningTyped, RowsTyped
  <1>6. /\ screening'[new].status \in {"in_review", "no_hit"} /\ ~screening'[new].archived
        /\ \A e \in Entities : screening'[new].match[e] \in {"none", "pending"}
        /\ screening'[new].status = "no_hit"
             <=> \A e \in Entities : screening'[new].match[e] = "none"
        /\ screening'[new].status = "no_hit" => ~screening'[new].partial
    BY <1>2, ResultsTyped
  <1>7. /\ screening'[s].status = screening[s].status
        /\ screening'[s].match = screening[s].match
        /\ screening'[s].partial = screening[s].partial /\ screening'[s].archived
    <2>1. screening[s] \in ScreeningType
      BY <1>1, <1>2, <1>5 DEF ScreeningTyped, RowsTyped
    <2> QED BY <1>2, <2>1 DEF ScreeningType
  <1>8. \A t \in Dec!Stored : /\ screening'[t].status = screening[t].status
                            /\ screening'[t].match = screening[t].match
                            /\ screening'[t].partial = screening[t].partial
                            /\ Dec!Pending(t)' = Dec!Pending(t)
    <2>1. ASSUME NEW t \in Dec!Stored
          PROVE  /\ screening'[t].status = screening[t].status
                 /\ screening'[t].match = screening[t].match
                 /\ screening'[t].partial = screening[t].partial
      <3>1. CASE t = s
        BY <1>7, <3>1
      <3>2. CASE t /= s
        BY <1>2, <1>5, <3>2
      <3> QED BY <3>1, <3>2
    <2> QED BY <2>1 DEF Dec!Pending
  <1>9. ScreeningTyped'
    <2>1. Reviews \subseteq Reviews' /\ Refinements \subseteq Refinements'
      BY <1>2 DEF Reviews, Refinements
    <2>2. ASSUME NEW p \in Requests PROVE ReviewTyped(p)'
      BY <1>1, <1>3, <2>1 DEF ScreeningTyped, ReviewTyped
    <2>3. RowsTyped'
      BY <1>1, <1>2, <1>3, <1>5 DEF ScreeningTyped, RowsTyped
    <2> QED BY <2>2, <2>3 DEF ScreeningTyped
  <1>10. ListedInv'
    <2>1. ASSUME NEW p \in Requests PROVE ListedAll(p)'
      <3>1. CASE p = q
        BY <1>3, <3>1 DEF ListedAll
      <3>2. ASSUME p /= q, request[p].op = "review", request[p].step = "write",
                   NEW t, t = request[p].screening
            PROVE  Dec!Pending(t)' \subseteq request[p].others \cup {request[p].entity}
        <4>1. t \in Dec!Stored
          <5>1. request[p] \in Reviews
            BY <1>1, <3>2, RequestRecords DEF ScreeningTyped
          <5> QED BY <3>2, <5>1 DEF Reviews
        <4> QED BY <1>1, <1>8, <3>2, <4>1 DEF ListedInv, ListedAll
      <3> QED BY <1>3, <3>1, <3>2 DEF ListedAll
    <2>2. ASSUME NEW t \in Dec!Stored, screening'[t].status \in {"confirmed_hit", "no_hit"}
          PROVE  Dec!Pending(t)' = {}
      BY <1>1, <1>8, <2>2 DEF ListedInv, Dec!NoneLeftPending
    <2>3. screening'[new].status \in {"confirmed_hit", "no_hit"} => Dec!Pending(new)' = {}
      BY <1>6 DEF Dec!Pending
    <2>4. Dec!NoneLeftPending'
      BY <1>2, <2>2, <2>3 DEF Dec!NoneLeftPending
    <2> QED BY <2>1, <2>4 DEF ListedInv
  <1>11. ASSUME regular
         PROVE  /\ StillHolds(q)
                /\ \A p \in Requests : request'[p] = Dec!Idle
    BY <1>1, <1>3, <1>4, <1>11 DEF RequestInv, OneRequest
  <1>12. RequestInv'
    BY <1>3, <1>11 DEF RequestInv, OneRequest, StillHolds
  <1>13. ASSUME regular
         PROVE  screening[s].status \in {"in_review", "error"}
    BY <1>2, <1>11, <1>13 DEF StillHolds
  <1>14. StatusInv'
    <2>1. ASSUME regular, NEW t \in Dec!Stored, t /= s PROVE StatusOK(t)'
      <3>1. screening'[t] = screening[t]
        BY <1>2, <1>5, <2>1
      <3> QED BY <1>1, <2>1, <3>1 DEF StatusInv, StatusOK, Dec!Reviewed
    <2>2. ASSUME regular PROVE StatusOK(s)'
      BY <1>1, <1>2, <1>7, <1>13, <2>2 DEF StatusInv, StatusOK, Dec!Reviewed
    <2>3. StatusOK(new)'
      BY <1>6 DEF StatusOK, Dec!Reviewed
    <2> QED BY <1>2, <1>3, <2>1, <2>2, <2>3 DEF StatusInv
  <1>15. LastingInv'
    BY <1>1, <1>3 DEF ScreeningTyped, RowsTyped, LastingInv, Excludes
  <1> QED BY <1>9, <1>10, <1>12, <1>14, <1>15 DEF DecisionInv

\* An entity that is taken off the whitelist has not been on it since any request began.
LEMMA WhitelistInv ==
  ASSUME DecisionInv, NEW e \in Entities, Dec!CreateWhitelist(e) \/ Dec!DeleteWhitelist(e)
  PROVE  DecisionInv'
  <1>1. /\ screening' = screening /\ request' = request /\ regular' = regular
        /\ whitelist' \subseteq whitelist \cup {e}
        /\ lasting' \in [Requests -> SUBSET Entities]
        /\ \A q \in Requests : lasting'[q] \subseteq lasting[q]
        /\ \A q \in Requests : lasting[q] \subseteq whitelist => lasting'[q] \subseteq whitelist'
    BY DEF Dec!CreateWhitelist, Dec!DeleteWhitelist, DecisionInv, ScreeningTyped, RowsTyped
  <1>2. /\ Dec!Stored' = Dec!Stored /\ Dec!Active' = Dec!Active
        /\ \A s : Dec!Pending(s)' = Dec!Pending(s)
        /\ \A s, v : Dec!Reviewed(s, v)' = Dec!Reviewed(s, v)
        /\ Dec!Screenings' = Dec!Screenings
    BY <1>1 DEF Dec!Stored, Dec!Active, Dec!Pending, Dec!Screenings, Dec!Reviewed
  <1>3. ScreeningTyped'
    <2>1. Reviews' = Reviews /\ Refinements' = Refinements
      BY <1>2 DEF Reviews, Refinements
    <2> QED BY <1>1, <1>2, <2>1 DEF DecisionInv, ScreeningTyped, RowsTyped, ReviewTyped
  <1>4. ListedInv'
    BY <1>1, <1>2 DEF DecisionInv, ListedInv, ListedAll, Dec!NoneLeftPending
  <1>5. RequestInv'
    <2>1. ASSUME NEW p \in Requests, StillHolds(p) PROVE StillHolds(p)'
      BY <1>1, <1>2, <2>1 DEF StillHolds
    <2> QED BY <1>1, <2>1 DEF DecisionInv, RequestInv, OneRequest
  <1>6. StatusInv'
    BY <1>1, <1>2 DEF DecisionInv, StatusInv, StatusOK
  <1>7. LastingInv'
    BY <1>1 DEF DecisionInv, LastingInv, Excludes
  <1> QED BY <1>3, <1>4, <1>5, <1>6, <1>7 DEF DecisionInv

LEMMA DecisionNext == DecisionInv /\ Dec!Next => DecisionInv'
  BY BeginInv, KeepsReading, WriteInv, StoreInv, WhitelistInv DEF Dec!Next

\* What the invariant says of the screening of a decision.
LEMMA DecisionSafe ==
  ASSUME DecisionInv
  PROVE  Dec!NoneLeftPending /\ Dec!StatusFollowsReviews
  <1>1. Dec!NoneLeftPending
    BY DEF DecisionInv, ListedInv
  <1>2. Dec!StatusFollowsReviews
    BY DEF DecisionInv, StatusInv, StatusOK, Dec!StatusFollowsReviews
  <1> QED BY <1>1, <1>2

\* Each of its steps.  A request that ends, other than by storing a screening, stores none.
LEMMA NotAskedNow ==
  ASSUME DecisionInv, Dec!Next
  PROVE  Dec!NotAsked
  <1> SUFFICES ASSUME NEW q \in Requests,
                      request[q].op = "refine", request'[q] = Dec!Idle,
                      Dec!Cardinality(request[q].excluded) <= MaxExcluded,
                      NEW s \in Dec!Stored' \ Dec!Stored, NEW e \in lasting[q]
               PROVE  screening'[s].match[e] /= "pending"
    BY DEF Dec!NotAsked
  <1>1. /\ request[q] \in Refinements /\ request[q] /= Dec!Idle
        /\ request = [p \in Requests |-> request[p]] /\ Excludes(q) /\ e \in Entities
    BY RequestRecords DEF DecisionInv, ScreeningTyped, RowsTyped, LastingInv
  <1>2. screening' /= screening
    BY DEF Dec!Stored, Dec!Screenings
  <1>3. Dec!StoreRefined(q)
    <2>1. ASSUME NEW p \in Requests, Dec!WriteReview(p) PROVE FALSE
      BY <2>1, ReviewWrites DEF DecisionInv
    <2>2. ASSUME NEW p \in Requests, Dec!Begin(p) PROVE screening' = screening
      BY <2>2 DEF Dec!Begin, Dec!BeginReview, Dec!BeginRefine, Dec!Begins
    <2>3. ASSUME NEW p \in Requests,
                 \/ Dec!ListMatches(p) \/ Dec!RepeatReview(p) \/ Dec!ReadWhitelist(p)
                 \/ Dec!FindActive(p) \/ Dec!RepeatRefinement(p) \/ Dec!RequestFails(p)
          PROVE  screening' = screening
      BY <2>3 DEF Dec!ListMatches, Dec!RepeatReview, Dec!ReadWhitelist, Dec!FindActive,
           Dec!RepeatRefinement, Dec!RequestFails
    <2>4. ASSUME NEW f \in Entities, Dec!CreateWhitelist(f) \/ Dec!DeleteWhitelist(f)
          PROVE  screening' = screening
      BY <2>4 DEF Dec!CreateWhitelist, Dec!DeleteWhitelist
    <2>5. PICK p \in Requests : Dec!StoreRefined(p)
      BY <1>2, <2>1, <2>2, <2>3, <2>4 DEF Dec!Next
    <2>6. request' = [request EXCEPT ![p] = Dec!Idle]
      BY <2>5 DEF Dec!StoreRefined, Dec!Answered
    <2> QED BY <1>1, <2>5, <2>6
  <1>4. PICK sent \in Dec!Sent(request[q].excluded) :
          /\ screening'[Cardinality(Dec!Stored) + 1] \in Dec!Results(sent)
          /\ request[q].step = "store" /\ s = Cardinality(Dec!Stored) + 1
    <2>1. /\ request[q].step = "store"
          /\ \E sent \in Dec!Sent(request[q].excluded) :
               screening'[Cardinality(Dec!Stored) + 1] \in Dec!Results(sent)
          /\ Dec!Stored' = Dec!Stored \cup {Cardinality(Dec!Stored) + 1}
      BY <1>3, RefinementStores DEF DecisionInv
    <2>2. s = Cardinality(Dec!Stored) + 1
      BY <2>1
    <2> QED BY <2>1, <2>2
  <1>5. sent = request[q].excluded
    BY <1>4 DEF Dec!Sent
  <1>6. e \in sent
    BY <1>1, <1>4, <1>5 DEF Excludes
  <1> QED BY <1>1, <1>4, <1>6, ResultsTyped

-----------------------------------------------------------------------------
(* A continuous screening.                                                 *)

StoredMatch ==
  [entity : Objects, status : {"pending", "confirmed_hit", "no_hit", "skipped"}]

ReviewsOfHits ==
  [op : {"review"}, match : Obj!Stored, verdict : {"confirmed_hit", "no_hit"},
   partial : BOOLEAN, others : SUBSET Obj!Stored, hit : BOOLEAN]

Dismissals == [op : {"dismiss"}, pending : SUBSET Obj!Stored]

Loads == [op : {"load"}, known : SUBSET Objects]

HitRowsTyped ==
  /\ continuous \in [trigger : {"object", "dataset"}, partial : BOOLEAN,
                     status : {"in_review", "confirmed_hit", "no_hit"}]
  /\ match \in [Obj!Matches -> {Obj!NoMatch} \cup StoredMatch]
  /\ request = [q \in Requests |-> request[q]]
  /\ dismissed \in BOOLEAN

HitRequestTyped(q) == request[q] \in {Obj!Idle} \cup ReviewsOfHits \cup Dismissals \cup Loads

HitTyped == HitRowsTyped /\ \A q \in Requests : HitRequestTyped(q)

\* A request that is about to write knows all that is still pending, but what was loaded late.
KnowsPending(q) ==
  LET r == request[q]
  IN  /\ r.op = "review" => Obj!With("pending") \subseteq r.others \cup {r.match} \cup late
      /\ r.op = "dismiss" => Obj!With("pending") \subseteq r.pending \cup late

KnownInv == (\A q \in Requests : KnowsPending(q)) /\ Obj!NoneLeftPending

\* Unless requests overlap, what a request has read still holds when it writes.
HitHolds(q) ==
  LET r == request[q]
  IN  /\ r /= Obj!Idle => continuous.status = "in_review"
      /\ r.op = "review" => /\ r.partial = continuous.partial
                            /\ r.others = Obj!With("pending") \ {r.match}
                            /\ r.hit = (Obj!With("confirmed_hit") /= {})

\* What the reviews say; nothing is skipped before the screening is decided.
HitStatus ==
  /\ continuous.status = "in_review" =>
       /\ continuous.partial \/ Obj!With("pending") /= {}
       /\ Obj!With("skipped") = {}
       /\ Obj!ForObject => Obj!With("confirmed_hit") = {}
  /\ continuous.status = "confirmed_hit" => Obj!With("confirmed_hit") /= {}
  /\ continuous.status = "no_hit" => ~continuous.partial /\ Obj!With("no_hit") = Obj!Stored
  /\ ~Obj!ForObject => Obj!With("skipped") = {}

HitRegular == regular =>
  /\ \A p, q \in Requests : request[p] /= Obj!Idle /\ request[q] /= Obj!Idle => p = q
  /\ ~dismissed => HitStatus /\ \A q \in Requests : HitHolds(q)

HitInv == HitTyped /\ KnownInv /\ HitRegular

-----------------------------------------------------------------------------
(* The steps of its requests.                                              *)

\* The matches that are stored.
LEMMA StoredMatches ==
  ASSUME HitTyped
  PROVE  /\ \A m \in Obj!Matches : m \in Obj!Stored <=> match[m] \in StoredMatch
         /\ Obj!Stored \subseteq Obj!Matches
         /\ \A v : Obj!With(v) \subseteq Obj!Stored
  <1>1. Obj!NoMatch \notin StoredMatch
    BY ReviewAssumption DEF Obj!NoMatch, StoredMatch
  <1>2. match \in [Obj!Matches -> {Obj!NoMatch} \cup StoredMatch]
    BY DEF HitTyped, HitRowsTyped
  <1> QED BY <1>1, <1>2 DEF Obj!Stored, Obj!With

LEMMA HitRecords ==
  ASSUME NEW q, HitRequestTyped(q)
  PROVE  /\ request[q].op = "review" => request[q] \in ReviewsOfHits
         /\ request[q].op = "dismiss" => request[q] \in Dismissals
         /\ request[q].op = "load" => request[q] \in Loads
         /\ request[q].op \in {"review", "dismiss", "load"} => request[q] /= Obj!Idle
         /\ request[q] /= Obj!Idle => request[q].op \in {"review", "dismiss", "load"}
  BY DEF HitRequestTyped, ReviewsOfHits, Dismissals, Loads, Obj!Idle

\* What a screening finds first is in review and pending.
LEMMA HitInit == Obj!Init => HitInv
  <1> SUFFICES ASSUME Obj!Init PROVE HitInv
    OBVIOUS
  <1>0. PICK es \in (SUBSET Objects) \ {{}}, ms \in SUBSET Obj!Matches :
          \E new \in Obj!Inserted(es, ms) :
            match = Obj!Extended([m \in Obj!Matches |-> Obj!NoMatch], new)
    BY DEF Obj!Init
  <1>1. PICK new \in Obj!Inserted(es, ms) :
          match = Obj!Extended([m \in Obj!Matches |-> Obj!NoMatch], new)
    BY <1>0
  <1>2. /\ new \in [ms -> es] /\ \E m \in ms : TRUE
        /\ \A m \in Obj!Matches : match[m] = IF m \in ms
             THEN [entity |-> new[m], status |-> "pending"] ELSE Obj!NoMatch
        /\ match = [m \in Obj!Matches |-> match[m]]
    BY <1>1 DEF Obj!Inserted, Obj!Extended
  <1>3. \A m \in ms : m \in Obj!Matches /\ match[m] \in StoredMatch
    <2>1. \A m \in ms : new[m] \in Objects
      BY <1>2
    <2> QED BY <1>2, <2>1 DEF StoredMatch
  <1>10. match \in [Obj!Matches -> {Obj!NoMatch} \cup StoredMatch]
    <2>1. \A m \in Obj!Matches : match[m] \in {Obj!NoMatch} \cup StoredMatch
      BY <1>2, <1>3
    <2> QED BY <1>2, <2>1
  <1>4. /\ continuous \in [trigger : {"object", "dataset"}, partial : BOOLEAN,
                           status : {"in_review"}]
        /\ request = [q \in Requests |-> Obj!Idle] /\ late = {} /\ dismissed = FALSE
    BY DEF Obj!Init
  <1>5. HitTyped
    BY <1>10, <1>4 DEF HitTyped, HitRowsTyped, HitRequestTyped
  <1>6. KnownInv
    BY <1>4 DEF KnownInv, KnowsPending, Obj!NoneLeftPending, Obj!Idle
  <1>7. \A m \in Obj!Stored : match[m].status = "pending"
    BY <1>2 DEF Obj!Stored
  <1>8. Obj!With("pending") /= {} /\ Obj!With("skipped") = {} /\ Obj!With("confirmed_hit") = {}
    <2>1. PICK m \in ms : m \in Obj!Matches
      BY <1>2, <1>3
    <2>2. match[m] \in StoredMatch
      BY <1>3
    <2>3. m \in Obj!Stored
      BY <1>5, <2>1, <2>2, StoredMatches
    <2> QED BY <1>7, <2>3 DEF Obj!With
  <1>9. HitRegular
    BY <1>4, <1>8 DEF HitRegular, HitStatus, HitHolds, Obj!Idle
  <1> QED BY <1>5, <1>6, <1>9 DEF HitInv

LEMMA HitBegins ==
  ASSUME HitInv, NEW q \in Requests, NEW r, Obj!Begins(q, r),
         r \in ReviewsOfHits \cup Dismissals \cup Loads,
         r.op = "review" => /\ r.others = Obj!With("pending") \ {r.match}
                            /\ r.partial = continuous.partial
                            /\ r.hit = (Obj!With("confirmed_hit") /= {}),
         r.op = "dismiss" => r.pending = Obj!With("pending")
  PROVE  HitInv'
  <1>1. /\ continuous' = continuous /\ match' = match /\ late' = late
        /\ dismissed' = dismissed /\ continuous.status = "in_review"
        /\ request'[q] = r /\ \A p \in Requests \ {q} : request'[p] = request[p]
        /\ request' = [p \in Requests |-> request'[p]]
        /\ regular' = (regular /\ \A p \in Requests : request[p] = Obj!Idle)
    BY DEF Obj!Begins, HitInv, HitTyped, HitRowsTyped
  <1>2. /\ Obj!Matches' = Obj!Matches /\ Obj!Stored' = Obj!Stored
        /\ \A v : Obj!With(v)' = Obj!With(v)
        /\ ReviewsOfHits' = ReviewsOfHits /\ Dismissals' = Dismissals
    <2>1. Obj!Stored' = Obj!Stored /\ Obj!Matches' = Obj!Matches
      BY <1>1 DEF Obj!Stored, Obj!Matches
    <2> QED BY <1>1, <2>1 DEF Obj!With, ReviewsOfHits, Dismissals
  <1>3. HitTyped'
    <2>1. ASSUME NEW p \in Requests PROVE HitRequestTyped(p)'
      BY <1>1, <1>2 DEF HitInv, HitTyped, HitRequestTyped
    <2>2. HitRowsTyped'
      BY <1>1, <1>2 DEF HitInv, HitTyped, HitRowsTyped
    <2> QED BY <2>1, <2>2 DEF HitTyped
  <1>4. KnownInv'
    <2>1. ASSUME NEW p \in Requests \ {q} PROVE KnowsPending(p)'
      BY <1>1, <1>2 DEF HitInv, KnownInv, KnowsPending
    <2>2. KnowsPending(q)'
      BY <1>1, <1>2 DEF KnowsPending
    <2>3. Obj!NoneLeftPending'
      BY <1>1, <1>2 DEF HitInv, KnownInv, Obj!NoneLeftPending
    <2> QED BY <2>1, <2>2, <2>3 DEF KnownInv
  <1>5. HitRegular'
    <2>1. ASSUME regular', ~dismissed PROVE HitStatus'
      BY <1>1, <1>2, <2>1 DEF HitInv, HitRegular, HitStatus, Obj!ForObject
    <2>2. ASSUME regular', NEW p \in Requests PROVE HitHolds(p)'
      <3>1. CASE p /= q
        <4>1. request'[p] = Obj!Idle /\ Obj!Idle.op = "idle"
          BY <1>1, <2>2, <3>1 DEF Obj!Idle
        <4> QED BY <4>1 DEF HitHolds
      <3>2. CASE p = q
        <4>1. r.op = "review" => r.hit = (Obj!With("confirmed_hit")' /= {})
          BY <1>2
        <4>2. r.op = "review" => /\ r.others = Obj!With("pending")' \ {r.match}
                                 /\ r.partial = continuous'.partial
          BY <1>1, <1>2
        <4> QED BY <1>1, <3>2, <4>1, <4>2 DEF HitHolds
      <3> QED BY <3>1, <3>2
    <2> QED BY <1>1, <2>1, <2>2 DEF HitRegular
  <1> QED BY <1>3, <1>4, <1>5 DEF HitInv

LEMMA HitReviewBegins ==
  ASSUME HitInv, NEW q \in Requests, NEW m \in Obj!Matches,
         NEW verdict \in {"confirmed_hit", "no_hit"}, Obj!BeginReview(q, m, verdict)
  PROVE  HitInv'
  <1> DEFINE r == [op |-> "review", match |-> m, verdict |-> verdict,
                   partial |-> continuous.partial, others |-> Obj!With("pending") \ {m},
                   hit |-> Obj!With("confirmed_hit") /= {}]
  <1>1. Obj!Begins(q, r) /\ m \in Obj!Stored
    BY DEF Obj!BeginReview
  <1>2. continuous.partial \in BOOLEAN /\ Obj!With("pending") \subseteq Obj!Stored
    BY StoredMatches DEF HitInv, HitTyped, HitRowsTyped
  <1>3. r \in ReviewsOfHits
    BY <1>1, <1>2 DEF ReviewsOfHits
  <1>4. /\ r.op = "review" /\ r.others = Obj!With("pending") \ {r.match}
        /\ r.partial = continuous.partial /\ r.hit = (Obj!With("confirmed_hit") /= {})
    OBVIOUS
  <1> HIDE DEF r
  <1> QED BY <1>1, <1>3, <1>4, HitBegins

LEMMA OtherBegins ==
  ASSUME HitInv, NEW q \in Requests, Obj!BeginDismiss(q) \/ Obj!BeginLoad(q)
  PROVE  HitInv'
  <1>1. Obj!With("pending") \subseteq Obj!Stored /\ Obj!Known \subseteq Objects
    <2>1. \A m \in Obj!Stored : match[m] \in StoredMatch
      BY StoredMatches DEF HitInv
    <2> QED BY <2>1, StoredMatches DEF HitInv, Obj!Known, StoredMatch
  <1>2. CASE Obj!BeginDismiss(q)
    <2> DEFINE r == [op |-> "dismiss", pending |-> Obj!With("pending")]
    <2>1. Obj!Begins(q, r)
      BY <1>2 DEF Obj!BeginDismiss
    <2>2. r \in Dismissals /\ r.op = "dismiss" /\ r.pending = Obj!With("pending")
      BY <1>1 DEF Dismissals
    <2> HIDE DEF r
    <2> QED BY <2>1, <2>2, HitBegins
  <1>3. CASE Obj!BeginLoad(q)
    <2> DEFINE r == [op |-> "load", known |-> Obj!Known]
    <2>1. Obj!Begins(q, r)
      BY <1>3 DEF Obj!BeginLoad
    <2>2. r \in Loads /\ r.op = "load"
      BY <1>1 DEF Loads
    <2> HIDE DEF r
    <2> QED BY <2>1, <2>2, HitBegins
  <1> QED BY <1>2, <1>3

\* A step that ends a request, after which fewer matches are pending.
LEMMA HitWriteInv ==
  ASSUME HitInv, NEW q \in Requests, Obj!WriteReview(q)
  PROVE  HitInv'
  <1> SUFFICES ASSUME NEW r, r = request[q], NEW m, m = r.match
               PROVE  HitInv'
    OBVIOUS
  <1>1. HitTyped /\ KnownInv /\ HitRegular
    BY DEF HitInv
  <1>2. /\ r.op = "review" /\ match' = Obj!MatchesAfter(r)
        /\ continuous' = [continuous EXCEPT !.status =
             IF ~Obj!Decides(r) THEN continuous.status
             ELSE IF Obj!IsHit(r) THEN "confirmed_hit" ELSE "no_hit"]
        /\ late' = late /\ dismissed' = dismissed /\ regular' = regular
    BY DEF Obj!WriteReview
  <1>3. /\ request'[q] = Obj!Idle /\ \A p \in Requests \ {q} : request'[p] = request[p]
        /\ request' = [p \in Requests |-> request'[p]] /\ Obj!Idle.op = "idle"
    BY <1>1 DEF Obj!WriteReview, Obj!Answered, HitTyped, HitRowsTyped, Obj!Idle
  <1>4. r \in ReviewsOfHits /\ r /= Obj!Idle
    BY <1>1, <1>2, HitRecords DEF HitTyped
  <1>5. /\ m \in Obj!Stored /\ r.others \subseteq Obj!Stored /\ r.partial \in BOOLEAN
        /\ r.hit \in BOOLEAN /\ r.verdict \in {"confirmed_hit", "no_hit"}
    BY <1>4 DEF ReviewsOfHits
  <1>6. /\ continuous \in [trigger : {"object", "dataset"}, partial : BOOLEAN,
                           status : {"in_review", "confirmed_hit", "no_hit"}]
        /\ match \in [Obj!Matches -> {Obj!NoMatch} \cup StoredMatch]
    BY <1>1 DEF HitTyped, HitRowsTyped
  <1>7. /\ continuous'.trigger = continuous.trigger /\ continuous'.partial = continuous.partial
        /\ continuous'.status = IF ~Obj!Decides(r) THEN continuous.status
                                ELSE IF Obj!IsHit(r) THEN "confirmed_hit" ELSE "no_hit"
        /\ continuous' \in [trigger : {"object", "dataset"}, partial : BOOLEAN,
                            status : {"in_review", "confirmed_hit", "no_hit"}]
        /\ Obj!ForObject' = Obj!ForObject
    BY <1>2, <1>6 DEF Obj!ForObject
  <1>8. \A n \in Obj!Matches :
          match'[n] = IF n = m THEN [match[n] EXCEPT !.status = r.verdict]
                      ELSE IF r.verdict = "confirmed_hit" /\ Obj!ForObject /\ n \in r.others
                      THEN [match[n] EXCEPT !.status = "skipped"] ELSE match[n]
    BY <1>2 DEF Obj!MatchesAfter
  <1>9. \A n \in Obj!Stored : n \in Obj!Matches /\ match[n] \in StoredMatch
    BY <1>1, StoredMatches
  <1>10. /\ match'[m] \in StoredMatch /\ match'[m].status = r.verdict
         /\ \A n \in r.others : match'[n] \in StoredMatch
         /\ \A n \in r.others \ {m} : match'[n].status =
              IF r.verdict = "confirmed_hit" /\ Obj!ForObject THEN "skipped" ELSE match[n].status
         /\ \A n \in Obj!Matches \ (r.others \cup {m}) : match'[n] = match[n]
    <2>1. match'[m] \in StoredMatch /\ match'[m].status = r.verdict
      BY <1>5, <1>8, <1>9 DEF StoredMatch
    <2>2. ASSUME NEW n \in r.others, n /= m
          PROVE  /\ match'[n] \in StoredMatch
                 /\ match'[n].status = IF r.verdict = "confirmed_hit" /\ Obj!ForObject
                                       THEN "skipped" ELSE match[n].status
      BY <1>5, <1>8, <1>9, <2>2 DEF StoredMatch
    <2>3. \A n \in Obj!Matches \ (r.others \cup {m}) : match'[n] = match[n]
      BY <1>8
    <2> QED BY <2>1, <2>2, <2>3
  <1>11. /\ match' \in [Obj!Matches -> {Obj!NoMatch} \cup StoredMatch]
         /\ Obj!Matches' = Obj!Matches /\ Obj!Stored' = Obj!Stored
    <2>1. match' = [n \in Obj!Matches |-> match'[n]]
      BY <1>2 DEF Obj!MatchesAfter
    <2>2. match' \in [Obj!Matches -> {Obj!NoMatch} \cup StoredMatch]
      BY <1>6, <1>10, <2>1
    <2>3. Obj!NoMatch \notin StoredMatch
      BY ReviewAssumption DEF Obj!NoMatch, StoredMatch
    <2>4. Obj!Matches' = Obj!Matches
      BY DEF Obj!Matches
    <2> QED BY <1>5, <1>9, <1>10, <2>2, <2>3, <2>4 DEF Obj!Stored
  <1>12. HitTyped'
    <2>1. ReviewsOfHits' = ReviewsOfHits /\ Dismissals' = Dismissals
      BY <1>11 DEF ReviewsOfHits, Dismissals
    <2>2. ASSUME NEW p \in Requests PROVE HitRequestTyped(p)'
      BY <1>1, <1>3, <2>1 DEF HitTyped, HitRequestTyped
    <2>3. HitRowsTyped'
      BY <1>1, <1>2, <1>3, <1>7, <1>11 DEF HitTyped, HitRowsTyped
    <2> QED BY <2>2, <2>3 DEF HitTyped
  \* What becomes of the matches.
  <1>13. /\ Obj!With("pending")' \subseteq Obj!With("pending") \ {m}
         /\ r.verdict = "confirmed_hit" /\ Obj!ForObject =>
              Obj!With("pending")' \cap r.others = {}
    BY <1>5, <1>9, <1>10, <1>11 DEF Obj!With
  <1>14. KnownInv'
    <2>1. ASSUME NEW p \in Requests PROVE KnowsPending(p)'
      BY <1>1, <1>2, <1>3, <1>13 DEF KnownInv, KnowsPending
    <2>2. Obj!With("pending") \subseteq r.others \cup {m} \cup late
      BY <1>1, <1>2 DEF KnownInv, KnowsPending
    <2>3. ASSUME continuous'.status /= "in_review" PROVE Obj!With("pending")' \subseteq late
      <3>1. CASE r.others = {}
        BY <1>13, <2>2, <3>1
      <3>2. CASE r.verdict = "confirmed_hit" /\ Obj!ForObject
        BY <1>13, <2>2, <3>2
      <3>3. CASE ~Obj!Decides(r)
        BY <1>1, <1>7, <1>13, <2>3, <3>3 DEF KnownInv, Obj!NoneLeftPending
      <3> QED BY <3>1, <3>2, <3>3 DEF Obj!Decides, Obj!IsLast
    <2>4. Obj!NoneLeftPending'
      BY <1>2, <2>3 DEF Obj!NoneLeftPending
    <2> QED BY <2>1, <2>4 DEF KnownInv
  <1>15. ASSUME regular
         PROVE  \A p \in Requests : request'[p] = Obj!Idle
    BY <1>1, <1>3, <1>4, <1>15 DEF HitRegular
  <1>16. ASSUME regular, ~dismissed PROVE HitStatus'
    <2>1. HitStatus /\ HitHolds(q)
      BY <1>1, <1>16 DEF HitRegular
    <2>2. /\ continuous.status = "in_review" /\ r.partial = continuous.partial
          /\ r.others = Obj!With("pending") \ {m}
      BY <1>2, <1>4, <2>1 DEF HitHolds
    <2>3. r.hit <=> Obj!With("confirmed_hit") /= {}
      BY <1>2, <1>4, <2>1 DEF HitHolds
    <2>4. /\ continuous.partial \/ Obj!With("pending") /= {}
          /\ Obj!With("skipped") = {}
          /\ Obj!ForObject => Obj!With("confirmed_hit") = {}
      BY <2>1, <2>2 DEF HitStatus
    <2>5. CASE ~Obj!Decides(r)
      <3>1. /\ ~(Obj!ForObject /\ r.verdict = "confirmed_hit") /\ (r.partial \/ r.others /= {})
            /\ continuous'.status = "in_review"
        BY <1>7, <2>2, <2>5 DEF Obj!Decides, Obj!IsLast
      <3>2. r.others \subseteq Obj!With("pending")'
        BY <1>5, <1>9, <1>10, <1>11, <2>2, <3>1 DEF Obj!With
      <3>3. Obj!With("skipped")' = {}
        BY <1>5, <1>9, <1>10, <1>11, <2>4, <3>1 DEF Obj!With
      <3>4. Obj!ForObject => Obj!With("confirmed_hit")' = {}
        BY <1>5, <1>9, <1>10, <1>11, <2>4, <3>1 DEF Obj!With
      <3> QED BY <1>7, <2>2, <3>1, <3>2, <3>3, <3>4 DEF HitStatus
    <2>6. CASE Obj!Decides(r) /\ r.verdict = "confirmed_hit"
      <3>1. m \in Obj!With("confirmed_hit")'
        BY <1>5, <1>10, <1>11, <2>6 DEF Obj!With
      <3>2. continuous'.status = "confirmed_hit"
        BY <1>7, <2>6 DEF Obj!IsHit
      <3>3. ~Obj!ForObject => Obj!With("skipped")' = {}
        BY <1>5, <1>9, <1>10, <1>11, <2>4, <2>6 DEF Obj!With
      <3> QED BY <1>7, <3>1, <3>2, <3>3 DEF HitStatus
    <2>7. CASE Obj!Decides(r) /\ r.verdict = "no_hit"
      <3>1. ~r.partial /\ r.others = {} /\ Obj!With("pending") = {m}
        BY <2>2, <2>4, <2>7 DEF Obj!Decides, Obj!IsLast
      <3>2. \A n \in Obj!Stored \ {m} : match'[n] = match[n]
        BY <1>9, <1>10, <3>1
      <3>3. Obj!With("skipped")' = {}
        BY <1>5, <1>10, <1>11, <2>4, <2>7, <3>2 DEF Obj!With
      <3>4. CASE Obj!IsHit(r)
        <4>1. ~Obj!ForObject /\ Obj!With("confirmed_hit") /= {}
          BY <2>3, <2>7, <3>4 DEF Obj!IsHit
        <4>2. Obj!With("confirmed_hit")' /= {}
          <5>1. PICK n \in Obj!With("confirmed_hit") : TRUE
            BY <4>1
          <5>2. n \in Obj!Stored /\ match[n].status = "confirmed_hit"
            BY DEF Obj!With
          <5>3. n /= m
            BY <3>1, <5>2 DEF Obj!With
          <5>4. n \in Obj!With("confirmed_hit")'
            BY <1>11, <3>2, <5>2, <5>3 DEF Obj!With
          <5> QED BY <5>4
        <4>3. continuous'.status = "confirmed_hit"
          BY <1>7, <2>7, <3>4
        <4> QED BY <3>3, <4>2, <4>3 DEF HitStatus
      <3>5. CASE ~Obj!IsHit(r)
        <4>1. Obj!With("confirmed_hit") = {}
          BY <2>3, <2>4, <2>7, <3>5 DEF Obj!IsHit
        <4>2. \A n \in Obj!Stored \ {m} : match[n].status = "no_hit"
          BY <1>9, <2>4, <3>1, <4>1 DEF Obj!With, StoredMatch
        <4>3. Obj!With("no_hit")' = Obj!Stored'
          BY <1>10, <1>11, <2>7, <3>2, <4>2 DEF Obj!With
        <4>4. continuous'.status = "no_hit"
          BY <1>7, <2>7, <3>5
        <4> QED BY <1>7, <2>2, <3>1, <3>3, <4>3, <4>4 DEF HitStatus
      <3> QED BY <3>4, <3>5
    <2> QED BY <1>5, <2>5, <2>6, <2>7
  <1>17. HitRegular'
    BY <1>2, <1>3, <1>15, <1>16 DEF HitRegular, HitHolds
  <1> QED BY <1>12, <1>14, <1>17 DEF HitInv

LEMMA DismissInv ==
  ASSUME HitInv, NEW q \in Requests, Obj!WriteDismiss(q)
  PROVE  HitInv'
  <1> SUFFICES ASSUME NEW r, r = request[q] PROVE HitInv'
    OBVIOUS
  <1>1. HitTyped /\ KnownInv /\ HitRegular
    BY DEF HitInv
  <1>2. /\ r.op = "dismiss" /\ match' = Obj!Skipped(r.pending)
        /\ continuous' = [continuous EXCEPT !.status = "no_hit"]
        /\ late' = late /\ dismissed' = TRUE /\ regular' = regular
    BY DEF Obj!WriteDismiss
  <1>3. /\ request'[q] = Obj!Idle /\ \A p \in Requests \ {q} : request'[p] = request[p]
        /\ request' = [p \in Requests |-> request'[p]] /\ Obj!Idle.op = "idle"
    BY <1>1 DEF Obj!WriteDismiss, Obj!Answered, HitTyped, HitRowsTyped, Obj!Idle
  <1>4. r \in Dismissals /\ r /= Obj!Idle
    BY <1>1, <1>2, HitRecords DEF HitTyped
  <1>5. r.pending \subseteq Obj!Stored
    BY <1>4 DEF Dismissals
  <1>6. \A n \in Obj!Stored : n \in Obj!Matches /\ match[n] \in StoredMatch
    BY <1>1, StoredMatches
  <1>7. /\ \A n \in r.pending : match'[n] \in StoredMatch /\ match'[n].status = "skipped"
        /\ \A n \in Obj!Matches \ r.pending : match'[n] = match[n]
        /\ match' = [n \in Obj!Matches |-> match'[n]]
    BY <1>2, <1>5, <1>6 DEF Obj!Skipped, StoredMatch
  <1>8. /\ match' \in [Obj!Matches -> {Obj!NoMatch} \cup StoredMatch]
        /\ Obj!Matches' = Obj!Matches /\ Obj!Stored' = Obj!Stored
    <2>1. match' \in [Obj!Matches -> {Obj!NoMatch} \cup StoredMatch]
      BY <1>1, <1>7 DEF HitTyped, HitRowsTyped
    <2>2. Obj!NoMatch \notin StoredMatch
      BY ReviewAssumption DEF Obj!NoMatch, StoredMatch
    <2>3. Obj!Matches' = Obj!Matches
      BY DEF Obj!Matches
    <2> QED BY <1>5, <1>6, <1>7, <2>1, <2>2, <2>3 DEF Obj!Stored
  <1>9. HitTyped'
    <2>1. ReviewsOfHits' = ReviewsOfHits /\ Dismissals' = Dismissals
      BY <1>8 DEF ReviewsOfHits, Dismissals
    <2>2. ASSUME NEW p \in Requests PROVE HitRequestTyped(p)'
      BY <1>1, <1>3, <2>1 DEF HitTyped, HitRequestTyped
    <2>3. HitRowsTyped'
      BY <1>1, <1>2, <1>3, <1>8 DEF HitTyped, HitRowsTyped
    <2> QED BY <2>2, <2>3 DEF HitTyped
  <1>10. Obj!With("pending")' \subseteq Obj!With("pending") \ r.pending
    BY <1>5, <1>6, <1>7, <1>8 DEF Obj!With
  <1>11. KnownInv'
    <2>1. ASSUME NEW p \in Requests PROVE KnowsPending(p)'
      BY <1>1, <1>2, <1>3, <1>10 DEF KnownInv, KnowsPending
    <2>2. Obj!With("pending") \subseteq r.pending \cup late
      BY <1>1, <1>2 DEF KnownInv, KnowsPending
    <2> QED BY <1>2, <1>10, <2>1, <2>2 DEF KnownInv, Obj!NoneLeftPending
  <1>12. HitRegular'
    BY <1>1, <1>2, <1>3 DEF HitRegular
  <1> QED BY <1>9, <1>11, <1>12 DEF HitInv

\* What is loaded was not known when the request began: it is pending, and late unless the
\* request is the only one and the screening is still in review.
LEMMA LoadInv ==
  ASSUME HitInv, NEW q \in Requests, Obj!WriteLoad(q)
  PROVE  HitInv'
  <1>1. HitTyped /\ KnownInv /\ HitRegular
    BY DEF HitInv
  <1>2. PICK es \in SUBSET Objects, partial \in BOOLEAN, ms \in SUBSET Obj!Matches :
          /\ \E new \in Obj!Inserted(es, ms) : match' = Obj!Extended(match, new)
          /\ continuous' = [continuous EXCEPT !.partial = partial]
          /\ late' = IF (\A p \in Requests \ {q} : request[p] = Obj!Idle)
                          /\ continuous.status = "in_review" THEN late ELSE late \cup ms
          /\ regular' = (regular /\ (partial \/ es /= {} \/ Obj!With("pending") /= {}))
    BY DEF Obj!WriteLoad
  <1>3. PICK new \in Obj!Inserted(es, ms) : match' = Obj!Extended(match, new)
    BY <1>2
  <1>4. /\ new \in [ms -> es] /\ (es /= {} => ms /= {})
        /\ \A n \in Obj!Matches : match'[n] = IF n \in ms
             THEN [entity |-> new[n], status |-> "pending"] ELSE match[n]
        /\ match' = [n \in Obj!Matches |-> match'[n]]
    BY <1>3 DEF Obj!Inserted, Obj!Extended
  <1>5. /\ request[q].op = "load" /\ dismissed' = dismissed
        /\ request'[q] = Obj!Idle /\ \A p \in Requests \ {q} : request'[p] = request[p]
        /\ request' = [p \in Requests |-> request'[p]] /\ Obj!Idle.op = "idle"
    BY <1>1 DEF Obj!WriteLoad, Obj!Answered, HitTyped, HitRowsTyped, Obj!Idle
  <1>6. /\ continuous' \in [trigger : {"object", "dataset"}, partial : BOOLEAN,
                            status : {"in_review", "confirmed_hit", "no_hit"}]
        /\ continuous'.status = continuous.status /\ continuous'.partial = partial
        /\ Obj!ForObject' = Obj!ForObject
    BY <1>1, <1>2 DEF HitTyped, HitRowsTyped, Obj!ForObject
  <1>7. \A n \in Obj!Stored : n \in Obj!Matches /\ match[n] \in StoredMatch
    BY <1>1, StoredMatches
  <1>8. \A n \in ms : /\ n \in Obj!Matches /\ match'[n] \in StoredMatch
                      /\ match'[n].status = "pending"
    <2>1. \A n \in ms : new[n] \in Objects
      BY <1>4
    <2> QED BY <1>4, <2>1 DEF StoredMatch
  <1>9. \A n \in Obj!Matches \ ms : match'[n] = match[n]
    BY <1>4
  <1>10. /\ match' \in [Obj!Matches -> {Obj!NoMatch} \cup StoredMatch]
         /\ Obj!Matches' = Obj!Matches /\ Obj!Stored' = Obj!Stored \cup ms
    <2>1. match' \in [Obj!Matches -> {Obj!NoMatch} \cup StoredMatch]
      BY <1>1, <1>4, <1>8, <1>9 DEF HitTyped, HitRowsTyped
    <2>2. Obj!NoMatch \notin StoredMatch
      BY ReviewAssumption DEF Obj!NoMatch, StoredMatch
    <2>3. Obj!Matches' = Obj!Matches
      BY DEF Obj!Matches
    <2>4. \A n \in Obj!Matches : match'[n] /= Obj!NoMatch <=> n \in ms \/ match[n] /= Obj!NoMatch
      BY <1>8, <1>9, <2>2
    <2>5. Obj!Stored' = Obj!Stored \cup ms
      BY <1>8, <2>3, <2>4 DEF Obj!Stored, Obj!NoMatch
    <2> QED BY <2>1, <2>3, <2>5
  <1>11. HitTyped'
    <2>1. ReviewsOfHits \subseteq ReviewsOfHits' /\ Dismissals \subseteq Dismissals'
      BY <1>10 DEF ReviewsOfHits, Dismissals
    <2>2. ASSUME NEW p \in Requests PROVE HitRequestTyped(p)'
      BY <1>1, <1>5, <2>1 DEF HitTyped, HitRequestTyped
    <2>3. HitRowsTyped'
      BY <1>1, <1>5, <1>6, <1>10 DEF HitTyped, HitRowsTyped
    <2> QED BY <2>2, <2>3 DEF HitTyped
  <1>12. /\ Obj!With("pending") \subseteq Obj!With("pending")'
         /\ ms \subseteq Obj!With("pending")'
         /\ \A v : Obj!With(v)' \subseteq Obj!With(v) \cup ms
         /\ \A v \in {"confirmed_hit", "no_hit", "skipped"} : Obj!With(v)' \subseteq Obj!With(v)
    BY <1>7, <1>8, <1>9, <1>10 DEF Obj!With
  <1>13. KnownInv'
    <2>1. late \subseteq late'
      BY <1>2
    <2>2. ASSUME NEW p \in Requests, request[p] /= Obj!Idle, p /= q PROVE ms \subseteq late'
      BY <1>2, <2>2
    <2>3. ASSUME NEW p \in Requests PROVE KnowsPending(p)'
      <3>1. CASE request'[p] = Obj!Idle
        BY <1>5, <3>1 DEF KnowsPending
      <3>2. CASE request'[p] /= Obj!Idle
        <4>1. request'[p] = request[p] /\ KnowsPending(p) /\ ms \subseteq late'
          BY <1>1, <1>5, <2>2, <3>2 DEF KnownInv
        <4> QED BY <1>12, <2>1, <4>1 DEF KnowsPending
      <3> QED BY <3>1, <3>2
    <2>4. Obj!NoneLeftPending'
      BY <1>1, <1>2, <1>6, <1>12 DEF KnownInv, Obj!NoneLeftPending
    <2> QED BY <2>3, <2>4 DEF KnownInv
  <1>14. ASSUME regular'
         PROVE  /\ regular /\ (partial \/ es /= {} \/ Obj!With("pending") /= {})
                /\ \A p \in Requests : request'[p] = Obj!Idle
    <2>1. request[q] /= Obj!Idle
      BY <1>5
    <2> QED BY <1>1, <1>2, <1>5, <1>14, <2>1 DEF HitRegular
  <1>15. ASSUME regular', ~dismissed PROVE HitStatus'
    <2>1. HitStatus /\ HitHolds(q)
      BY <1>1, <1>14, <1>15 DEF HitRegular
    <2>2. continuous.status = "in_review"
      BY <1>5, <2>1 DEF HitHolds
    <2>3. partial \/ Obj!With("pending")' /= {}
      BY <1>4, <1>12, <1>14, <1>15
    <2>4. Obj!With("skipped") = {} /\ (Obj!ForObject => Obj!With("confirmed_hit") = {})
      BY <2>1, <2>2 DEF HitStatus
    <2>5. Obj!With("skipped")' = {} /\ (Obj!ForObject => Obj!With("confirmed_hit")' = {})
      BY <1>12, <2>4
    <2> QED BY <1>6, <2>2, <2>3, <2>5 DEF HitStatus
  <1>16. HitRegular'
    BY <1>5, <1>14, <1>15 DEF HitRegular, HitHolds
  <1> QED BY <1>11, <1>13, <1>16 DEF HitInv

LEMMA HitFails ==
  ASSUME HitInv, NEW q \in Requests, Obj!RequestFails(q)
  PROVE  HitInv'
  <1>1. /\ request'[q] = Obj!Idle /\ \A p \in Requests \ {q} : request'[p] = request[p]
        /\ request' = [p \in Requests |-> request'[p]]
        /\ continuous' = continuous /\ match' = match /\ late' = late
        /\ dismissed' = dismissed /\ regular' = regular
        /\ Obj!Idle.op = "idle"
    BY DEF Obj!RequestFails, Obj!Answered, HitInv, HitTyped, HitRowsTyped, Obj!Idle
  <1>2. Obj!Matches' = Obj!Matches /\ Obj!Stored' = Obj!Stored /\ \A v : Obj!With(v)' = Obj!With(v)
    <2>1. Obj!Stored' = Obj!Stored /\ Obj!Matches' = Obj!Matches
      BY <1>1 DEF Obj!Stored, Obj!Matches
    <2> QED BY <1>1, <2>1 DEF Obj!With
  <1>3. HitTyped'
    <2>1. ReviewsOfHits' = ReviewsOfHits /\ Dismissals' = Dismissals
      BY <1>2 DEF ReviewsOfHits, Dismissals
    <2>2. ASSUME NEW p \in Requests PROVE HitRequestTyped(p)'
      BY <1>1, <2>1 DEF HitInv, HitTyped, HitRequestTyped
    <2>3. HitRowsTyped'
      BY <1>1, <1>2 DEF HitInv, HitTyped, HitRowsTyped
    <2> QED BY <2>2, <2>3 DEF HitTyped
  <1>4. KnownInv'
    <2>1. ASSUME NEW p \in Requests PROVE KnowsPending(p)'
      BY <1>1, <1>2 DEF HitInv, KnownInv, KnowsPending
    <2>2. Obj!NoneLeftPending'
      BY <1>1, <1>2 DEF HitInv, KnownInv, Obj!NoneLeftPending
    <2> QED BY <2>1, <2>2 DEF KnownInv
  <1>5. HitRegular'
    <2>1. ASSUME regular, ~dismissed PROVE HitStatus'
      BY <1>1, <1>2, <2>1 DEF HitInv, HitRegular, HitStatus, Obj!ForObject
    <2>2. ASSUME regular, ~dismissed, NEW p \in Requests \ {q} PROVE HitHolds(p)'
      <3>1. HitHolds(p)
        BY <2>2 DEF HitInv, HitRegular
      <3>2. request'[p] = request[p] /\ Obj!With("confirmed_hit")' = Obj!With("confirmed_hit")
            /\ Obj!With("pending")' = Obj!With("pending")
        BY <1>1, <1>2
      <3> QED BY <1>1, <3>1, <3>2 DEF HitHolds
    <2>3. HitHolds(q)'
      BY <1>1 DEF HitHolds
    <2>4. regular => \A p, n \in Requests :
            request'[p] /= Obj!Idle /\ request'[n] /= Obj!Idle => p = n
      BY <1>1 DEF HitInv, HitRegular
    <2> QED BY <1>1, <2>1, <2>2, <2>3, <2>4 DEF HitRegular
  <1> QED BY <1>3, <1>4, <1>5 DEF HitInv

LEMMA HitNext == HitInv /\ Obj!Next => HitInv'
  BY HitReviewBegins, HitWriteInv, OtherBegins, DismissInv, LoadInv, HitFails DEF Obj!Next

-----------------------------------------------------------------------------
(* Both kinds of screenings.                                               *)

\* The inductive invariant.
KindInv == /\ kind \in {"decision", "continuous"}
           /\ kind = "decision" => DecisionInv
           /\ kind = "continuous" => HitInv

LEMMA KindInit == Init => KindInv
  BY DecisionInit, HitInit DEF Init, KindInv

LEMMA KindNext == KindInv /\ [Next]_vars => KindInv'
  <1> SUFFICES ASSUME KindInv, [Next]_vars PROVE KindInv'
    OBVIOUS
  <1>1. CASE kind = "decision" /\ Dec!Next /\ kind' = kind
    BY <1>1, DecisionNext DEF KindInv
  <1>2. CASE kind = "continuous" /\ Obj!Next /\ kind' = kind
    BY <1>2, HitNext DEF KindInv
  <1>3. CASE UNCHANGED vars
    <2>1. kind' = kind
      BY <1>3 DEF vars
    <2>2. DecisionInv => DecisionInv'
      <3>1. UNCHANGED <<screening, whitelist, lasting, request, regular>>
        BY <1>3 DEF vars, decisionVars
      <3> QED BY <3>1 DEF DecisionInv, ScreeningTyped, RowsTyped, ReviewTyped, Reviews,
            Refinements, ListedInv, ListedAll, RequestInv, OneRequest, StillHolds,
            StatusInv, StatusOK, LastingInv, Excludes, Dec!NoneLeftPending, Dec!Stored, Dec!Active, Dec!Pending,
            Dec!Reviewed, Dec!Screenings, ScreeningType, Dec!Idle
    <2>3. HitInv => HitInv'
      <3>1. UNCHANGED <<continuous, match, late, dismissed, request, regular>>
        BY <1>3 DEF vars, continuousVars
      <3> QED BY <3>1 DEF HitInv, HitTyped, HitRowsTyped, HitRequestTyped, ReviewsOfHits,
            Dismissals, Loads, KnownInv, KnowsPending, HitRegular, HitHolds, HitStatus,
            Obj!NoneLeftPending, Obj!Stored, Obj!With, Obj!Known, Obj!ForObject, Obj!Matches, Obj!Idle,
            Obj!NoMatch, StoredMatch
    <2> QED BY <2>1, <2>2, <2>3 DEF KindInv
  <1> QED BY <1>1, <1>2, <1>3 DEF Next

LEMMA AlwaysKindInv == Spec => []KindInv
  BY KindInit, KindNext, PTL DEF Spec

\* In whatever order reviews, refinements, dismissals and loads of any number of requests
\* are read and written, what is decided leaves nothing pending but what was loaded late
\* (usecases/screening_usecase.go, usecases/continuous_screening).
THEOREM NothingLeftToReview == Spec => []NoneLeftPending
  <1>1. KindInv => NoneLeftPending
    BY DecisionSafe DEF KindInv, NoneLeftPending, HitInv, KnownInv
  <1> QED BY <1>1, AlwaysKindInv, PTL

\* Of any number of requests that come one after the other, the reviews of a screening
\* determine its status, in the tables of either kind.
THEOREM ReviewsDetermineStatus == Spec => []StatusFollowsReviews
  <1>1. ASSUME HitInv PROVE Obj!StatusFollowsReviews
    BY <1>1 DEF HitInv, HitRegular, HitStatus, Obj!StatusFollowsReviews
  <1>2. KindInv => StatusFollowsReviews
    BY <1>1, DecisionSafe DEF KindInv, StatusFollowsReviews
  <1> QED BY <1>2, AlwaysKindInv, PTL

\* However requests overlap, repeat their transactions or fail, a search excludes what was
\* on the whitelist ever since its refinement began, as long as the provider is sent all
\* that is to be excluded (getWhitelistFromScreening in usecases/screening_usecase.go).
THEOREM NotAskedAgain == Spec => WhitelistedNotAsked
  <1>1. ASSUME KindInv, [Next]_vars PROVE [kind = "decision" => Dec!NotAsked]_vars
    <2>1. SUFFICES ASSUME kind = "decision", Dec!Next PROVE Dec!NotAsked
      BY <1>1 DEF Next
    <2>2. DecisionInv
      BY <1>1, <2>1 DEF KindInv
    <2> QED BY <2>1, <2>2, NotAskedNow
  <1> QED BY <1>1, AlwaysKindInv, PTL DEF Spec, WhitelistedNotAsked

=============================================================================
