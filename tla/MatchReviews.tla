---------------------------- MODULE MatchReviews ----------------------------
(***************************************************************************)
(* A screening that puts matches before reviewers, of either kind: the     *)
(* screening of a decision, in its own tables and with a whitelist, or a   *)
(* continuous screening, with a case.  The two kinds share no rows, so     *)
(* that there is one screening of one kind in a behaviour.                 *)
(***************************************************************************)
EXTENDS Integers, FiniteSets

CONSTANTS
  Entities,       \* that the screening of a decision may find
  Objects,        \* that a continuous screening may find
  NoEntity,
  MaxExcluded,    \* entities that the search of a refinement excludes at most
  Requests,       \* requests that may be handled at a time
  MaxRequests, MaxScreenings, MaxMatches  \* bounds, see the two modules

ASSUME ReviewAssumption ==
  /\ NoEntity \notin Objects
  /\ MaxExcluded \in Nat
  /\ MaxRequests \in Nat /\ MaxScreenings \in Nat \ {0} /\ MaxMatches \in Nat \ {0}

VARIABLES
  kind,                                  \* "decision" or "continuous"
  screening, whitelist, lasting,         \* of the screening of a decision
  continuous, match, late, dismissed,    \* of a continuous screening
  request, requests, regular

decisionVars == <<screening, whitelist, lasting>>
continuousVars == <<continuous, match, late, dismissed>>
vars == <<kind, decisionVars, continuousVars, request, requests, regular>>

Dec == INSTANCE ScreeningReviews
Obj == INSTANCE HitReviews WITH Entities <- Objects, screening <- continuous

Init ==
  \/ /\ kind = "decision" /\ Dec!Init
     /\ continuous = {} /\ match = {} /\ late = {} /\ dismissed = FALSE
  \/ /\ kind = "continuous" /\ Obj!Init
     /\ screening = {} /\ whitelist = {} /\ lasting = {}

Next ==
  \/ kind = "decision" /\ Dec!Next /\ UNCHANGED <<kind, continuousVars>>
  \/ kind = "continuous" /\ Obj!Next /\ UNCHANGED <<kind, decisionVars>>

Spec == Init /\ [][Next]_vars

-----------------------------------------------------------------------------
(* Properties.                                                             *)

\* A screening that is decided or dismissed leaves no match to review, in whatever order
\* requests of several reviewers are read and written, other than matches being loaded.
NoneLeftPending == IF kind = "decision" THEN Dec!NoneLeftPending
                                        ELSE Obj!NoneLeftPending

\* Of requests that do not overlap, the status of a screening is what its reviews say.
StatusFollowsReviews == IF kind = "decision" THEN Dec!StatusFollowsReviews
                                             ELSE Obj!StatusFollowsReviews

\* However requests overlap, a refinement does not ask about an entity that was on the
\* whitelist when it began and was not taken off it since; unless it found more entities
\* on the whitelist than the provider is told to exclude.
WhitelistedNotAsked == [][kind = "decision" => Dec!NotAsked]_vars

=============================================================================
