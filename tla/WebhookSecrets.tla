--------------------------- MODULE WebhookSecrets ---------------------------
(***************************************************************************)
(* The signing secrets of one webhook: users add secrets, let the existing *)
(* ones expire, and revoke them.  Every delivery is signed with the active *)
(* secrets, so a webhook is meant to keep a permanent one at all times.    *)
(***************************************************************************)
EXTENDS Integers, FiniteSets

CONSTANTS
  Secrets,   \* secrets that may ever exist
  First,     \* the secret that RegisterWebhook creates
  Rotators,  \* concurrent calls that create a secret
  Revokers   \* concurrent calls that revoke one

ASSUME SecretsAssumption == IsFiniteSet(Secrets) /\ First \in Secrets

VARIABLES
  \* Each row of webhook_secrets, and whether its expiry date has passed.
  secret,
  \* For each call to create a secret the permanent secrets that its update found.
  rotator,
  \* For each call to revoke: how far it is, and what it read.
  revoker,
  \* History: a permanent secret was revoked that another call had counted, which had still
  \* to revoke another one.
  raced

secretsVars == <<secret, rotator, revoker, raced>>

-----------------------------------------------------------------------------

IdleRotator == [pc |-> "idle", found |-> {}]
IdleRevoker == [pc |-> "idle", target |-> First, permanent |-> FALSE]

\* Neither revoked nor with an expiry date.
Permanent == {s \in Secrets : secret[s] = "permanent"}

\* A call that has counted and will revoke one of the secrets.
WillRevoke(u, secrets) == revoker[u].pc = "allowed" /\ revoker[u].target \in secrets

SecretsInit ==
  /\ secret = [s \in Secrets |-> IF s = First THEN "permanent" ELSE "absent"]
  /\ rotator = [c \in Rotators |-> IdleRotator]
  /\ revoker = [u \in Revokers |-> IdleRevoker]
  /\ raced = FALSE

\* An expiry date passes.
SecretExpires(s) ==
  /\ secret[s] = "expiring"
  /\ secret' = [secret EXCEPT ![s] = "expired"]
  /\ UNCHANGED <<rotator, revoker, raced>>

\* CreateWebhookSecret: within its transaction ExpireWebhookSecrets finds the
\* permanent secrets, if the caller wants the existing ones to expire.
FindExisting(c) ==
  /\ rotator[c].pc = "idle"
  /\ \E found \in {Permanent, {}} :
       rotator' = [rotator EXCEPT ![c] = [pc |-> "found", found |-> found]]
  /\ UNCHANGED <<secret, revoker, raced>>

\* The commit: the secrets found expire unless another call changed them since
\* (the update waits for their rows and looks at them again); one is added.
CommitSecret(c, s) ==
  /\ rotator[c].pc = "found" /\ secret[s] = "absent"
  /\ secret' = [t \in Secrets |->
       IF t = s THEN "permanent"
       ELSE IF t \in rotator[c].found \cap Permanent THEN "expiring" ELSE secret[t]]
  /\ rotator' = [rotator EXCEPT ![c] = IdleRotator]
  /\ UNCHANGED <<revoker, raced>>

\* The transaction is rolled back.
RotationFails(c) ==
  /\ rotator[c].pc = "found"
  /\ rotator' = [rotator EXCEPT ![c] = IdleRotator]
  /\ UNCHANGED <<secret, revoker, raced>>

\* RevokeWebhookSecret: GetWebhookSecret, CountPermanentWebhookSecrets and the
\* update are separate statements, outside of any transaction.
ReadSecret(u, s) ==
  /\ revoker[u].pc = "idle"
  /\ secret[s] \in {"permanent", "expiring", "expired"}
  /\ revoker' = [revoker EXCEPT ![u] =
       [pc |-> "read", target |-> s, permanent |-> secret[s] = "permanent"]]
  /\ UNCHANGED <<secret, rotator, raced>>

\* Mutant: the secret to revoke is counted among the remaining ones.
Mutant_TargetCounts(u) == Cardinality(Permanent)

\* The permanent secrets that are to remain.
Remaining(u) ==
  IF revoker[u].permanent THEN Cardinality(Permanent) - 1 ELSE Cardinality(Permanent)

CountPermanent(u) ==
  /\ revoker[u].pc = "read"
  /\ revoker' = [revoker EXCEPT ![u] =
       IF Remaining(u) < 1 THEN IdleRevoker ELSE [revoker[u] EXCEPT !.pc = "allowed"]]
  /\ UNCHANGED <<secret, rotator, raced>>

Revoke(u) ==
  /\ revoker[u].pc = "allowed"
  /\ secret' = [secret EXCEPT ![revoker[u].target] = "revoked"]
  /\ revoker' = [revoker EXCEPT ![u] = IdleRevoker]
  /\ raced' = (raced \/ (revoker[u].target \in Permanent
                          /\ \E v \in Revokers : WillRevoke(v, Permanent \ {revoker[u].target})))
  /\ UNCHANGED rotator

\* An error of one of the statements.
RevocationFails(u) ==
  /\ revoker[u].pc /= "idle"
  /\ revoker' = [revoker EXCEPT ![u] = IdleRevoker]
  /\ UNCHANGED <<secret, rotator, raced>>

Rotate(c) ==
  \/ FindExisting(c) \/ RotationFails(c)
  \/ \E s \in Secrets : CommitSecret(c, s)

Revocation(u) ==
  \/ \E s \in Secrets : ReadSecret(u, s)
  \/ CountPermanent(u) \/ Revoke(u) \/ RevocationFails(u)

SecretsNext ==
  \/ \E s \in Secrets : SecretExpires(s)
  \/ \E c \in Rotators : Rotate(c)
  \/ \E u \in Revokers : Revocation(u)

SecretsSpec == SecretsInit /\ [][SecretsNext]_secretsVars

-----------------------------------------------------------------------------
(* Properties.                                                             *)

\* Type invariant.
SecretsTypeOK ==
  /\ secret \in [Secrets -> {"absent", "permanent", "expiring", "expired", "revoked"}]
  /\ rotator \in [Rotators -> [pc : {"idle", "found"}, found : SUBSET Secrets]]
  /\ revoker \in [Revokers ->
       [pc : {"idle", "read", "allowed"}, target : Secrets, permanent : BOOLEAN]]
  /\ raced \in BOOLEAN

\* The webhook has a permanent secret, whatever rotations and revocations do between each
\* other's statements, unless one of two revocations that have both counted has revoked.
PermanentRemains == raced \/ Permanent /= {}

=============================================================================
