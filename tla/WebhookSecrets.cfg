\* Rotations and revocations that overlap at any statement.
SPECIFICATION SecretsSpec
CONSTANTS
  Secrets = {s1, s2, s3, s4, s5}
  First = s1
  Rotators = {c1, c2}
  Revokers = {u1, u2}
SYMMETRY Symmetry
INVARIANT PermanentRemains
CHECK_DEADLOCK FALSE
