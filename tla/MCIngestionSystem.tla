------------------------- MODULE MCIngestionSystem -------------------------
EXTENDS IngestionSystem, TLC

CONSTANTS o1, a, b

\* The same object in two batches, the second row leaving fields out.
TwoBatches == << (o1 :> [at |-> 1, data |-> a]), (o1 :> [at |-> 2, data |-> Missing]) >>

=============================================================================
