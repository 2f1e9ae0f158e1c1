------------------------ MODULE MCPerObjectExecution ------------------------
(* Instances of PerObjectExecution for TLC.                                *)
EXTENDS PerObjectExecution, TLC

\* A bound: with a setup that ran again, no timer expires and no decision job fails.
QuietAfterRerun == reruns = 1 =>
  expired = {} /\ \A r \in Rows : decisionJob[r].attempts <= 1
=============================================================================
