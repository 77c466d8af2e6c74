--------------------------- MODULE MCDeployment ---------------------------
(* Small instances of Deployment for TLC. *)
EXTENDS Deployment, TLC

CONSTANTS c1, c2, m1, other
=============================================================================
