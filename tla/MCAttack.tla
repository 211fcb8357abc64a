------------------------------ MODULE MCAttack ------------------------------
(* Two field robots, who may both be seen when a kickoff is formed *)
EXTENDS Attack

CONSTANTS r1, r2, none

MCRobot == {r1, r2}
=============================================================================
