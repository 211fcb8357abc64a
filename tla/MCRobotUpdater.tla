--------------------------- MODULE MCRobotUpdater ---------------------------
(* Two robots, of which one may be given a manual filter, and two cameras. *)
EXTENDS RobotUpdater

MCConfidence == 1..2
=============================================================================
