--------------------------- MODULE MCRobotObserver --------------------------
(* One robot, seen by two cameras. *)
EXTENDS RobotObserver

MCConfidence == 1..2
=============================================================================
