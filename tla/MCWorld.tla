------------------------------ MODULE MCWorld -------------------------------
(* Two cameras, one of which may be more confident than the other.         *)
EXTENDS World

MCConfidence == {1, 2}
=============================================================================
