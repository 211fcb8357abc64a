----------------------------- MODULE MCCaptain ------------------------------
(***************************************************************************)
(* Small instances of Captain.                                             *)
(***************************************************************************)
EXTENDS Captain
=============================================================================
