------------------------------ MODULE MCServer ------------------------------
(***************************************************************************)
(* A small instance of the path of a request for TLC.  Liveness is         *)
(* checked, so there is no symmetry.                                       *)
(***************************************************************************)
EXTENDS ServerProperties, TLC
=============================================================================
