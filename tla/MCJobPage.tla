------------------------------ MODULE MCJobPage ------------------------------
(* Instances of JobPage for TLC. *)
EXTENDS JobPage, TLC
=============================================================================
