------------------------------ MODULE MCWriter ------------------------------
(***************************************************************************)
(* Model values for checking Writer on its own with TLC.                   *)
(***************************************************************************)
EXTENDS Writer, TLC

=============================================================================
