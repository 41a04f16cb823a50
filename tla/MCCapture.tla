------------------------------ MODULE MCCapture ------------------------------
(***************************************************************************)
(* Model values for checking Capture with TLC.                             *)
(***************************************************************************)
EXTENDS Capture, TLC

=============================================================================
