--------------------------- MODULE MCFaceDetector ---------------------------
(***************************************************************************)
(* Model values for checking FaceDetector with TLC.  When all its frames   *)
(* are written the window has only its menu left, and can be closed.       *)
(***************************************************************************)
EXTENDS FaceDetector

=============================================================================
