--------------------------- MODULE MCSharedMemory ---------------------------
(***************************************************************************)
(* Model values for checking SharedMemory with TLC.                        *)
(***************************************************************************)
EXTENDS SharedMemory, TLC

ServerSymmetry == Permutations(Server)

=============================================================================
