--------------------------- MODULE MCDriverLibrary ---------------------------
(***************************************************************************)
(* Instances of DriverLibrary for TLC.                                     *)
(***************************************************************************)
EXTENDS DriverLibrary, TLC

CONSTANTS b1, b2, b3, n1, i1, i2

MCSymmetry == Permutations(Buffers) \cup Permutations(Inferences)
=============================================================================
