--------------------------- MODULE MCJobAttempts ---------------------------
(***************************************************************************)
(* Instances of JobAttempts for TLC; the .cfg files choose the faults.     *)
(***************************************************************************)
EXTENDS JobAttempts, TLC

\* Jobs differ in nothing but their names.
Symmetry == Permutations(Job)
=============================================================================
