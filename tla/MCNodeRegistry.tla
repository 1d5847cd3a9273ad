--------------------------- MODULE MCNodeRegistry ---------------------------
(***************************************************************************)
(* Instances of NodeRegistry for TLC; the .cfg files choose the faults.    *)
(***************************************************************************)
EXTENDS NodeRegistry
=============================================================================
