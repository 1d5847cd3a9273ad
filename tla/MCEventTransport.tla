--------------------------- MODULE MCEventTransport ---------------------------
(***************************************************************************)
(* Small instances of EventTransport for TLC.                              *)
(***************************************************************************)
EXTENDS EventTransport, TLC

\* Sessions that are not jobs, and drain tasks, are interchangeable.
Symmetry == Permutations(Session \ Jobs) \cup Permutations(Task)
=============================================================================
