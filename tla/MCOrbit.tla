-------------------------------- MODULE MCOrbit --------------------------------
(***************************************************************************)
(* The parts of an Orbit that share no state, checked side by side: `part` *)
(* names the one that runs, and the others stay as they started.           *)
(***************************************************************************)
EXTENDS RuntimeTable, AcpClient, Terminals

VARIABLE part

orbitVars == <<runtimeVars, acpVars, terminalVars, part>>

OrbitInit ==
  /\ part \in {"table", "agent", "terminals"}
  /\ RuntimeInit /\ AcpInit
  /\ TerminalsInit /\ (part # "terminals" => site = "axis" /\ tmux)

OrbitNext ==
  /\ \/ part = "table" /\ RuntimeNext /\ UNCHANGED <<acpVars, terminalVars>>
     \/ part = "agent" /\ AcpNext /\ UNCHANGED <<runtimeVars, terminalVars>>
     \/ part = "terminals" /\ TerminalsNext /\ UNCHANGED <<runtimeVars, acpVars>>
  /\ UNCHANGED part

(* Nothing that the fairness speaks of is enabled in a part that has not
   started. *)
OrbitSpec == OrbitInit /\ [][OrbitNext]_orbitVars /\ RuntimeFairness /\ AcpFairness

(* Every part keeps its types, and the client its request ids apart. *)
OrbitTypeOK == RuntimeTypeOK /\ AcpTypeOK /\ TerminalsTypeOK

=============================================================================
