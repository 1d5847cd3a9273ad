--------------------------------- MODULE MCAxis ---------------------------------
(***************************************************************************)
(* The other services of Axis, and the set-up that an Orbit makes for a    *)
(* prompt, checked side by side: `part` names the one that runs, and the   *)
(* others stay as they started.                                            *)
(***************************************************************************)
EXTENDS Vaults, Packages, SignIn, Enrollment, SetupAdapters, EdgeRoutes

VARIABLE part

(* What the hooks and the packages say. *)
SameEvent == [h \in Hook |-> CHOOSE e \in Event : TRUE]
Fixed == {
  [provides |-> {"c"}, needs |-> {}, key |-> "k", supported |-> TRUE, legacy |-> FALSE],
  [provides |-> {"job.run"}, needs |-> {"n"}, key |-> "k", supported |-> TRUE, legacy |-> FALSE],
  [provides |-> {}, needs |-> {}, key |-> "l", supported |-> TRUE, legacy |-> TRUE]}

(* The writers of notes are alike: one of them begins first. *)
FirstWriter == CHOOSE w \in Writer : TRUE
InTurn == (\A w \in Writer : step[w] = "idle") \/ step[FirstWriter] # "idle"

axisVars == <<vaultVars, packageVars, signInVars, enrollmentVars, adapterVars, edgeVars, part>>

(* One state for each part that does not run. *)
AxisInit ==
  /\ part \in {"vaults", "packages", "sign_in", "enrollment", "adapters", "edge"}
  /\ VaultsInit /\ (part # "vaults" => vault = "none")
  /\ \A p \in NotePath : file[p] \in {NoNote, Addressed(CHOOSE t \in Text : TRUE)}
  /\ PackagesInit
  /\ SignInInit /\ (part # "sign_in" => accounts = {})
  /\ EnrollmentInit
  /\ AdaptersInit /\ (part # "adapters" => agent = CHOOSE h \in Harness : TRUE)
  /\ EdgeInit /\ (part # "edge" => up)

AxisNext ==
  /\ \/ /\ part = "vaults" /\ VaultsNext /\ InTurn'
        /\ UNCHANGED <<packageVars, signInVars, enrollmentVars, adapterVars, edgeVars>>
     \/ /\ part = "packages" /\ PackagesNext
        /\ UNCHANGED <<vaultVars, signInVars, enrollmentVars, adapterVars, edgeVars>>
     \/ /\ part = "sign_in" /\ SignInNext
        /\ UNCHANGED <<vaultVars, packageVars, enrollmentVars, adapterVars, edgeVars>>
     \/ /\ part = "enrollment" /\ EnrollmentNext
        /\ UNCHANGED <<vaultVars, packageVars, signInVars, adapterVars, edgeVars>>
     \/ /\ part = "adapters" /\ AdaptersNext
        /\ UNCHANGED <<vaultVars, packageVars, signInVars, enrollmentVars, edgeVars>>
     \/ /\ part = "edge" /\ EdgeNext
        /\ UNCHANGED <<vaultVars, packageVars, signInVars, enrollmentVars, adapterVars>>
  /\ UNCHANGED part

AxisSpec == AxisInit /\ [][AxisNext]_axisVars /\ WF_edgeVars(part = "edge" /\ Converge)
=============================================================================
