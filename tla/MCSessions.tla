------------------------------- MODULE MCSessions -------------------------------
(***************************************************************************)
(* The parts of Axis that keep and show sessions and notes, checked side   *)
(* by side: `part` names the one that runs, and the others stay as they    *)
(* started.                                                                *)
(***************************************************************************)
EXTENDS EventStore, StateDb, ClientStream, SessionCapabilities, TLC

VARIABLE part

CONSTANTS s1, s2

\* A session and its fork, in what Axis finds when it starts.
OneFork == [c \in {s2} |-> s1]

\* Requests are alike.
Alike == Permutations(Asker)

sessionsVars == <<storeVars, stateDbVars, streamVars, capabilityVars, part>>

(* One state for each part that does not run. *)
SessionsInit ==
  /\ part \in {"store", "state_db", "stream", "capabilities"}
  /\ StoreInit /\ (part # "store" => backend = "sqlite")
  /\ StateDbInit /\ (part # "state_db" => reader = "observer")
  /\ StreamInit /\ CapabilityInit

SessionsNext ==
  /\ \/ /\ part = "store" /\ StoreNext
        /\ UNCHANGED <<stateDbVars, streamVars, capabilityVars>>
     \/ /\ part = "state_db" /\ StateDbNext
        /\ UNCHANGED <<storeVars, streamVars, capabilityVars>>
     \/ /\ part = "stream" /\ StreamNext
        /\ UNCHANGED <<storeVars, stateDbVars, capabilityVars>>
     \/ /\ part = "capabilities" /\ CapabilityNext
        /\ UNCHANGED <<storeVars, stateDbVars, streamVars>>
  /\ UNCHANGED part

SessionsSpec == SessionsInit /\ [][SessionsNext]_sessionsVars
=============================================================================
