---------------------------- MODULE ExactlyOnceLog ----------------------------
(***************************************************************************)
(* What the Orbit-to-Axis event transport promises, with no transport in   *)
(* it: per session, the Orbit journals values in an order, and Axis        *)
(* accepts exactly those values, each once, in that order.  The promise is *)
(* "Seq gate makes replay exactly-once and ordered" of                     *)
(* docs/adrs/0008-axis-orbit-split-rolling-deploy.md:91.                   *)
(***************************************************************************)
EXTENDS Naturals, Sequences

CONSTANTS Session, Value

VARIABLES
  sent,       \* [Session -> Seq(Value)], what the Orbit journalled
  accepted    \* [Session -> Seq(Value)], what passed the Axis sequence gate

vars == <<sent, accepted>>

Init ==
  /\ sent = [s \in Session |-> <<>>]
  /\ accepted = [s \in Session |-> <<>>]

Journal(s) ==
  /\ \E v \in Value : sent' = [sent EXCEPT ![s] = Append(@, v)]
  /\ UNCHANGED accepted

Accept(s) ==
  /\ Len(accepted[s]) < Len(sent[s])
  /\ accepted' = [accepted EXCEPT ![s] = Append(@, sent[s][Len(@) + 1])]
  /\ UNCHANGED sent

Next == \E s \in Session : Journal(s) \/ Accept(s)

Spec == Init /\ [][Next]_vars
=============================================================================
