--------------------------- MODULE MCEdgeReplicas ---------------------------
(* Instances of EdgeReplicas for TLC. *)
EXTENDS EdgeReplicas

CONSTANTS
  Dates,              \* instants the parties date their acts with
  Kinds,              \* the targets the parties use
  Due,                \* the due instant of the edges that have one
  AcceptanceWindows,  \* the windows of the edges that have one
  ThisEdge

WellFormedEdges ==
  {e \in [edge_id : {ThisEdge}, body_id : {ThisEdge},
          closure_policy : {"on-acceptance", "on-evidence"},
          acceptance_window : AcceptanceWindows \cup {None}, due : {Due}] :
     WindowWellFormed(e)}

PartyActs ==
  {a \in [edge_id : {ThisEdge}, state : Kinds, asserted_at : Dates,
          by : Parties, evidence : BOOLEAN, signer : Parties] :
     a.signer = a.by /\ (a.evidence => a.state \in {"closed", "disputed"})}
=============================================================================
