---------------------------- MODULE MCActSurface ----------------------------
(* Instances of ActSurface for TLC. *)
EXTENDS ActSurface

CONSTANTS
  Due,               \* the due instant of the edges that have one
  AcceptanceWindow,  \* the window of the edges that have one
  ThisEdge

\* The four well-formed bodies, four whose window contradicts the policy, and one whose window
\* addDuration cannot read.
MCEdges ==
  {e \in [edge_id : {ThisEdge}, body_id : {ThisEdge},
          closure_policy : {"on-acceptance", "on-evidence"},
          acceptance_window : {None, AcceptanceWindow, Unreadable}, due : {None, Due}] :
     e.acceptance_window = Unreadable => WindowWellFormed(e) /\ e.due = None}

\* What the two parties may sign elsewhere.
PartyAssertions ==
  {a \in [edge_id : {ThisEdge}, state : AssertionState, asserted_at : 0..MaxNow,
          by : Parties, evidence : BOOLEAN, signer : Parties] :
     a.signer = a.by /\ (a.evidence <=> a.state \in {"closed", "disputed"})}

MCInstants == 0..(MaxNow + DisputeWindow)
=============================================================================
