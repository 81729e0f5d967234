---------------------------- MODULE MCEdgeChain ----------------------------
(* Instances of EdgeChain for TLC. *)
EXTENDS EdgeChain

CONSTANTS
  MaxTime,           \* bound: assertions are dated 0..MaxTime
  Due,               \* the due instant of the edges that have one
  AcceptanceWindows, \* the windows of the edges that have one
  ThisEdge,
  OtherEdge

\* The well-formed bodies: either policy, with and without a due date.  A window of no length,
\* or without a reading, and a due date are not combined: no rule reads both.
WellFormedEdges ==
  {e \in [edge_id : {ThisEdge}, body_id : {ThisEdge},
          closure_policy : {"on-acceptance", "on-evidence"},
          acceptance_window : AcceptanceWindows \cup {None}, due : {None, Due}] :
     WindowWellFormed(e) /\ (e.acceptance_window \in {0, Unreadable} => e.due = None)}

\* Bodies whose window contradicts the policy, or whose identifier names another body.
MalformedEdges ==
  LET rewindowed == {[e EXCEPT !.acceptance_window = w] :
                       e \in WellFormedEdges, w \in AcceptanceWindows \cup {None}}
  IN {e \in rewindowed : ~WindowWellFormed(e)}
       \cup {[e EXCEPT !.body_id = OtherEdge] : e \in WellFormedEdges}

AllEdges == WellFormedEdges \cup MalformedEdges

\* Evidence is carried where some rule reads it.
AnyAssertion ==
  {a \in [edge_id : {ThisEdge, OtherEdge}, state : AssertionState, asserted_at : 0..MaxTime,
          by : Keys, evidence : BOOLEAN, signer : Keys] :
     a.evidence => a.state \in {"closed", "disputed"}}

\* What the two parties may sign about this edge, dated as they like.
PartyAssertions ==
  {a \in AnyAssertion : a.edge_id = ThisEdge /\ a.signer = a.by /\ a.by \in Parties}

\* What others send about it, and what they sign in a party's name: other keys, signatures
\* that do not verify under `by`, assertions naming another edge.
ForeignAssertions ==
  {a \in AnyAssertion \ PartyAssertions :
     /\ a.asserted_at = MaxTime
     /\ a.state \in {"proposed", "confirmed", "closed"}
     /\ a.evidence <=> a.state = "closed"}

WhateverArrives == PartyAssertions \cup ForeignAssertions

MCInstants == 0..(MaxTime + DisputeWindow)
=============================================================================
