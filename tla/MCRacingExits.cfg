CONSTANTS
  Owner = owner
  OwedTo = owedTo
  Outsiders = {hub}
  EdgeIds = {e1}
  ThisEdge = e1
  None = None
  Unreadable = Unreadable
  DisputeWindow = 1
  AcceptanceWindows = {0, 1}
  Due = 1
  Dates = {1, 2}
  Kinds = {"closed", "released", "expired"}
  Edges <- WellFormedEdges
  Acts <- PartyActs
  MaxActs = 2
SPECIFICATION Spec
CHECK_DEADLOCK FALSE
INVARIANT RacingExitsConverge
