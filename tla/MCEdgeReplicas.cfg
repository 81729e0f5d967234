CONSTANTS
  Owner = owner
  OwedTo = owedTo
  Outsiders = {hub}
  EdgeIds = {e1}
  ThisEdge = e1
  None = None
  Unreadable = Unreadable
  DisputeWindow = 1
  AcceptanceWindows = {0, 1}
  Due = 2
  Dates = {1, 2}
  Kinds = {"closed", "released", "expired", "superseded", "disputed"}
  Edges <- WellFormedEdges
  Acts <- PartyActs
  MaxActs = 3
SPECIFICATION Spec
CHECK_DEADLOCK FALSE
INVARIANT NoneLeftOpen
INVARIANT NothingSimultaneousIsDiscarded
INVARIANT OnlyTheseDivide
