CONSTANTS
  Owner = owner
  OwedTo = owedTo
  Outsiders = {hub}
  EdgeIds = {e1, e2}
  ThisEdge = e1
  OtherEdge = e2
  None = None
  Unreadable = Unreadable
  MaxTime = 0
  DisputeWindow = 1
  AcceptanceWindows = {1}
  Due = 0
  Edges <- WellFormedEdges
  Assertions <- PartyAssertions
  Instants <- MCInstants
  MaxChain = 8
SPECIFICATION Spec
CHECK_DEADLOCK FALSE
INVARIANT ContestNeedsBoth
