CONSTANTS
  Owner = owner
  OwedTo = owedTo
  Outsiders = {hub}
  EdgeIds = {e1, e2}
  ThisEdge = e1
  OtherEdge = e2
  None = None
  Unreadable = Unreadable
  MaxTime = 1
  DisputeWindow = 1
  AcceptanceWindows = {1}
  Due = 1
  Edges <- WellFormedEdges
  Assertions <- PartyAssertions
  Instants <- MCInstants
  MaxChain = 5
SPECIFICATION Spec
CHECK_DEADLOCK FALSE
INVARIANT ContestWindowRunsFromTheLaterAct
