CONSTANTS
  Owner = owner
  OwedTo = owedTo
  Outsiders = {hub}
  EdgeIds = {e1}
  ThisEdge = e1
  None = None
  Unreadable = Unreadable
  MaxNow = 2
  DisputeWindow = 2
  AcceptanceWindow = 2
  Due = 1
  Edges <- MCEdges
  Assertions <- PartyAssertions
  Instants <- MCInstants
  MaxChain = 5
SPECIFICATION SurfaceSpec
CHECK_DEADLOCK FALSE
INVARIANT AcceptedActsAreValid
