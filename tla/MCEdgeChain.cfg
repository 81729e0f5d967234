CONSTANTS
  Owner = owner
  OwedTo = owedTo
  Outsiders = {hub}
  EdgeIds = {e1, e2}
  ThisEdge = e1
  OtherEdge = e2
  None = None
  Unreadable = Unreadable
  MaxTime = 2
  DisputeWindow = 2
  AcceptanceWindows = {0, 1, Unreadable}
  Due = 1
  Edges <- AllEdges
  Assertions <- WhateverArrives
  Instants <- MCInstants
  MaxChain = 6
SPECIFICATION Spec
CHECK_DEADLOCK FALSE
INVARIANT TypeOK
INVARIANT ConsentFirst
INVARIANT SignersNeverGoBack
INVARIANT ClosureIsEarned
INVARIANT DisputeEndsFairly
INVARIANT OnlyARaceReopens
INVARIANT FirstContestNeedsBoth
INVARIANT Coherent
INVARIANT NoStateIsATrap
INVARIANT OnlyTheseCountAgain
PROPERTY LifecycleSpec
