CONSTANTS
  Owner = alice
  OwedTo = bob
  Carol = carol
  Org = org
  Team = team
  ThisEdge = e1
  OtherEdge = e2
  None = None
  Personas <- MCPersonas
  EdgeIds <- MCEdgeIds
  Publishes <- MCPublishes
  Attestations <- MCAttestations
  Revocations <- MCRevocations
  MaxNow = 2
  MaxRecords = 4
SPECIFICATION Spec
CHECK_DEADLOCK FALSE
INVARIANT EveryAnswerHasItsGround
PROPERTY OpensForAReason
PROPERTY ClosesForAReason
