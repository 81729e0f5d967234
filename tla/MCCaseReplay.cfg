CONSTANTS
  Owner = alice
  OwedTo = bob
  Carol = carol
  Outsiders = {carol}
  TheEdge = e1
  ForeignEdge = e2
  EdgeIds = {e1, e2}
  OrgRoot = org
  TeamScope = team
  HubOperator = hub
  None = None
  Unreadable = Unreadable
  Null = None
  DisputeWindow = 720
  MaxResent = 2
  Signers = {alice, bob, carol, hub}
  Directory = {alice, bob, carol}
  B1 = b1
  B2 = b2
  Bodies = {b1, b2}
  C1 = c1
  C2 = c2
  Challenges = {c1, c2}
  Sender = alice
  SigKey <- SigText
  NoPayload = none
  Unsigned <- SmallMessages
  Docs <- SmallDocs
  Zero = zero
  One = one
  Octet = {zero, one}
  Texts <- SmallTexts
  Width = 1
  Limit = 65536
  Size <- FillerSize
SPECIFICATION FairSpec
CHECK_DEADLOCK FALSE
INVARIANT TableAsPinned
INVARIANT FilesAsPinned
INVARIANT RedeliveryIsHarmless
INVARIANT OneFormPerMeaning
INVARIANT LinkKeepsTheSignature
INVARIANT IdentifiersBind
INVARIANT RotationIsNeverProof
INVARIANT KnownKeysOnlyName
INVARIANT SelfcheckPasses
INVARIANT SelfcheckCatches
INVARIANT TheLimitIsStraddled
PROPERTY TheSearchEnds
INVARIANT SelftestAsPinned
INVARIANT NoVerdictFromAFilteredRun
