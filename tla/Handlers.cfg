\* One service with two ports, two digests of one image.
CONSTANTS
  None = None
  Digests = {d1, d2}
  Ports = {p, q}
  MaxProbes = 2
SPECIFICATION FairSpec
INVARIANTS TypeOK TunnelSuccessEarned InstallVerified HealthyIsFounded DegradedIsFounded
PROPERTY OperationEnds
