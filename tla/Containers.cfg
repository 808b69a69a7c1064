\* One service, two known containers, three containers created in all.
CONSTANTS
  awg = awg
  xray = xray
  Services = {svc}
  Known <- MCKnown
  None = None
  MaxRev = 2
  MaxGen = 3
SPECIFICATION FairSpec
INVARIANT TypeOK
PROPERTIES SuccessIsTrue OnlyItsOwn OperationEnds
