\* Three rulesets, applied in any order; every command may fail.
CONSTANTS
  r1 = r1
  r2 = r2
  r3 = r3
  a = a
  b = b
  c = c
  Revisions = {r1, r2, r3}
  Rules <- MCRules
  EmptyRule = EmptyRule
  NoRevision = NoRevision
  MaxLinks = 3
SPECIFICATION Spec
INVARIANTS TypeOK SuccessMeansInstalled NoMixedRevisions OneJump
